--------------------------- MODULE TurnLoopProofs ---------------------------
(***************************************************************************)
(* What holds of the turn loop for every number of rows, channels, drains, *)
(* deaths, errors and operator requests.  With steering on or off: its     *)
(* types, and that every row in progress has exactly one owner.  Where the *)
(* CLI starts no turn by itself: that an answer is posted where its rows   *)
(* came from, that no row waits when the shard comes to rest, and that a   *)
(* completed row was consumed in the turn that completes it, the last two  *)
(* under the operator requests they name (TLC violates them under the      *)
(* others).                                                                *)
(***************************************************************************)
EXTENDS TurnLoop, FiniteSetTheorems, SequenceTheorems, WellFoundedInduction, TLAPS

-----------------------------------------------------------------------------
(* The inductive invariant.                                                  *)

Statuses == {"none", "queued", "running", "complete", "crashed", "skipped"}
Places == {"free", "claim", "write", "written", "read", "finish", "count", "settle", "bounce",
           "bouncing"}
Kinds == {"ok", "error", "wall"}
Batches ==
    [rows : SUBSET Rows, merged : SUBSET Rows, chan : Channels \cup {NoChannel},
     origin : {"queue", "followon", "self"}, awaiting : BOOLEAN, bg : BOOLEAN, cut : BOOLEAN,
     steered : 0..MaxLines, result : Kinds \cup {"none", "nothing", "died", "discarded"},
     ate : SUBSET Rows]
Lines == [kind : {"primary", "steer"}, rows : SUBSET Rows, chan : Channels]
Events ==
    [t : {"replay"}, texts : Seq(SUBSET Rows)]
      \cup [t : {"result"}, kind : Kinds, ate : SUBSET Rows, bg : BOOLEAN]
      \cup [t : {"init"}] \cup [t : {"control_response"}, id : 0..MaxOps]

\* What the variables of each part hold.
QueueTypes ==
    /\ count \in 0..MaxRows
    /\ status \in [Rows -> Statuses] /\ chan \in [Rows -> Channels \cup {NoChannel}]
    /\ prio \in [Rows -> BOOLEAN] /\ held \in [Rows -> BOOLEAN]
TurnTypes ==
    /\ agent \in {"IDLE", "PROCESSING", "ERROR_RECOVERY"} /\ drains \in 0..MaxDrains
    /\ pc \in Places /\ resume \in BOOLEAN /\ batch \in Batches
    /\ ledger \in Seq(Lines)
    /\ flag \in BOOLEAN /\ bgseen \in BOOLEAN
    /\ steerers \in BOOLEAN /\ steering \in SUBSET Rows
    /\ redrain \in BOOLEAN /\ waiter \in 0..MaxOps
ProcessTypes ==
    /\ proc \in {"none", "alive", "dead"} /\ op \in {"none", "kill", "killonly", "start"}
    /\ gaveup \in BOOLEAN /\ attached \in {"cur", "old"} /\ tail \in Seq(Events)
CliTypes ==
    /\ out \in Seq(Events) /\ inq \in Seq(SUBSET Rows)
    /\ running \in BOOLEAN /\ ate \in SUBSET Rows /\ bgtask \in BOOLEAN /\ control \in 0..MaxOps
BoundTypes == deaths \in Nat /\ ops \in 0..MaxOps /\ errors \in Nat /\ selves \in Nat
Types == QueueTypes /\ TurnTypes /\ ProcessTypes /\ CliTypes /\ BoundTypes

\* Rows exist up to count, each with the channel it came from.
Rowed == \A r \in Rows : IF r > count THEN status[r] = "none" ELSE chan[r] \in Channels

Running == {r \in Rows : status[r] = "running"}
Steered == SteerRows(Len(ledger))

\* Every row in progress has one owner.
Owned ==
    /\ Running = TurnRows \cup Steered \cup steering
    /\ TurnRows \cap Steered = {}
    /\ steering \cap (TurnRows \cup Steered) = {}

\* ... and is in one line of the ledger at most.
LinesApart ==
    \A i, j \in 1..Len(ledger) :
        ledger[i].kind = "steer" /\ ledger[j].kind = "steer" /\ i # j
            => ledger[i].rows \cap ledger[j].rows = {}

\* A batch that is not read yet has merged nothing; one whose turn has not started
\* owns nothing.
BatchBegins ==
    /\ pc \in {"write", "written"} => batch.merged = {} /\ batch.chan \in Channels
    /\ batch.awaiting => Answered = {}

\* The steer task never claims more than the turn may still take.
SteerBound == batch.steered + Cardinality(steering) <= MaxLines

Kept == Rowed /\ Owned /\ LinesApart /\ BatchBegins /\ SteerBound
IInv == Types /\ Kept

-----------------------------------------------------------------------------
(* Sequences and orders.                                                     *)

LEMMA AppendTyped ==
  ASSUME NEW S, NEW s \in Seq(S), NEW e \in S
  PROVE  /\ Append(s, e) \in Seq(S) /\ Len(Append(s, e)) = Len(s) + 1
         /\ \A i \in 1..Len(s) : Append(s, e)[i] = s[i]
         /\ Append(s, e)[Len(s) + 1] = e
  OBVIOUS

\* What is left of a sequence from a position on.
LEMMA RestTyped ==
  ASSUME NEW S, NEW s \in Seq(S), NEW m \in 1..(Len(s) + 1)
  PROVE  /\ SubSeq(s, m, Len(s)) \in Seq(S) /\ Len(SubSeq(s, m, Len(s))) = Len(s) - m + 1
         /\ \A i \in 1..(Len(s) - m + 1) : SubSeq(s, m, Len(s))[i] = s[m + i - 1]
  <1>1. Len(s) \in Nat /\ m \in Int /\ Len(s) \in Int /\ \A i \in m..Len(s) : s[i] \in S
    BY LenProperties
  <1> QED
    BY <1>1, SubSeqProperties

LEMMA PrefixTyped ==
  ASSUME NEW S, NEW s \in Seq(S), NEW n \in 0..Len(s)
  PROVE  /\ SubSeq(s, 1, n) \in Seq(S) /\ Len(SubSeq(s, 1, n)) = n
         /\ \A i \in 1..n : SubSeq(s, 1, n)[i] = s[i]
  <1>1. Len(s) \in Nat /\ n \in Int /\ \A i \in 1..n : s[i] \in S
    BY LenProperties
  <1> QED
    BY <1>1, SubSeqProperties

\* An irreflexive and transitive order on a finite set has a first element: what is
\* below an element grows strictly along the order.
LEMMA FirstOf ==
  ASSUME NEW S, IsFiniteSet(S), S # {}, NEW R,
         \A a \in S : <<a, a>> \notin R,
         \A a, b, c \in S : <<a, b>> \in R /\ <<b, c>> \in R => <<a, c>> \in R
  PROVE  \E a \in S : \A b \in S : <<b, a>> \notin R
  <1> DEFINE Below(a) == {b \in S : <<b, a>> \in R}
             T == {Below(a) : a \in S}
  <1>0. \A a \in S : Below(a) \subseteq S /\ IsFiniteSet(Below(a))
    BY FS_Subset
  <1>1. \A a, b \in S : b \in Below(a) <=> <<b, a>> \in R
    OBVIOUS
  <1> HIDE DEF Below
  <1>2. T # {} /\ T \subseteq FiniteSubsetsOf(S)
    BY <1>0 DEF FiniteSubsetsOf
  <1>3. PICK x \in T : \A y \in T : ~(<<y, x>> \in StrictSubsetOrdering(S))
    BY <1>2, FS_StrictSubsetOrderingWellFounded, WFMin
  <1>4. PICK a \in S : x = Below(a)
    BY <1>3
  <1>5. ASSUME NEW b \in S, <<b, a>> \in R PROVE FALSE
    <2>1. Below(b) \in T
      OBVIOUS
    <2>2. b \in Below(a) /\ b \notin Below(b)
      BY <1>1, <1>5
    <2>3. Below(b) \subseteq Below(a)
      BY <1>0, <1>1, <1>5
    <2>4. <<Below(b), Below(a)>> \in StrictSubsetOrdering(S)
      BY <1>0, <2>2, <2>3 DEF StrictSubsetOrdering
    <2> QED
      BY <1>3, <1>4, <2>1, <2>4
  <1> QED
    BY <1>5

LEMMA FirstNatural ==
  ASSUME NEW S, IsFiniteSet(S), S \subseteq Int, S # {}
  PROVE  \E a \in S : \A b \in S : a <= b
  <1> DEFINE R == {p \in S \X S : p[1] < p[2]}
  <1>1. \A a \in S, b \in S : <<a, b>> \in R <=> a < b
    OBVIOUS
  <1> HIDE DEF R
  <1>2. /\ \A a \in S : <<a, a>> \notin R
        /\ \A a, b, c \in S : <<a, b>> \in R /\ <<b, c>> \in R => <<a, c>> \in R
    BY <1>1
  <1>3. PICK a \in S : \A b \in S : <<b, a>> \notin R
    BY <1>2, FirstOf
  <1>4. ASSUME NEW b \in S PROVE a <= b
    <2>1. a \in Int /\ b \in Int /\ ~(b < a)
      BY <1>1, <1>3
    <2> QED
      BY <2>1
  <1> QED
    BY <1>4

-----------------------------------------------------------------------------
(* The claim order.                                                          *)

LEMMA RowsFinite == Rows \subseteq Nat /\ \A S \in SUBSET Rows : IsFiniteSet(S)
  <1>1. MaxRows \in Nat /\ 1 \in Int
    BY TurnLoopAssumption
  <1>2. IsFiniteSet(Rows)
    BY <1>1, FS_Interval DEF Rows
  <1>3. \A S \in SUBSET Rows : IsFiniteSet(S)
    BY <1>2, FS_Subset
  <1> QED
    BY <1>1, <1>3 DEF Rows

\* Priority first, then age: a strict total order of the rows.
LEMMA AheadOrders ==
  ASSUME QueueTypes
  PROVE  /\ \A a \in Rows : ~Ahead(a, a)
         /\ \A a, b, c \in Rows : Ahead(a, b) /\ Ahead(b, c) => Ahead(a, c)
         /\ \A a, b \in Rows : a = b \/ Ahead(a, b) \/ Ahead(b, a)
  <1>1. \A a \in Rows : a \in Nat /\ prio[a] \in BOOLEAN
    BY RowsFinite DEF QueueTypes
  <1> QED
    BY <1>1 DEF Ahead

LEMMA HeadFirst ==
  ASSUME QueueTypes, Queued # {}
  PROVE  Head0 \in Queued /\ \A q \in Queued \ {Head0} : Ahead(Head0, q)
  <1> DEFINE R == {p \in Rows \X Rows : Ahead(p[1], p[2])}
  <1>1. \A a, b \in Rows : <<a, b>> \in R <=> Ahead(a, b)
    OBVIOUS
  <1> HIDE DEF R
  <1>2. Queued \subseteq Rows /\ IsFiniteSet(Queued)
    BY RowsFinite DEF Queued
  <1>3. \E a \in Queued : \A b \in Queued : <<b, a>> \notin R
    <2>1. \A a \in Queued : <<a, a>> \notin R
      BY <1>1, <1>2, AheadOrders
    <2>2. \A a, b, c \in Queued : <<a, b>> \in R /\ <<b, c>> \in R => <<a, c>> \in R
      BY <1>1, <1>2, AheadOrders
    <2> QED
      BY <1>2, <2>1, <2>2, FirstOf
  <1>4. \E a \in Queued : \A b \in Queued \ {a} : Ahead(a, b)
    BY <1>1, <1>2, <1>3, AheadOrders
  <1> QED
    BY <1>4 DEF Head0

\* At most n rows are among the first n.
LEMMA ForemostSize ==
  ASSUME QueueTypes, NEW S \in SUBSET Rows, NEW n \in Nat
  PROVE  /\ Foremost(S, n) \subseteq S /\ IsFiniteSet(Foremost(S, n))
         /\ Cardinality(Foremost(S, n)) <= n
  <1> DEFINE Before(r) == {q \in S : Ahead(q, r)}
             F == Foremost(S, n)
             f == [r \in F |-> Cardinality(Before(r))]
  <1>1. F \subseteq S /\ IsFiniteSet(F) /\ F = {r \in S : Cardinality(Before(r)) < n}
    BY RowsFinite DEF Foremost
  <1>2. \A r \in S : IsFiniteSet(Before(r)) /\ Cardinality(Before(r)) \in Nat
    BY RowsFinite, FS_CardinalityType
  <1>3. \A q, r \in S : q \in Before(r) <=> Ahead(q, r)
    OBVIOUS
  <1>4. \A r \in S : Before(r) \subseteq S
    OBVIOUS
  <1> HIDE DEF Before, F
  <1>5. ASSUME NEW a \in F, NEW b \in F, Ahead(a, b) PROVE Cardinality(Before(a)) < Cardinality(Before(b))
    <2>1. Before(a) \subseteq Before(b) /\ a \in Before(b) /\ a \notin Before(a)
      BY <1>1, <1>3, <1>4, <1>5, AheadOrders
    <2>2. Cardinality(Before(a)) <= Cardinality(Before(b)) /\ Cardinality(Before(a)) # Cardinality(Before(b))
      BY <1>1, <1>2, <2>1, FS_Subset
    <2> QED
      BY <1>1, <1>2, <2>2
  <1>6. f \in [F -> 0..(n - 1)]
    BY <1>1, <1>2
  <1>7. \A a, b \in F : f[a] = f[b] => a = b
    <2> SUFFICES ASSUME NEW a \in F, NEW b \in F, f[a] = f[b], a # b PROVE FALSE
      OBVIOUS
    <2>1. a \in Rows /\ b \in Rows
      BY <1>1
    <2>2. Ahead(a, b) \/ Ahead(b, a)
      BY <2>1, AheadOrders
    <2>3. Cardinality(Before(a)) \in Nat /\ Cardinality(Before(b)) \in Nat
      BY <1>1, <1>2
    <2> QED
      BY <1>5, <2>2, <2>3
  <1>8. f \in Injection(F, 0..(n - 1))
    BY <1>6, <1>7 DEF Injection, IsInjective
  <1>9. IsFiniteSet(0..(n - 1)) /\ Cardinality(0..(n - 1)) = n
    BY FS_Interval
  <1>10. Cardinality(F) <= n
    BY <1>8, <1>9, FS_Injection
  <1> QED
    BY <1>1, <1>10 DEF F

-----------------------------------------------------------------------------
(* Types.                                                                    *)

LEMMA BatchMade ==
  ASSUME NEW rs \in SUBSET Rows, NEW c \in Channels \cup {NoChannel},
         NEW o \in {"queue", "followon", "self"}
  PROVE  Batch(rs, c, o) \in Batches
  BY TurnLoopAssumption DEF Batch, Batches

LEMMA InitTypes == Init => Types
  <1> SUFFICES ASSUME Init PROVE Types
    OBVIOUS
  <1>1. batch \in Batches
    BY BatchMade DEF Init
  <1>2. /\ MaxRows \in Nat /\ MaxDrains \in Nat /\ MaxOps \in Nat
        /\ ledger \in Seq(Lines) /\ tail \in Seq(Events) /\ out \in Seq(Events)
        /\ inq \in Seq(SUBSET Rows)
    BY TurnLoopAssumption, EmptySeq DEF Init
  <1>3. QueueTypes
    BY <1>2 DEF Init, QueueTypes, Statuses
  <1>4. 0 \in 0..MaxDrains /\ 0 \in 0..MaxOps
    BY <1>2
  <1>5. TurnTypes
    BY <1>1, <1>2, <1>4 DEF Init, TurnTypes, Places
  <1>6. ProcessTypes
    BY <1>2 DEF Init, ProcessTypes
  <1>7. CliTypes
    BY <1>2, <1>4 DEF Init, CliTypes
  <1>8. BoundTypes
    BY <1>4 DEF Init, BoundTypes
  <1> QED
    BY <1>3, <1>5, <1>6, <1>7, <1>8 DEF Types

LEMMA SetStatusTypes ==
  ASSUME QueueTypes, NEW S, NEW v \in Statuses, SetStatus(S, v)
  PROVE  status' \in [Rows -> Statuses]
  BY DEF SetStatus, QueueTypes

LEMMA SpawnedTypes == ASSUME TurnTypes PROVE Spawned \in 0..MaxDrains
  BY TurnLoopAssumption DEF Spawned, TurnTypes

\* A new row: an insert, and what notify_enqueued spawns.
LEMMA InsertTypes ==
  ASSUME QueueTypes, NEW c \in Channels, NEW p \in BOOLEAN, Insert(c, p)
  PROVE  QueueTypes'
  <1>1. count + 1 \in Rows /\ count + 1 \in 0..MaxRows
    BY TurnLoopAssumption DEF Insert, QueueTypes, Rows
  <1> QED
    BY <1>1 DEF Insert, QueueTypes, Statuses

LEMMA NotifyTypes ==
  ASSUME TurnTypes, Notify PROVE drains' \in 0..MaxDrains /\ steerers' \in BOOLEAN
  BY SpawnedTypes, TurnLoopAssumption DEF Notify, TurnTypes

LEMMA ArrivalTypes == ASSUME Types, Arrival \/ HoldWake PROVE Types'
  <1>1. ASSUME NEW c \in Channels, Enqueue(c) PROVE Types'
    <2>1. QueueTypes' /\ drains' \in 0..MaxDrains /\ steerers' \in BOOLEAN
      BY <1>1, InsertTypes, NotifyTypes DEF Enqueue, Types
    <2> QED
      BY <1>1, <2>1 DEF Enqueue, Types, TurnTypes, ProcessTypes, CliTypes, BoundTypes, turn, marks,
                        waits, process, reader, cli, model, bounds
  <1>2. CASE HoldWake
    BY <1>2, SpawnedTypes
    DEF HoldWake, Types, QueueTypes, TurnTypes, ProcessTypes, CliTypes, BoundTypes, turn, marks,
        steer, waits, process, reader, cli, model, bounds
  <1> QED
    BY <1>1, <1>2 DEF Arrival

\* The first init on stdout, where there is one.
LEMMA InitPlace ==
  ASSUME CliTypes
  PROVE  /\ InitAt \in 0..Len(out)
         /\ InitAt > 0 => out[InitAt] = Init0
  <1> DEFINE At == {i \in 1..Len(out) : out[i] = Init0}
  <1>1. Len(out) \in Nat /\ At \subseteq Int /\ At \subseteq 1..Len(out)
    BY LenProperties DEF CliTypes
  <1>2. IsFiniteSet(At)
    <2>1. IsFiniteSet(1..Len(out))
      BY <1>1, FS_Interval
    <2> QED
      BY <1>1, <2>1, FS_Subset
  <1>3. CASE At = {}
    BY <1>1, <1>3 DEF InitAt
  <1>4. CASE At # {}
    <2>1. \E i \in At : \A j \in At : i <= j
      BY <1>1, <1>2, <1>4, FirstNatural
    <2>2. InitAt = CHOOSE i \in At : \A j \in At : i <= j
      BY <1>4 DEF InitAt
    <2>3. InitAt \in At
      BY <2>1, <2>2
    <2> QED
      BY <1>1, <2>3
  <1> QED
    BY <1>3, <1>4

LEMMA SelfTurnTypes ==
  ASSUME TurnTypes, CliTypes, SelfTurn, InitAt > 0
  PROVE  agent' = "PROCESSING" /\ batch' \in Batches /\ out' \in Seq(Events)
  <1>1. batch' \in Batches
    BY BatchMade DEF SelfTurn, TurnTypes, Batches
  <1>2. InitAt \in 1..(Len(out) + 1) /\ out \in Seq(Events)
    BY InitPlace, LenProperties DEF CliTypes
  <1>3. SubSeq(out, InitAt, Len(out)) \in Seq(Events)
    BY <1>2, RestTyped
  <1> QED
    BY <1>1, <1>3 DEF SelfTurn

\* What a step leaves alone keeps its types.
LEMMA Same ==
  /\ QueueTypes /\ UNCHANGED queue => QueueTypes'
  /\ ProcessTypes /\ UNCHANGED <<process, reader>> => ProcessTypes'
  /\ CliTypes /\ UNCHANGED cli => CliTypes'
  /\ CliTypes /\ UNCHANGED <<inq, model>> /\ out' \in Seq(Events) => CliTypes'
  /\ BoundTypes /\ UNCHANGED bounds => BoundTypes'
  <1>1. QueueTypes /\ UNCHANGED queue => QueueTypes'
    BY DEF QueueTypes, queue
  <1>2. ProcessTypes /\ UNCHANGED <<process, reader>> => ProcessTypes'
    BY DEF ProcessTypes, process, reader
  <1>3. CliTypes /\ UNCHANGED <<inq, model>> /\ out' \in Seq(Events) => CliTypes'
    BY DEF CliTypes, model
  <1>4. CliTypes /\ UNCHANGED cli => CliTypes'
    BY DEF CliTypes, cli, model
  <1>5. BoundTypes /\ UNCHANGED bounds => BoundTypes'
    BY DEF BoundTypes, bounds
  <1> QED
    BY <1>1, <1>2, <1>3, <1>4, <1>5

LEMMA DrainTypes == ASSUME Types, DrainDropped \/ DrainRuns \/ Claim PROVE Types'
  <1>0. MaxDrains \in Nat /\ drains \in 0..MaxDrains /\ (drains > 0 => drains - 1 \in 0..MaxDrains)
    BY TurnLoopAssumption DEF Types, TurnTypes
  <1>1. CASE DrainDropped
    BY <1>0, <1>1
    DEF DrainDropped, DrainStart, Types, QueueTypes, TurnTypes, ProcessTypes, CliTypes, BoundTypes, Places,
        queue, marks, steer, waits, process, reader, cli, model, bounds
  <1>2. CASE DrainRuns
    <2>1. /\ bgseen' \in BOOLEAN /\ drains' \in 0..MaxDrains /\ pc' \in Places
          /\ resume' \in BOOLEAN /\ agent' \in {"IDLE", "PROCESSING", "ERROR_RECOVERY"}
          /\ batch' \in Batches /\ out' \in Seq(Events)
      <3>1. bgseen' \in BOOLEAN
        BY <1>2 DEF DrainRuns
      <3>2. drains' \in 0..MaxDrains /\ pc' \in Places
        BY <1>0, <1>2 DEF DrainRuns, DrainStart, Places
      <3>3. CASE bgseen /\ Steering /\ proc = "alive" /\ InitAt > 0
        BY <1>2, <3>1, <3>2, <3>3, SelfTurnTypes DEF DrainRuns, Types
      <3>4. CASE ~(bgseen /\ Steering /\ proc = "alive" /\ InitAt > 0)
        BY <1>2, <3>1, <3>2, <3>4, EmptySeq DEF DrainRuns, Types, TurnTypes, CliTypes
      <3> QED
        BY <3>3, <3>4
    <2> QED
      BY <1>2, <2>1
      DEF DrainRuns, Types, QueueTypes, TurnTypes, ProcessTypes, CliTypes, BoundTypes, queue, steer,
          waits, process, reader, model, bounds
  <1>3. CASE Claim
    <2>1. status' \in [Rows -> Statuses] /\ batch' \in Batches /\ pc' \in Places
      <3>1. CASE Queued = {}
        BY <1>3, <3>1 DEF Claim, Types, QueueTypes, TurnTypes, Places
      <3>2. CASE Queued # {}
        <4>1. ClaimSet \in SUBSET Rows
          BY DEF ClaimSet, Foremost, Queued
        <4>2. chan[Head0] \in Channels \cup {NoChannel}
          BY <3>2, HeadFirst DEF Queued, Types, QueueTypes
        <4>3. status' \in [Rows -> Statuses]
          BY <1>3, <3>2, SetStatusTypes DEF Claim, Types, Statuses
        <4> QED
          BY <1>3, <3>2, <4>1, <4>2, <4>3, BatchMade DEF Claim, Places
      <3> QED
        BY <3>1, <3>2
    <2> QED
      BY <1>3, <2>1
      DEF Claim, Types, QueueTypes, TurnTypes, ProcessTypes, CliTypes, BoundTypes, marks, steer,
          waits, process, reader, cli, model, bounds
  <1> QED
    BY <1>1, <1>2, <1>3

\* Lines put on the CLI's pipe and in the ledger.
LEMMA WriteTypes == ASSUME Types, BatchBegins, WriteLands \/ WriteFails \/ ReadBegins PROVE Types'
  <1>0. batch \in Batches /\ batch.rows \in SUBSET Rows /\ batch.chan \in Channels \cup {NoChannel}
    BY DEF Types, TurnTypes, Batches
  <1>1. CASE WriteLands
    <2>1. Primary \in Lines
      BY <1>0, <1>1 DEF WriteLands, Primary, Line, Lines, BatchBegins
    <2>2. ledger' \in Seq(Lines) /\ inq' \in Seq(SUBSET Rows)
      BY <1>0, <1>1, <2>1, AppendTyped DEF WriteLands, Types, TurnTypes, CliTypes
    <2> QED
      BY <1>1, <2>2
      DEF WriteLands, Types, QueueTypes, TurnTypes, ProcessTypes, CliTypes, BoundTypes, Places,
          queue, marks, steer, waits, process, reader, model, bounds
  <1>2. CASE WriteFails
    <2>1. status' \in [Rows -> Statuses]
      BY <1>2, SetStatusTypes DEF WriteFails, Types, Statuses
    <2>2. batch' \in Batches
      BY <1>0, <1>2, BatchMade DEF WriteFails
    <2>3. agent' \in {"IDLE", "PROCESSING", "ERROR_RECOVERY"}
      BY <1>2 DEF WriteFails, Types, TurnTypes
    <2> QED
      BY <1>2, <2>1, <2>2, <2>3
      DEF WriteFails, Types, QueueTypes, TurnTypes, ProcessTypes, CliTypes, BoundTypes, Places,
          marks, steer, process, reader, cli, model, bounds
  <1>3. CASE ReadBegins
    <2>1. batch' \in Batches
      BY <1>0, <1>3 DEF ReadBegins, Batches
    <2> QED
      BY <1>3, <2>1
      DEF ReadBegins, Types, QueueTypes, TurnTypes, ProcessTypes, CliTypes, BoundTypes, Places,
          queue, marks, steer, waits, process, reader, cli, model, bounds
  <1> QED
    BY <1>1, <1>2, <1>3

\* The line at the head of the stream, and what is left of it.
LEMMA StreamTypes ==
  ASSUME Types
  PROVE  /\ Stream \in Seq(Events)
         /\ Stream # <<>> => Head(Stream) \in Events
         /\ Stream # <<>> /\ Rest => out' \in Seq(Events) /\ tail' \in Seq(Events)
  <1>1. Stream \in Seq(Events) /\ out \in Seq(Events) /\ tail \in Seq(Events)
    BY DEF Stream, Types, ProcessTypes, CliTypes
  <1>2. Stream # <<>> => Head(Stream) \in Events
    BY <1>1, HeadTailProperties
  <1>3. ASSUME Stream # <<>>, Rest PROVE out' \in Seq(Events) /\ tail' \in Seq(Events)
    BY <1>1, <1>3, HeadTailProperties DEF Stream, Rest
  <1> QED
    BY <1>1, <1>2, <1>3

\* The lines of the ledger that a replay answers are a head of it.
LEMMA MatchedBound ==
  ASSUME TurnTypes, NEW texts \in Seq(SUBSET Rows)
  PROVE  /\ Matched(texts) \in 0..Len(ledger)
         /\ \A i \in 1..Matched(texts) : ledger[i].rows = texts[i]
  <1>1. Len(texts) \in Nat /\ Len(ledger) \in Nat
    BY LenProperties DEF TurnTypes
  <1> QED
    BY <1>1 DEF Matched

LEMMA LedgerTypes ==
  ASSUME TurnTypes
  PROVE  /\ Len(ledger) \in Nat
         /\ \A i \in 1..Len(ledger) :
              ledger[i] \in Lines /\ ledger[i].rows \in SUBSET Rows /\ ledger[i].chan \in Channels
  <1>1. ledger \in Seq(Lines)
    BY DEF TurnTypes
  <1>2. Len(ledger) \in Nat /\ \A i \in 1..Len(ledger) : ledger[i] \in Lines
    BY <1>1, LenProperties, ElementOfSeq
  <1> QED
    BY <1>2 DEF Lines

LEMMA SteerRowsTyped == ASSUME TurnTypes, NEW n \in 0..Len(ledger) PROVE SteerRows(n) \in SUBSET Rows
  <1>1. \A i \in 1..n : ledger[i].rows \in SUBSET Rows
    BY LedgerTypes
  <1> QED
    BY <1>1 DEF SteerRows

LEMMA ReleaseTypes ==
  ASSUME QueueTypes, ReleasePending PROVE QueueTypes' /\ ledger' \in Seq(Lines)
  <1>1. status' \in [Rows -> Statuses]
    BY SetStatusTypes DEF ReleasePending, Statuses
  <1> QED
    BY <1>1, EmptySeq DEF ReleasePending, QueueTypes

LEMMA EndedTypes ==
  ASSUME TurnTypes, NEW how \in Kinds \cup {"died"}, NEW rs \in SUBSET Rows, NEW b \in BOOLEAN,
         Ended(how, rs, b)
  PROVE  /\ batch' \in Batches /\ bgseen' \in BOOLEAN /\ flag' = FALSE
         /\ pc' = "finish" /\ attached' = "cur"
  BY DEF Ended, TurnTypes, Batches, Kinds

LEMMA ReadTypes ==
  ASSUME Types, ReadInit \/ ReadReplay \/ ReadAnswer \/ ReadResult \/ ReadEOF
  PROVE  Types'
  <1>0. batch \in Batches
    BY DEF Types, TurnTypes
  <1>1. CASE ReadInit
    <2>1. out' \in Seq(Events) /\ tail' \in Seq(Events)
      BY <1>1, StreamTypes DEF ReadInit, Reading
    <2>2. batch' \in Batches
      BY <1>0, <1>1 DEF ReadInit, Batches
    <2> QED
      BY <1>1, <2>1, <2>2
      DEF ReadInit, Types, QueueTypes, TurnTypes, ProcessTypes, CliTypes, BoundTypes,
          queue, marks, steer, waits, process, model, bounds
  <1>2. CASE ReadReplay
    <2>1. out' \in Seq(Events) /\ tail' \in Seq(Events) /\ Head(Stream) \in Events
      BY <1>2, StreamTypes DEF ReadReplay, Reading
    <2>2. Head(Stream).texts \in Seq(SUBSET Rows)
      BY <1>2, <2>1 DEF ReadReplay, Reading, Events
    <2> DEFINE n == Matched(Head(Stream).texts)
    <2>3. n \in 0..Len(ledger) /\ Len(ledger) \in Nat
      BY <2>2, MatchedBound, LedgerTypes DEF Types
    <2>4. SteerRows(n) \in SUBSET Rows
      BY <2>3, SteerRowsTyped DEF Types
    <2>5. ledger' = SubSeq(ledger, n + 1, Len(ledger))
          /\ batch' = [batch EXCEPT !.awaiting = FALSE, !.merged = @ \cup SteerRows(n)]
      BY <1>2 DEF ReadReplay
    <2> HIDE DEF n
    <2>6. ledger' \in Seq(Lines)
      <3>1. n + 1 \in 1..(Len(ledger) + 1) /\ ledger \in Seq(Lines)
        BY <2>3 DEF Types, TurnTypes
      <3> QED
        BY <2>5, <3>1, RestTyped
    <2>7. batch' \in Batches
      BY <1>0, <2>4, <2>5 DEF Batches
    <2>8. TurnTypes'
      BY <1>2, <2>6, <2>7 DEF ReadReplay, Types, TurnTypes, marks, steer, waits
    <2>9. ProcessTypes'
      BY <1>2, <2>1 DEF ReadReplay, Types, ProcessTypes, process
    <2> QED
      BY <1>2, <2>1, <2>8, <2>9, Same DEF ReadReplay, Types
  <1>3. CASE ReadAnswer
    <2>1. out' \in Seq(Events) /\ tail' \in Seq(Events)
      BY <1>3, StreamTypes DEF ReadAnswer, Reading
    <2>2. waiter' \in 0..MaxOps
      BY <1>3, TurnLoopAssumption DEF ReadAnswer, Types, TurnTypes
    <2> QED
      BY <1>3, <2>1, <2>2
      DEF ReadAnswer, Types, QueueTypes, TurnTypes, ProcessTypes, CliTypes, BoundTypes,
          queue, turn, marks, steer, process, model, bounds
  <1>4. CASE ReadResult
    <2>1. Stream # <<>> /\ Head(Stream) \in Events /\ Head(Stream).t = "result"
      BY <1>4, StreamTypes DEF ReadResult, Reading
    <2>2. Head(Stream).kind \in Kinds /\ Head(Stream).ate \in SUBSET Rows /\ Head(Stream).bg \in BOOLEAN
      BY <2>1 DEF Events
    <2>3. batch' \in Batches /\ bgseen' \in BOOLEAN /\ flag' = FALSE /\ pc' = "finish" /\ attached' = "cur"
      BY <1>4, <2>2, EndedTypes DEF ReadResult, Types
    <2>4. out' \in Seq(Events) /\ tail' \in Seq(Events)
      BY <1>4, <2>1, HeadTailProperties, EmptySeq DEF ReadResult, Stream, Types, CliTypes
    <2>5. agent' \in {"IDLE", "PROCESSING", "ERROR_RECOVERY"}
      BY <1>4 DEF ReadResult, Types, TurnTypes
    <2>6. TurnTypes'
      BY <1>4, <2>3, <2>5 DEF ReadResult, Types, TurnTypes, Places, steer, waits
    <2>7. ProcessTypes'
      BY <1>4, <2>3, <2>4 DEF ReadResult, Types, ProcessTypes, process
    <2> QED
      BY <1>4, <2>4, <2>6, <2>7, Same DEF ReadResult, Types
  <1>5. CASE ReadEOF
    <2>1. QueueTypes' /\ ledger' \in Seq(Lines)
      BY <1>5, ReleaseTypes DEF ReadEOF, Types
    <2>2. batch' \in Batches /\ bgseen' \in BOOLEAN /\ flag' = FALSE /\ pc' = "finish" /\ attached' = "cur"
      BY <1>5, EndedTypes DEF ReadEOF, Types
    <2>3. tail' \in Seq(Events)
      BY <1>5, EmptySeq DEF ReadEOF
    <2>4. TurnTypes'
      BY <1>5, <2>1, <2>2 DEF ReadEOF, Types, TurnTypes, Places, steer, waits
    <2>5. ProcessTypes'
      BY <1>5, <2>2, <2>3 DEF ReadEOF, Types, ProcessTypes, process
    <2> QED
      BY <1>5, <2>1, <2>4, <2>5, Same DEF ReadEOF, Types
  <1> QED
    BY <1>1, <1>2, <1>3, <1>4, <1>5

\* finish_turn and settle.
LEMMA LoopEndsTypes ==
  ASSUME TurnTypes, LoopEnds PROVE pc' \in Places /\ resume' = FALSE /\ batch' \in Batches
  BY BatchMade DEF LoopEnds, TurnTypes, Batches, Places

LEMMA FinishTypes == ASSUME Types, Finish \/ Count PROVE Types'
  <1>1. CASE Finish
    <2>1. status' \in [Rows -> Statuses]
      BY <1>1, SetStatusTypes DEF Finish, Verdict, Types, Statuses
    <2>2. held' \in [Rows -> BOOLEAN] /\ pc' \in Places
      BY <1>1 DEF Finish, Types, QueueTypes, Places
    <2> QED
      BY <1>1, <2>1, <2>2
      DEF Finish, Types, QueueTypes, TurnTypes, ProcessTypes, CliTypes, BoundTypes,
          marks, steer, waits, process, reader, cli, model, bounds
  <1>2. CASE Count
    BY <1>2, SpawnedTypes
    DEF Count, Recount, Types, QueueTypes, TurnTypes, ProcessTypes, CliTypes, BoundTypes, Places,
        queue, marks, steer, waits, process, reader, cli, model, bounds
  <1> QED
    BY <1>1, <1>2

LEMMA SettleTypes ==
  ASSUME Types, SettleSkips \/ SettleFollowon \/ SettleSelf \/ SettleDone \/ Bounced
  PROVE  Types'
  <1>1. CASE SettleSkips
    <2>1. TurnTypes'
      BY <1>1, LoopEndsTypes DEF SettleSkips, Types, TurnTypes, marks, steer, waits
    <2> QED
      BY <1>1, <2>1, Same DEF SettleSkips, Types
  <1>2. CASE SettleFollowon
    <2>1. ledger[1].chan \in Channels
      <3>1. Len(ledger) \in Nat /\ (Len(ledger) = 0 => ledger = <<>>)
        BY EmptySeq, LedgerTypes DEF Types, TurnTypes
      <3>2. 1 \in 1..Len(ledger)
        BY <1>2, <3>1 DEF SettleFollowon
      <3> QED
        BY <3>2, LedgerTypes DEF Types
    <2>2. batch' \in Batches
      BY <1>2, <2>1, BatchMade DEF SettleFollowon
    <2> QED
      BY <1>2, <2>2
      DEF SettleFollowon, Types, QueueTypes, TurnTypes, ProcessTypes, CliTypes, BoundTypes, Places,
          queue, marks, steer, waits, process, reader, cli, model, bounds
  <1>3. CASE SettleSelf
    <2>1. agent' = "PROCESSING" /\ batch' \in Batches /\ out' \in Seq(Events)
      BY <1>3, SelfTurnTypes DEF SettleSelf, Types
    <2> QED
      BY <1>3, <2>1
      DEF SettleSelf, Types, QueueTypes, TurnTypes, ProcessTypes, CliTypes, BoundTypes, Places,
          queue, marks, steer, waits, process, reader, model, bounds
  <1>4. CASE SettleDone
    <2>1. pc' \in Places /\ resume' = FALSE /\ batch' \in Batches
      BY <1>4, LoopEndsTypes DEF SettleDone, Types
    <2>2. out' \in Seq(Events) /\ agent' \in {"IDLE", "PROCESSING", "ERROR_RECOVERY"}
      BY <1>4, EmptySeq DEF SettleDone, Types, CliTypes, TurnTypes
    <2>3. TurnTypes'
      BY <1>4, <2>1, <2>2 DEF SettleDone, Types, TurnTypes, marks, steer, waits
    <2> QED
      BY <1>4, <2>2, <2>3, Same DEF SettleDone, Types
  <1>5. CASE Bounced
    <2>1. TurnTypes'
      BY <1>5, LoopEndsTypes, SpawnedTypes DEF Bounced, Types, TurnTypes, marks, steer, waits
    <2> QED
      BY <1>5, <2>1, Same DEF Bounced, Types
  <1> QED
    BY <1>1, <1>2, <1>3, <1>4, <1>5

\* The steer task; SteerBound keeps one turn within max_lines_per_turn.
LEMMA SteerTypes == ASSUME Types, Rowed, Owned, SteerBound, SteerTask PROVE Types'
  <1>0. /\ batch \in Batches /\ batch.steered \in Nat /\ MaxLines \in Nat
        /\ steering \in SUBSET Rows /\ IsFiniteSet(steering) /\ Cardinality(steering) \in Nat
    BY TurnLoopAssumption, RowsFinite, FS_CardinalityType DEF Types, TurnTypes, Batches
  <1>1. CASE SteerClaim
    <2>1. steering' \in SUBSET Rows /\ SetStatus(steering', "running")
      BY <1>1 DEF SteerClaim, Foremost, Queued
    <2>2. status' \in [Rows -> Statuses]
      BY <2>1, SetStatusTypes DEF Types, Statuses
    <2>3. QueueTypes'
      BY <1>1, <2>2 DEF SteerClaim, Types, QueueTypes
    <2>4. TurnTypes'
      BY <1>1, <2>1 DEF SteerClaim, Types, TurnTypes, turn, marks, waits
    <2> QED
      BY <1>1, <2>3, <2>4, Same DEF SteerClaim, Types
  <1>2. CASE SteerWrite
    <2>1. PICK r \in steering : TRUE
      BY <1>2 DEF SteerWrite
    <2>2. r \in Rows /\ chan[r] = batch.chan /\ status[r] = "running"
      BY <1>2, <2>1 DEF SteerWrite, StillSteerable, Steerable, Owned, Running
    <2>3. batch.chan \in Channels
      BY <2>2 DEF Rowed
    <2>4. Line("steer", steering, batch.chan) \in Lines
      BY <1>0, <2>3 DEF Line, Lines
    <2>5. ledger' \in Seq(Lines) /\ inq' \in Seq(SUBSET Rows)
      BY <1>0, <1>2, <2>4, AppendTyped DEF SteerWrite, Types, TurnTypes, CliTypes
    <2>6. batch.steered + Cardinality(steering) \in 0..MaxLines
      BY <1>0 DEF SteerBound
    <2>7. batch' \in Batches
      BY <1>0, <1>2, <2>6 DEF SteerWrite, Batches
    <2>8. TurnTypes'
      BY <1>2, <2>5, <2>7 DEF SteerWrite, Types, TurnTypes, marks, waits
    <2>9. CliTypes'
      BY <1>2, <2>5 DEF SteerWrite, Types, CliTypes, model
    <2> QED
      BY <1>2, <2>8, <2>9, Same DEF SteerWrite, Types
  <1>3. CASE SteerGivenBack
    <2>1. QueueTypes'
      BY <1>3, SetStatusTypes DEF SteerGivenBack, Types, QueueTypes, Statuses
    <2>2. TurnTypes'
      BY <1>3, SpawnedTypes DEF SteerGivenBack, Types, TurnTypes, turn, marks, waits
    <2> QED
      BY <1>3, <2>1, <2>2, Same DEF SteerGivenBack, Types
  <1> QED
    BY <1>1, <1>2, <1>3 DEF SteerTask

\* Kills: the CLI forgets its lines.
LEMMA KillBeginsTypes ==
  ASSUME ProcessTypes, CliTypes, NEW then \in {"kill", "killonly"}, KillBegins(then)
  PROVE  /\ proc' \in {"none", "alive", "dead"} /\ op' \in {"none", "kill", "killonly", "start"}
         /\ inq' = <<>> /\ ~running' /\ ate' = {} /\ ~bgtask' /\ control' = 0
  BY DEF KillBegins, CliReset, ProcessTypes

LEMMA ResetTypes ==
  ASSUME CliTypes, CliReset, out' = out PROVE CliTypes'
  <1>1. 0 \in 0..MaxOps /\ <<>> \in Seq(SUBSET Rows)
    BY EmptySeq, TurnLoopAssumption
  <1>2. inq' \in Seq(SUBSET Rows) /\ control' \in 0..MaxOps /\ out' \in Seq(Events)
    BY <1>1 DEF CliReset, CliTypes
  <1>3. running' \in BOOLEAN /\ ate' \in SUBSET Rows /\ bgtask' \in BOOLEAN
    BY DEF CliReset
  <1> QED
    BY <1>2, <1>3 DEF CliTypes

LEMMA LifecycleTypes == ASSUME Types, Lifecycle PROVE Types'
  <1>0. out \in Seq(Events) /\ <<>> \in Seq(Events)
    BY EmptySeq DEF Types, CliTypes
  <1>1. CASE Watcher
    <2>1. QueueTypes' /\ ledger' \in Seq(Lines)
      BY <1>1, ReleaseTypes DEF Watcher, Types
    <2>2. TurnTypes'
      BY <1>1, <2>1, SpawnedTypes DEF Watcher, AfterRespawn, Types, TurnTypes, turn, marks, steer, waits
    <2>3. ProcessTypes' /\ out' \in Seq(Events)
      BY <1>0, <1>1 DEF Watcher, Types, ProcessTypes, reader
    <2> QED
      BY <1>1, <2>1, <2>2, <2>3, Same DEF Watcher, Types
  <1>2. CASE KillEnds
    <2>1. QueueTypes' /\ ledger' \in Seq(Lines)
      BY <1>2, ReleaseTypes DEF KillEnds, Types
    <2>2. TurnTypes'
      BY <1>2, <2>1 DEF KillEnds, Types, TurnTypes, turn, marks, steer, waits
    <2>3. ProcessTypes' /\ out' \in Seq(Events)
      BY <1>0, <1>2 DEF KillEnds, Types, ProcessTypes, reader
    <2> QED
      BY <1>2, <2>1, <2>2, <2>3, Same DEF KillEnds, Types
  <1>3. CASE Start
    <2>1. TurnTypes'
      BY <1>3 DEF Start, Types, TurnTypes, turn, marks, steer, waits
    <2>2. ProcessTypes'
      BY <1>3 DEF Start, Types, ProcessTypes, reader
    <2> QED
      BY <1>3, <2>1, <2>2, Same DEF Start, Types
  <1> QED
    BY <1>1, <1>2, <1>3 DEF Lifecycle

LEMMA TimeoutTypes == ASSUME Types, FollowonTimeout \/ ControlTimeout \/ Bounce \/ Die \/ Redrain PROVE Types'
  <1>1. CASE FollowonTimeout
    <2>1. TurnTypes'
      BY <1>1 DEF FollowonTimeout, Types, TurnTypes, steer, waits, Places
    <2> QED
      BY <1>1, <2>1, Same DEF FollowonTimeout, Types
  <1>2. CASE ControlTimeout
    <2>1. /\ flag' \in BOOLEAN /\ proc' \in {"none", "alive", "dead"}
          /\ op' \in {"none", "kill", "killonly", "start"} /\ CliTypes'
      <3>1. CASE agent = "PROCESSING"
        <4>1. KillBegins("kill") /\ flag' = TRUE /\ out' = out
          BY <1>2, <3>1 DEF ControlTimeout, InterruptBegins
        <4>2. CliTypes'
          BY <4>1, ResetTypes DEF KillBegins, Types
        <4> QED
          BY <4>1, <4>2, KillBeginsTypes DEF Types
      <3>2. CASE agent # "PROCESSING"
        <4>1. UNCHANGED <<flag, proc, op, inq, model>> /\ out' = out
          BY <1>2, <3>2 DEF ControlTimeout
        <4>2. CliTypes'
          BY <4>1, Same DEF Types, CliTypes
        <4> QED
          BY <4>1, <4>2 DEF Types, TurnTypes, ProcessTypes
      <3> QED
        BY <3>1, <3>2
    <2>2. TurnTypes'
      BY <1>2, <2>1, TurnLoopAssumption DEF ControlTimeout, Types, TurnTypes, turn, steer
    <2>3. ProcessTypes'
      BY <1>2, <2>1 DEF ControlTimeout, Types, ProcessTypes, reader
    <2> QED
      BY <1>2, <2>1, <2>2, <2>3, Same DEF ControlTimeout, Types
  <1>3. CASE Bounce
    <2>1. TurnTypes'
      BY <1>3 DEF Bounce, Types, TurnTypes, marks, steer, waits, Places
    <2>2. ProcessTypes'
      BY <1>3, KillBeginsTypes DEF Bounce, Types, ProcessTypes, reader
    <2>3. CliTypes'
      BY <1>3, ResetTypes DEF Bounce, KillBegins, Types
    <2> QED
      BY <1>3, <2>1, <2>2, <2>3, Same DEF Bounce, Types
  <1>4. CASE Die
    <2>1. TurnTypes'
      BY <1>4 DEF Die, Types, TurnTypes, turn, marks, steer, waits
    <2>2. ProcessTypes' /\ CliTypes' /\ BoundTypes'
      BY <1>4, ResetTypes DEF Die, Types, ProcessTypes, BoundTypes, reader
    <2> QED
      BY <1>4, <2>1, <2>2, Same DEF Die, Types
  <1>5. CASE Redrain
    <2>1. TurnTypes'
      BY <1>5, SpawnedTypes DEF Redrain, Types, TurnTypes, turn, marks, steer
    <2> QED
      BY <1>5, <2>1, Same DEF Redrain, Types
  <1> QED
    BY <1>1, <1>2, <1>3, <1>4, <1>5

LEMMA OperatorTypes == ASSUME Types, Operator PROVE Types'
  <1>0. MaxOps \in Nat /\ \A k : Request(k) => ops' \in 0..MaxOps /\ ops + 1 \in 0..MaxOps
    BY TurnLoopAssumption DEF Request, Types, BoundTypes
  <1>1. CASE Reload \/ Kill
    <2>1. ProcessTypes' /\ CliTypes'
      BY <1>1, KillBeginsTypes, ResetTypes DEF Reload, Kill, KillBegins, Types, ProcessTypes, reader
    <2>2. TurnTypes'
      BY <1>1 DEF Reload, Kill, Types, TurnTypes, turn, marks, steer, waits
    <2>3. BoundTypes'
      BY <1>0, <1>1 DEF Reload, Kill, Types, BoundTypes
    <2> QED
      BY <1>1, <2>1, <2>2, <2>3, Same DEF Reload, Kill, Types
  <1>2. CASE Interrupt
    <2>1. KillBegins("kill") /\ flag' = TRUE /\ Request("interrupt")
          /\ UNCHANGED <<queue, agent, drains, turn, ledger, bgseen, steer, waits, gaveup, reader,
                         out, deaths, errors, selves>>
      BY <1>2 DEF Interrupt, InterruptBegins
    <2>2. CliTypes'
      BY <2>1, ResetTypes DEF KillBegins, Types
    <2>3. ProcessTypes'
      BY <2>1, KillBeginsTypes DEF Types, ProcessTypes, reader
    <2>4. TurnTypes'
      BY <2>1 DEF Types, TurnTypes, turn, steer, waits
    <2>5. BoundTypes'
      BY <1>0, <2>1 DEF Types, BoundTypes
    <2> QED
      BY <2>1, <2>2, <2>3, <2>4, <2>5, Same DEF Types
  <1>3. CASE Flush
    <2>1. QueueTypes'
      BY <1>3, SetStatusTypes DEF Flush, Types, QueueTypes, Statuses
    <2>2. TurnTypes'
      BY <1>3 DEF Flush, Types, TurnTypes, turn, marks, steer, waits
    <2>3. BoundTypes'
      BY <1>0, <1>3 DEF Flush, Types, BoundTypes
    <2> QED
      BY <1>3, <2>1, <2>2, <2>3, Same DEF Flush, Types
  <1>4. ASSUME NEW c \in Channels, InterruptMessage(c) PROVE Types'
    <2>0. /\ QueueTypes' /\ BoundTypes' /\ Request("message") /\ ops + 1 \in 0..MaxOps
          /\ UNCHANGED <<agent, pc, resume, ledger, bgseen, steering, redrain, reader, out, deaths,
                         errors, selves>>
      BY <1>0, <1>4, InsertTypes DEF InterruptMessage, Types, BoundTypes
    <2>1. CASE agent # "PROCESSING" \/ (Steering /\ pc # "read")
      <3>1. Notify /\ UNCHANGED <<batch, flag, waiter, process, inq, model>>
        BY <1>4, <2>1 DEF InterruptMessage
      <3>2. TurnTypes'
        BY <2>0, <3>1, NotifyTypes DEF Types, TurnTypes
      <3>3. CliTypes'
        BY <2>0, <3>1, Same DEF Types, CliTypes
      <3> QED
        BY <2>0, <3>1, <3>2, <3>3, Same DEF Types
    <2>2. CASE ~(agent # "PROCESSING" \/ (Steering /\ pc # "read")) /\ Steering
      <3>1. /\ UNCHANGED <<drains, steerers, gaveup, proc, op, inq, running, ate, bgtask>>
            /\ batch' = [batch EXCEPT !.cut = TRUE] /\ flag' = TRUE /\ waiter' = ops + 1
            /\ control' = IF proc = "alive" THEN ops + 1 ELSE control
        BY <1>4, <2>2 DEF InterruptMessage
      <3>2. batch' \in Batches
        BY <3>1 DEF Types, TurnTypes, Batches
      <3>3. TurnTypes'
        BY <2>0, <3>1, <3>2 DEF Types, TurnTypes
      <3>4. ProcessTypes'
        BY <2>0, <3>1 DEF Types, ProcessTypes, reader
      <3>5. CliTypes'
        BY <2>0, <3>1 DEF Types, CliTypes
      <3> QED
        BY <2>0, <3>3, <3>4, <3>5 DEF Types
    <2>3. CASE ~(agent # "PROCESSING" \/ (Steering /\ pc # "read")) /\ ~Steering
      <3>1. /\ KillBegins("kill") /\ flag' = TRUE /\ UNCHANGED <<drains, steerers, gaveup, batch, waiter>>
        BY <1>4, <2>3 DEF InterruptMessage, InterruptBegins
      <3>2. TurnTypes'
        BY <2>0, <3>1 DEF Types, TurnTypes
      <3>3. ProcessTypes'
        BY <2>0, <3>1, KillBeginsTypes DEF Types, ProcessTypes, reader
      <3>4. CliTypes'
        BY <2>0, <3>1, ResetTypes DEF KillBegins, Types
      <3> QED
        BY <2>0, <3>2, <3>3, <3>4 DEF Types
    <2> QED
      BY <2>1, <2>2, <2>3
  <1> QED
    BY <1>1, <1>2, <1>3, <1>4 DEF Operator

\* The CLI's lines.
LEMMA ConsumeTypes ==
  ASSUME Types, NEW n \in 1..Len(inq), Consume(n), running' \in BOOLEAN
  PROVE  Types'
  <1>1. Len(inq) \in Nat /\ inq \in Seq(SUBSET Rows) /\ n \in 0..Len(inq) /\ n + 1 \in 1..(Len(inq) + 1)
    BY LenProperties DEF Types, CliTypes
  <1> DEFINE texts == SubSeq(inq, 1, n)
             rs == UNION {texts[i] : i \in 1..n}
  <1>2. texts \in Seq(SUBSET Rows) /\ \A i \in 1..n : texts[i] = inq[i]
    BY <1>1, PrefixTyped
  <1>3. \A i \in 1..n : texts[i] \in SUBSET Rows
    BY <1>1, <1>2, ElementOfSeq
  <1>4. out' = Append(out, Replay(texts)) /\ ate' = ate \cup rs /\ inq' = SubSeq(inq, n + 1, Len(inq))
    BY DEF Consume
  <1> HIDE DEF texts
  <1>5. rs \in SUBSET Rows
    BY <1>3
  <1>6. Replay(texts) \in Events
    BY <1>2 DEF Replay, Events
  <1>7. out' \in Seq(Events)
    BY <1>4, <1>6, AppendTyped DEF Types, CliTypes
  <1>8. inq' \in Seq(SUBSET Rows)
    BY <1>1, <1>4, RestTyped
  <1>9. CliTypes'
    <2> HIDE DEF rs
    <2> QED
      BY <1>4, <1>5, <1>7, <1>8 DEF Consume, Types, CliTypes
  <1>10. TurnTypes'
    BY DEF Consume, Types, TurnTypes, turn, marks, steer, waits
  <1> QED
    BY <1>9, <1>10, Same DEF Consume, Types

LEMMA CliStepTypes == ASSUME Types, Cli PROVE Types'
  <1>0. out \in Seq(Events) /\ ate \in SUBSET Rows /\ errors \in Nat /\ selves \in Nat
    BY DEF Types, CliTypes, BoundTypes
  <1>1. CASE CliStart \/ CliMerge
    BY <1>1, ConsumeTypes DEF CliStart, CliMerge, Types, CliTypes
  <1>2. CASE CliSelf
    <2>1. out' \in Seq(Events)
      BY <1>0, <1>2, AppendTyped DEF CliSelf, Init0, Events
    <2>2. CliTypes'
      BY <1>2, <2>1 DEF CliSelf, Types, CliTypes
    <2>3. TurnTypes' /\ BoundTypes'
      BY <1>0, <1>2 DEF CliSelf, Types, TurnTypes, BoundTypes, turn, marks, steer, waits
    <2> QED
      BY <1>2, <2>2, <2>3, Same DEF CliSelf, Types
  <1>3. CASE CliResult
    <2>1. PICK kind \in Kinds, bg \in BOOLEAN :
            /\ errors' = IF kind = "ok" THEN errors ELSE errors + 1
            /\ out' = Append(out, Result(kind, ate, bg))
            /\ bgtask' = (bgtask \/ bg)
      BY <1>3 DEF CliResult, Kinds
    <2>2. Result(kind, ate, bg) \in Events
      BY <1>0 DEF Result, Events
    <2>3. out' \in Seq(Events) /\ bgtask' \in BOOLEAN
      BY <1>0, <2>1, <2>2, AppendTyped
    <2>4. CliTypes'
      BY <1>3, <2>3 DEF CliResult, Types, CliTypes
    <2>5. TurnTypes' /\ BoundTypes'
      BY <1>0, <1>3, <2>1 DEF CliResult, Types, TurnTypes, BoundTypes, turn, marks, steer, waits
    <2> QED
      BY <1>3, <2>4, <2>5, Same DEF CliResult, Types
  <1>4. CASE CliControl
    <2>1. control \in 0..MaxOps /\ 0 \in 0..MaxOps
      BY TurnLoopAssumption DEF Types, CliTypes
    <2>2. Answer(control) \in Events /\ Result("ok", ate, FALSE) \in Events
      BY <1>0, <2>1 DEF Answer, Result, Events, Kinds
    <2>3. Append(out, Answer(control)) \in Seq(Events)
      BY <1>0, <2>2, AppendTyped
    <2>4. (IF running THEN <<Result("ok", ate, FALSE)>> ELSE <<>>) \in Seq(Events)
      <3>1. \A e \in Events : <<e>> \in Seq(Events)
        OBVIOUS
      <3>2. <<Result("ok", ate, FALSE)>> \in Seq(Events) /\ <<>> \in Seq(Events)
        BY <2>2, <3>1, EmptySeq
      <3> HIDE DEF Events
      <3> QED
        BY <3>2
    <2>5. out' \in Seq(Events)
      BY <1>4, <2>3, <2>4, ConcatProperties DEF CliControl
    <2>6. CliTypes'
      BY <1>4, <2>1, <2>5 DEF CliControl, Types, CliTypes
    <2>7. TurnTypes'
      BY <1>4 DEF CliControl, Types, TurnTypes, turn, marks, steer, waits
    <2> QED
      BY <1>4, <2>6, <2>7, Same DEF CliControl, Types
  <1> QED
    BY <1>1, <1>2, <1>3, <1>4 DEF Cli

LEMMA NextTypes ==
  ASSUME Types, Rowed, Owned, BatchBegins, SteerBound, [Next]_vars PROVE Types'
  <1>1. CASE UNCHANGED vars
    <2>1. TurnTypes'
      BY <1>1 DEF vars, Types, TurnTypes, turn, marks, steer, waits
    <2> QED
      BY <1>1, <2>1, Same DEF vars, Types
  <1>2. CASE Loop
    BY <1>2, DrainTypes, WriteTypes, ReadTypes, FinishTypes, SettleTypes, TimeoutTypes DEF Loop
  <1> QED
    BY <1>1, <1>2, ArrivalTypes, SteerTypes, LifecycleTypes, TimeoutTypes, OperatorTypes, CliStepTypes
    DEF Next

-----------------------------------------------------------------------------
(* Ownership.                                                                *)

\* A row that is not in progress exists where it exists, whatever else it becomes.
LEMMA StatusRowed ==
  ASSUME Types, Rowed, NEW S, NEW v, SetStatus(S, v), UNCHANGED <<count, chan>>,
         \A r \in S : r \in Rows => status[r] # "none"
  PROVE  Rowed'
  BY DEF Rowed, SetStatus, Types, QueueTypes

LEMMA StatusRunning ==
  ASSUME QueueTypes, NEW S, NEW v, SetStatus(S, v)
  PROVE  /\ v = "running" => Running' = Running \cup (S \cap Rows)
         /\ v # "running" => Running' = Running \ S
  BY DEF Running, SetStatus, QueueTypes

\* Lines leave and join the ledger.
LEMMA Emptied == ASSUME ledger' = <<>> PROVE Steered' = {} /\ LinesApart'
  BY DEF Steered, SteerRows, LinesApart

LEMMA Appended ==
  ASSUME TurnTypes, NEW e \in Lines, ledger' = Append(ledger, e)
  PROVE  /\ Steered' = Steered \cup (IF e.kind = "steer" THEN e.rows ELSE {})
         /\ LinesApart /\ (e.kind = "steer" => e.rows \cap Steered = {}) => LinesApart'
  <1>1. ledger \in Seq(Lines) /\ Len(ledger) \in Nat
    BY LedgerTypes DEF TurnTypes
  <1>2. /\ Len(ledger') = Len(ledger) + 1 /\ ledger'[Len(ledger) + 1] = e
        /\ \A i \in 1..Len(ledger) : ledger'[i] = ledger[i]
    BY <1>1, AppendTyped
  <1>3. \A i \in 1..Len(ledger') : i \in 1..Len(ledger) \/ i = Len(ledger) + 1
    BY <1>1, <1>2
  <1>4. \A i \in 1..Len(ledger) : i \in 1..Len(ledger')
    BY <1>1, <1>2
  <1>5. Len(ledger) + 1 \in 1..Len(ledger')
    BY <1>1, <1>2
  <1>6. Steered' = Steered \cup (IF e.kind = "steer" THEN e.rows ELSE {})
    <2>1. \A r : r \in Steered <=> \E i \in 1..Len(ledger) : ledger[i].kind = "steer" /\ r \in ledger[i].rows
      BY DEF Steered, SteerRows
    <2>2. \A r : r \in Steered' <=> \E i \in 1..Len(ledger') : ledger'[i].kind = "steer" /\ r \in ledger'[i].rows
      BY DEF Steered, SteerRows
    <2>3. \A r : r \in Steered' <=> (r \in Steered \/ (e.kind = "steer" /\ r \in e.rows))
      BY <1>2, <1>3, <1>4, <1>5, <2>1, <2>2
    <2> QED
      BY <2>3
  <1>7. ASSUME LinesApart, e.kind = "steer" => e.rows \cap Steered = {} PROVE LinesApart'
    <2> SUFFICES ASSUME NEW i \in 1..Len(ledger'), NEW j \in 1..Len(ledger'), i # j,
                        ledger'[i].kind = "steer", ledger'[j].kind = "steer"
                 PROVE  ledger'[i].rows \cap ledger'[j].rows = {}
      BY DEF LinesApart
    <2>1. \A k \in 1..Len(ledger) : ledger[k].kind = "steer" => ledger[k].rows \subseteq Steered
      BY DEF Steered, SteerRows
    <2>2. CASE i \in 1..Len(ledger) /\ j \in 1..Len(ledger)
      BY <1>2, <1>7, <2>2 DEF LinesApart
    <2>3. CASE i = Len(ledger) + 1 /\ j \in 1..Len(ledger)
      BY <1>2, <1>7, <2>1, <2>3
    <2>4. CASE i \in 1..Len(ledger) /\ j = Len(ledger) + 1
      BY <1>2, <1>7, <2>1, <2>4
    <2> QED
      BY <1>3, <2>2, <2>3, <2>4
  <1> QED
    BY <1>6, <1>7

LEMMA Replayed ==
  ASSUME TurnTypes, LinesApart, NEW n \in 0..Len(ledger), ledger' = SubSeq(ledger, n + 1, Len(ledger))
  PROVE  Steered = SteerRows(n) \cup Steered' /\ SteerRows(n) \cap Steered' = {} /\ LinesApart'
  <1>1. ledger \in Seq(Lines) /\ Len(ledger) \in Nat /\ n \in Nat /\ n <= Len(ledger)
    BY LedgerTypes DEF TurnTypes
  <1>2. n + 1 \in 1..(Len(ledger) + 1)
    BY <1>1
  <1>3. Len(ledger') = Len(ledger) - n /\ \A i \in 1..(Len(ledger) - n) : ledger'[i] = ledger[n + i]
    <2>1. /\ Len(ledger') = Len(ledger) - (n + 1) + 1
          /\ \A i \in 1..(Len(ledger) - (n + 1) + 1) : ledger'[i] = ledger[(n + 1) + i - 1]
      BY <1>1, <1>2, RestTyped
    <2>2. Len(ledger) - (n + 1) + 1 = Len(ledger) - n
      BY <1>1
    <2>3. ASSUME NEW i \in 1..(Len(ledger) - n) PROVE ledger'[i] = ledger[n + i]
      <3>1. (n + 1) + i - 1 = n + i
        BY <1>1
      <3> QED
        BY <2>1, <2>2, <3>1
    <2> QED
      BY <2>1, <2>2, <2>3
  <1>4. \A r : r \in Steered <=> \E i \in 1..Len(ledger) : ledger[i].kind = "steer" /\ r \in ledger[i].rows
    BY DEF Steered, SteerRows
  <1>5. \A r : r \in Steered' <=> \E i \in 1..Len(ledger') : ledger'[i].kind = "steer" /\ r \in ledger'[i].rows
    BY DEF Steered, SteerRows
  <1>6. \A r : r \in SteerRows(n) <=> \E i \in 1..n : ledger[i].kind = "steer" /\ r \in ledger[i].rows
    BY DEF SteerRows
  <1>7. \A i \in 1..Len(ledger) : i \in 1..n \/ (i - n \in 1..Len(ledger') /\ ledger'[i - n] = ledger[i])
    <2> SUFFICES ASSUME NEW i \in 1..Len(ledger), i \notin 1..n
                 PROVE  i - n \in 1..Len(ledger') /\ ledger'[i - n] = ledger[i]
      OBVIOUS
    <2>1. i - n \in 1..(Len(ledger) - n) /\ n + (i - n) = i
      BY <1>1
    <2> QED
      BY <1>3, <2>1
  <1>8. \A i \in 1..Len(ledger') : n + i \in 1..Len(ledger) /\ n + i \notin 1..n /\ ledger'[i] = ledger[n + i]
    BY <1>1, <1>3
  <1>9. 1..n \subseteq 1..Len(ledger)
    BY <1>1
  <1>10. Steered = SteerRows(n) \cup Steered'
    <2>1. ASSUME NEW r, r \in Steered PROVE r \in SteerRows(n) \cup Steered'
      <3>1. PICK i \in 1..Len(ledger) : ledger[i].kind = "steer" /\ r \in ledger[i].rows
        BY <1>4, <2>1
      <3>2. CASE i \in 1..n
        BY <1>6, <3>1, <3>2
      <3>3. CASE i - n \in 1..Len(ledger') /\ ledger'[i - n] = ledger[i]
        BY <1>5, <3>1, <3>3
      <3> QED
        BY <1>7, <3>2, <3>3
    <2>2. ASSUME NEW r, r \in Steered' PROVE r \in Steered
      <3>1. PICK i \in 1..Len(ledger') : ledger'[i].kind = "steer" /\ r \in ledger'[i].rows
        BY <1>5, <2>2
      <3>2. n + i \in 1..Len(ledger) /\ ledger[n + i].kind = "steer" /\ r \in ledger[n + i].rows
        BY <1>8, <3>1
      <3> QED
        BY <1>4, <3>2
    <2>3. \A r : r \in SteerRows(n) => r \in Steered
      BY <1>4, <1>6, <1>9
    <2> QED
      BY <2>1, <2>2, <2>3
  <1>11. SteerRows(n) \cap Steered' = {}
    <2> SUFFICES ASSUME NEW r, r \in SteerRows(n), r \in Steered' PROVE FALSE
      OBVIOUS
    <2>1. PICK i \in 1..n : ledger[i].kind = "steer" /\ r \in ledger[i].rows
      BY <1>6
    <2>2. PICK j \in 1..Len(ledger') : ledger'[j].kind = "steer" /\ r \in ledger'[j].rows
      BY <1>5
    <2>3. i \in 1..Len(ledger) /\ n + j \in 1..Len(ledger) /\ i # n + j /\ r \in ledger[n + j].rows
          /\ ledger[n + j].kind = "steer"
      BY <1>8, <1>9, <2>1, <2>2
    <2> QED
      BY <2>1, <2>3 DEF LinesApart
  <1>12. LinesApart'
    <2> SUFFICES ASSUME NEW i \in 1..Len(ledger'), NEW j \in 1..Len(ledger'), i # j,
                        ledger'[i].kind = "steer", ledger'[j].kind = "steer"
                 PROVE  ledger'[i].rows \cap ledger'[j].rows = {}
      BY DEF LinesApart
    <2>1. n + i # n + j
      BY <1>1
    <2> QED
      BY <1>8, <2>1 DEF LinesApart
  <1> QED
    BY <1>10, <1>11, <1>12

\* A turn that begins, is read or ends without touching a row's status.
LEMMA KeptTurn ==
  ASSUME Types, Kept, UNCHANGED <<count, status, chan, ledger, steering>>, TurnRows' = TurnRows,
         batch'.steered \in {0, batch.steered}, BatchBegins'
  PROVE  Kept'
  <1>1. Steered' = Steered /\ Running' = Running /\ Rowed' /\ LinesApart'
    BY DEF Kept, Steered, SteerRows, Running, Rowed, LinesApart
  <1>2. Owned'
    BY <1>1 DEF Kept, Owned
  <1>3. batch.steered \in Nat /\ Cardinality(steering) \in Nat /\ MaxLines \in Nat
    BY RowsFinite, FS_CardinalityType, TurnLoopAssumption DEF Types, TurnTypes, Batches
  <1>4. SteerBound'
    BY <1>3 DEF Kept, SteerBound
  <1> QED
    BY <1>1, <1>2, <1>4 DEF Kept

LEMMA KeptQuiet ==
  ASSUME Types, Kept, UNCHANGED <<count, status, chan, ledger, steering, batch, pc>> PROVE Kept'
  <1>1. TurnRows' = TurnRows /\ BatchBegins'
    BY DEF Kept, TurnRows, Answered, BatchBegins
  <1> QED
    BY <1>1, KeptTurn

LEMMA QuietKept ==
  ASSUME Types, Kept,
         \/ HoldWake \/ DrainDropped \/ Redrain \/ ReadAnswer \/ Die \/ Start \/ Bounce
         \/ Reload \/ Kill \/ Interrupt \/ ControlTimeout \/ Cli \/ UNCHANGED vars
  PROVE  Kept'
  <1>1. CASE HoldWake
    BY <1>1, KeptQuiet DEF HoldWake, turn, steer
  <1>2. CASE DrainDropped
    BY <1>2, KeptQuiet DEF DrainDropped, DrainStart, queue, steer
  <1>3. CASE Redrain \/ ReadAnswer
    BY <1>3, KeptQuiet DEF Redrain, ReadAnswer, queue, turn, steer
  <1>4. CASE Die \/ Start
    BY <1>4, KeptQuiet DEF Die, Start, queue, turn, steer
  <1>5. CASE Bounce
    <2>1. TurnRows' = TurnRows /\ BatchBegins'
      BY <1>5 DEF Bounce, Kept, TurnRows, Answered, BatchBegins
    <2> QED
      BY <1>5, <2>1, KeptTurn DEF Bounce, queue, steer
  <1>6. CASE Reload \/ Kill \/ Interrupt
    BY <1>6, KeptQuiet DEF Reload, Kill, Interrupt, queue, turn, steer
  <1>7. CASE ControlTimeout
    BY <1>7, KeptQuiet DEF ControlTimeout, queue, turn, steer
  <1>8. CASE Cli
    BY <1>8, KeptQuiet DEF Cli, CliStart, CliMerge, CliSelf, CliResult, CliControl, Consume, queue, turn, steer
  <1>9. CASE UNCHANGED vars
    BY <1>9, KeptQuiet DEF vars, queue, turn, steer
  <1> QED
    BY <1>1, <1>2, <1>3, <1>4, <1>5, <1>6, <1>7, <1>8, <1>9

\* Turns that begin without a write, and the steps of one that change no row.
LEMMA TurnKept ==
  ASSUME Types, Kept,
         \/ DrainRuns \/ ReadBegins \/ ReadInit \/ ReadResult \/ Count \/ FollowonTimeout
         \/ SettleSkips \/ SettleFollowon \/ SettleSelf \/ SettleDone \/ Bounced
  PROVE  Kept'
  <1>0. batch \in Batches
    BY DEF Types, TurnTypes
  <1>1. CASE DrainRuns
    <2>1. TurnRows' = TurnRows /\ BatchBegins' /\ batch'.steered \in {0, batch.steered}
      <3>1. CASE bgseen /\ Steering /\ proc = "alive" /\ InitAt > 0
        BY <1>1, <3>1 DEF DrainRuns, DrainStart, SelfTurn, Batch, Kept, TurnRows, Answered, BatchBegins
      <3>2. CASE ~(bgseen /\ Steering /\ proc = "alive" /\ InitAt > 0)
        BY <1>1, <3>2 DEF DrainRuns, DrainStart, Kept, TurnRows, Answered, BatchBegins
      <3> QED
        BY <3>1, <3>2
    <2> QED
      BY <1>1, <2>1, KeptTurn DEF DrainRuns, queue, steer
  <1>2. CASE ReadBegins
    <2>1. TurnRows' = TurnRows /\ BatchBegins' /\ batch'.steered \in {0, batch.steered}
      BY <1>0, <1>2 DEF ReadBegins, Batches, Kept, TurnRows, Answered, BatchBegins
    <2> QED
      BY <1>2, <2>1, KeptTurn DEF ReadBegins, queue, steer
  <1>3. CASE ReadInit
    <2>1. TurnRows' = TurnRows /\ BatchBegins' /\ batch'.steered \in {0, batch.steered}
      BY <1>0, <1>3 DEF ReadInit, Reading, Batches, Kept, TurnRows, Answered, BatchBegins
    <2> QED
      BY <1>3, <2>1, KeptTurn DEF ReadInit, queue, steer
  <1>4. CASE ReadResult
    <2>1. TurnRows' = TurnRows /\ BatchBegins' /\ batch'.steered \in {0, batch.steered}
      BY <1>0, <1>4 DEF ReadResult, Ended, Reading, Batches, Kept, TurnRows, Answered, BatchBegins
    <2> QED
      BY <1>4, <2>1, KeptTurn DEF ReadResult, queue, steer
  <1>5. CASE Count
    <2>1. TurnRows' = TurnRows /\ BatchBegins'
      BY <1>5 DEF Count, Kept, TurnRows, Answered, BatchBegins
    <2> QED
      BY <1>5, <2>1, KeptTurn DEF Count, queue, steer
  <1>6. CASE FollowonTimeout
    <2>1. TurnRows' = TurnRows /\ BatchBegins'
      BY <1>6 DEF FollowonTimeout, Kept, TurnRows, Answered, BatchBegins
    <2> QED
      BY <1>6, <2>1, KeptTurn DEF FollowonTimeout, queue, steer
  <1>7. ASSUME LoopEnds, pc \in {"settle", "bouncing"}
        PROVE  TurnRows' = TurnRows /\ BatchBegins' /\ batch'.steered \in {0, batch.steered}
    BY <1>7 DEF LoopEnds, Batch, TurnRows, Answered, BatchBegins
  <1>8. CASE SettleSkips \/ SettleDone \/ Bounced
    BY <1>7, <1>8, KeptTurn DEF SettleSkips, SettleDone, Settles, Bounced, queue, steer
  <1>9. CASE SettleFollowon
    <2>1. TurnRows' = TurnRows /\ BatchBegins' /\ batch'.steered \in {0, batch.steered}
      BY <1>9 DEF SettleFollowon, Settles, Batch, TurnRows, Answered, BatchBegins
    <2> QED
      BY <1>9, <2>1, KeptTurn DEF SettleFollowon, queue, steer
  <1>10. CASE SettleSelf
    <2>1. TurnRows' = TurnRows /\ BatchBegins' /\ batch'.steered \in {0, batch.steered}
      BY <1>10 DEF SettleSelf, Settles, SelfTurn, Batch, TurnRows, Answered, BatchBegins
    <2> QED
      BY <1>10, <2>1, KeptTurn DEF SettleSelf, queue, steer
  <1> QED
    BY <1>1, <1>2, <1>3, <1>4, <1>5, <1>6, <1>8, <1>9, <1>10

\* A new row has no owner yet.
LEMMA InsertKept ==
  ASSUME Types, Kept, NEW c \in Channels, NEW p \in BOOLEAN, Insert(c, p),
         UNCHANGED <<ledger, steering, pc>>,
         batch' = batch \/ batch' = [batch EXCEPT !.cut = TRUE]
  PROVE  Kept'
  <1>1. count + 1 \in Rows /\ count \in Nat /\ count + 1 > count
    BY TurnLoopAssumption DEF Insert, Types, QueueTypes, Rows
  <1>2. status[count + 1] = "none"
    BY <1>1 DEF Kept, Rowed
  <1>3. batch'.rows = batch.rows /\ batch'.merged = batch.merged /\ batch'.steered = batch.steered
        /\ batch'.chan = batch.chan /\ batch'.awaiting = batch.awaiting
    BY DEF Types, TurnTypes, Batches
  <1>4. TurnRows' = TurnRows /\ BatchBegins'
    BY <1>3 DEF Kept, TurnRows, Answered, BatchBegins
  <1>5. Running' = Running
    BY <1>1, <1>2 DEF Running, Insert, Types, QueueTypes
  <1>6. Rowed'
    <2> SUFFICES ASSUME NEW r \in Rows
                 PROVE  IF r > count' THEN status'[r] = "none" ELSE chan'[r] \in Channels
      BY DEF Rowed
    <2>1. r \in Nat /\ count' = count + 1
      BY RowsFinite DEF Insert
    <2>2. CASE r = count + 1
      BY <1>1, <2>1, <2>2 DEF Insert, Types, QueueTypes
    <2>3. CASE r # count + 1
      <3>1. status'[r] = status[r] /\ chan'[r] = chan[r]
        BY <2>3 DEF Insert, Types, QueueTypes
      <3>2. r > count <=> r > count'
        BY <1>1, <2>1, <2>3
      <3> QED
        BY <3>1, <3>2 DEF Kept, Rowed
    <2> QED
      BY <2>2, <2>3
  <1>7. Steered' = Steered /\ LinesApart'
    BY DEF Kept, Steered, SteerRows, LinesApart
  <1>8. Owned' /\ SteerBound'
    BY <1>3, <1>4, <1>5, <1>7 DEF Kept, Owned, SteerBound
  <1> QED
    BY <1>4, <1>6, <1>7, <1>8 DEF Kept

LEMMA ArrivalKept == ASSUME Types, Kept, NEW c \in Channels, Enqueue(c) \/ InterruptMessage(c) PROVE Kept'
  <1>1. CASE Enqueue(c)
    BY <1>1, InsertKept DEF Enqueue, turn
  <1>2. CASE InterruptMessage(c)
    <2>1. batch' = batch \/ batch' = [batch EXCEPT !.cut = TRUE]
      BY <1>2 DEF InterruptMessage
    <2> QED
      BY <1>2, <2>1, InsertKept DEF InterruptMessage
  <1> QED
    BY <1>1, <1>2

\* What the queue's scans find, and what every owner relies on.
LEMMA OwnersApart ==
  ASSUME Types, Kept
  PROVE  /\ Queued \subseteq Rows /\ Queued \cap Running = {} /\ Running \subseteq Rows
         /\ steering \subseteq Running /\ Steered \subseteq Running /\ TurnRows \subseteq Running
         /\ \A r \in Queued \cup Running : status[r] # "none" /\ r <= count /\ chan[r] \in Channels
         /\ MaxLines \in Nat /\ batch.steered \in Nat /\ Cardinality(steering) \in Nat
         /\ IsFiniteSet(steering)
  <1>1. \A r \in Rows : r \in Nat /\ count \in Nat
    BY RowsFinite DEF Types, QueueTypes
  <1>2. \A r \in Queued \cup Running : r \in Rows /\ status[r] # "none"
    BY DEF Queued, Running
  <1>3. \A r \in Queued \cup Running : ~(r > count) /\ chan[r] \in Channels
    BY <1>1, <1>2 DEF Kept, Rowed
  <1>4. \A r \in Queued \cup Running : r <= count
    BY <1>1, <1>2, <1>3
  <1>5. MaxLines \in Nat /\ batch.steered \in Nat /\ Cardinality(steering) \in Nat /\ IsFiniteSet(steering)
    BY RowsFinite, FS_CardinalityType, TurnLoopAssumption DEF Types, TurnTypes, Batches
  <1> QED
    BY <1>2, <1>3, <1>4, <1>5 DEF Queued, Running, Kept, Owned

LEMMA ClaimKept == ASSUME Types, Kept, Claim PROVE Kept'
  <1>1. CASE Queued = {}
    <2>1. TurnRows' = TurnRows /\ BatchBegins'
      BY <1>1 DEF Claim, Kept, TurnRows, Answered, BatchBegins
    <2> QED
      BY <1>1, <2>1, KeptTurn DEF Claim, steer
  <1>2. CASE Queued # {}
    <2>1. /\ pc' = "write" /\ SetStatus(ClaimSet, "running") /\ batch' = Batch(ClaimSet, chan[Head0], "queue")
          /\ UNCHANGED <<count, chan, ledger, steering>> /\ pc = "claim"
      BY <1>2 DEF Claim, steer
    <2>2. ClaimSet \subseteq Queued /\ Head0 \in Queued
      BY <1>2, HeadFirst DEF ClaimSet, Foremost, Types
    <2>3. Steered' = Steered /\ LinesApart' /\ TurnRows = {} /\ TurnRows' = ClaimSet
      BY <2>1 DEF Kept, Steered, SteerRows, LinesApart, TurnRows, Answered, Batch
    <2>4. Running' = Running \cup ClaimSet
      BY <2>1, <2>2, OwnersApart, StatusRunning DEF Types
    <2>5. Owned'
      BY <2>1, <2>2, <2>3, <2>4, OwnersApart DEF Kept, Owned
    <2>6. Rowed'
      BY <2>1, <2>2, OwnersApart, StatusRowed DEF Kept
    <2>7. BatchBegins'
      BY <2>1, <2>2, OwnersApart DEF BatchBegins, Batch
    <2>8. SteerBound'
      BY <2>1, OwnersApart DEF Kept, SteerBound, Batch
    <2> QED
      BY <2>3, <2>5, <2>6, <2>7, <2>8 DEF Kept
  <1> QED
    BY <1>1, <1>2

LEMMA WriteKept == ASSUME Types, Kept, WriteLands \/ WriteFails PROVE Kept'
  <1>1. CASE WriteLands
    <2>0. UNCHANGED <<count, status, chan, prio, batch, steering>> /\ pc = "write" /\ pc' = "written"
      BY <1>1 DEF WriteLands, queue, steer
    <2>1. Steered' = Steered /\ LinesApart'
      <3>1. CASE Steering
        <4>1. Primary \in Lines /\ Primary.kind = "primary"
          BY <2>0 DEF Primary, Line, Lines, Kept, BatchBegins, Types, TurnTypes, Batches
        <4>2. ledger' = Append(ledger, Primary)
          BY <1>1, <3>1 DEF WriteLands
        <4> HIDE DEF Primary
        <4>3. Steered' = Steered \cup {} /\ LinesApart'
          BY <4>1, <4>2, Appended DEF Types, Kept
        <4> QED
          BY <4>3
      <3>2. CASE ~Steering
        BY <1>1, <3>2 DEF WriteLands, Kept, Steered, SteerRows, LinesApart
      <3> QED
        BY <3>1, <3>2
    <2>2. TurnRows' = TurnRows /\ BatchBegins' /\ Running' = Running /\ Rowed' /\ SteerBound'
      BY <2>0 DEF Kept, TurnRows, Answered, BatchBegins, Running, Rowed, SteerBound
    <2> QED
      BY <2>0, <2>1, <2>2 DEF Kept, Owned
  <1>2. CASE WriteFails
    <2> DEFINE S == {r \in batch.rows : status[r] = "running"}
    <2>1. /\ pc = "write" /\ pc' = "settle" /\ SetStatus(S, "queued") /\ batch' = Batch({}, batch.chan, "queue")
          /\ UNCHANGED <<count, chan, ledger, steering>>
      BY <1>2 DEF WriteFails, steer
    <2>2. TurnRows = batch.rows /\ batch.rows \subseteq Running
      BY <2>1, OwnersApart DEF Kept, BatchBegins, TurnRows, Answered
    <2>3. S = TurnRows
      BY <2>2 DEF Running
    <2> HIDE DEF S
    <2>4. Running' = Running \ TurnRows /\ Rowed'
      BY <2>1, <2>2, <2>3, OwnersApart, StatusRunning, StatusRowed DEF Types, Kept
    <2>5. Steered' = Steered /\ LinesApart' /\ TurnRows' = {}
      BY <2>1 DEF Kept, Steered, SteerRows, LinesApart, TurnRows
    <2>6. Owned'
      BY <2>1, <2>4, <2>5 DEF Kept, Owned
    <2>7. batch'.steered = 0 /\ batch'.awaiting = FALSE
      BY <2>1 DEF Batch
    <2>8. BatchBegins'
      BY <2>1, <2>7 DEF BatchBegins
    <2>9. SteerBound'
      BY <2>1, <2>7, OwnersApart DEF Kept, SteerBound
    <2> QED
      BY <2>4, <2>5, <2>6, <2>8, <2>9 DEF Kept
  <1> QED
    BY <1>1, <1>2

\* The rows of the replayed lines pass from the ledger to the turn.
LEMMA ReplayKept == ASSUME Types, Kept, ReadReplay PROVE Kept'
  <1> DEFINE n == Matched(Head(Stream).texts)
  <1>1. /\ pc = "read" /\ pc' = pc /\ ledger' = SubSeq(ledger, n + 1, Len(ledger))
        /\ batch' = [batch EXCEPT !.awaiting = FALSE, !.merged = @ \cup SteerRows(n)]
        /\ UNCHANGED <<count, status, chan, steering>>
    BY DEF ReadReplay, Reading, queue, steer
  <1>2. n \in 0..Len(ledger)
    <2>1. Head(Stream) \in Events /\ Head(Stream).t = "replay"
      BY StreamTypes DEF ReadReplay, Reading
    <2>2. Head(Stream).texts \in Seq(SUBSET Rows)
      BY <2>1 DEF Events
    <2> QED
      BY <2>2, MatchedBound DEF Types
  <1> HIDE DEF n
  <1>3. Steered = SteerRows(n) \cup Steered' /\ SteerRows(n) \cap Steered' = {} /\ LinesApart'
    BY <1>1, <1>2, Replayed DEF Types, Kept
  <1>4. TurnRows' = TurnRows \cup SteerRows(n) /\ BatchBegins' /\ batch'.steered = batch.steered
    BY <1>1 DEF Types, TurnTypes, Batches, TurnRows, Answered, BatchBegins
  <1>5. Running' = Running /\ Rowed' /\ SteerBound'
    BY <1>1, <1>4 DEF Kept, Running, Rowed, SteerBound
  <1>6. Owned'
    BY <1>1, <1>3, <1>4, <1>5 DEF Kept, Owned
  <1> QED
    BY <1>3, <1>4, <1>5, <1>6 DEF Kept

\* The lines of a process that is gone give their rows back.
LEMMA ReleaseKept ==
  ASSUME Types, Kept, ReleasePending, UNCHANGED steering, TurnRows' = TurnRows,
         batch'.steered = batch.steered, BatchBegins'
  PROVE  Kept'
  <1> DEFINE S == {r \in Steered : status[r] = "running"}
  <1>1. SetStatus(S, "queued") /\ ledger' = <<>> /\ UNCHANGED <<count, chan>>
    BY DEF ReleasePending, Steered
  <1>2. S = Steered
    BY OwnersApart DEF Running
  <1> HIDE DEF S
  <1>3. Running' = Running \ Steered /\ Rowed'
    BY <1>1, <1>2, OwnersApart, StatusRunning, StatusRowed DEF Types, Kept
  <1>4. Steered' = {} /\ LinesApart'
    BY <1>1, Emptied
  <1>5. Owned' /\ SteerBound'
    BY <1>3, <1>4 DEF Kept, Owned, SteerBound
  <1> QED
    BY <1>3, <1>4, <1>5 DEF Kept

LEMMA ReleasesKept == ASSUME Types, Kept, ReadEOF \/ Watcher \/ KillEnds PROVE Kept'
  <1>1. CASE ReadEOF
    <2>1. TurnRows' = TurnRows /\ BatchBegins' /\ batch'.steered = batch.steered
      BY <1>1 DEF ReadEOF, Ended, Types, TurnTypes, Batches, Kept, TurnRows, Answered, BatchBegins
    <2> QED
      BY <1>1, <2>1, ReleaseKept DEF ReadEOF, steer
  <1>2. CASE Watcher \/ KillEnds
    <2>1. TurnRows' = TurnRows /\ BatchBegins' /\ batch' = batch
      BY <1>2 DEF Watcher, KillEnds, turn, Kept, TurnRows, Answered, BatchBegins
    <2> QED
      BY <1>2, <2>1, ReleaseKept DEF Watcher, KillEnds, steer
  <1> QED
    BY <1>1, <1>2

\* The verdict settles the rows of the turn and no other; a flush skips waiting rows.
LEMMA FinishKept == ASSUME Types, Kept, Finish \/ Flush PROVE Kept'
  <1>1. CASE Finish
    <2>1. PICK v \in {"queued", "crashed", "complete"} : SetStatus(Answered, v)
      BY <1>1 DEF Finish, Verdict
    <2>2. /\ pc = "finish" /\ pc' \in {"settle", "count"} /\ TurnRows = Answered /\ TurnRows' = {}
          /\ UNCHANGED <<count, chan, batch, ledger, steering>>
      BY <1>1 DEF Finish, TurnRows, steer
    <2>3. Running' = Running \ TurnRows /\ Rowed'
      BY <2>1, <2>2, OwnersApart, StatusRunning, StatusRowed DEF Types, Kept
    <2>4. Steered' = Steered /\ LinesApart' /\ BatchBegins' /\ SteerBound'
      BY <2>2 DEF Kept, Steered, SteerRows, LinesApart, BatchBegins, SteerBound, Answered
    <2>5. Owned'
      BY <2>2, <2>3, <2>4 DEF Kept, Owned
    <2> QED
      BY <2>3, <2>4, <2>5 DEF Kept
  <1>2. CASE Flush
    <2>1. SetStatus(Queued, "skipped") /\ UNCHANGED <<count, chan, pc, batch, ledger, steering>>
      BY <1>2 DEF Flush, turn, steer
    <2>2. Running' = Running /\ Rowed'
      BY <2>1, OwnersApart, StatusRunning, StatusRowed DEF Types, Kept
    <2>3. Steered' = Steered /\ TurnRows' = TurnRows /\ LinesApart' /\ BatchBegins' /\ SteerBound'
      BY <2>1 DEF Kept, Steered, SteerRows, LinesApart, BatchBegins, SteerBound, TurnRows, Answered
    <2> QED
      BY <2>1, <2>2, <2>3 DEF Kept, Owned
  <1> QED
    BY <1>1, <1>2

\* A claim of the steer task, its line, or its rows given back.
LEMMA SteerKept == ASSUME Types, Kept, SteerTask PROVE Kept'
  <1>1. CASE SteerClaim
    <2>0. /\ steering = {} /\ pc # "written" /\ UNCHANGED <<count, chan, pc, batch, ledger>>
          /\ SetStatus(steering', "running")
      BY <1>1 DEF SteerClaim, turn
    <2>1. steering' \subseteq Queued /\ Cardinality(steering') <= MaxLines - batch.steered
      <3> DEFINE S == {r \in Queued : chan[r] = batch.chan /\ ~prio[r]}
      <3>1. MaxLines - batch.steered \in Nat
        BY OwnersApart DEF Types, TurnTypes, Batches
      <3>2. CASE steering' = {}
        BY <3>1, <3>2, FS_EmptySet
      <3>3. CASE steering' = Foremost(S, Allowance)
        <4>1. S \in SUBSET Rows /\ S \subseteq Queued /\ Allowance = MaxLines - batch.steered
          BY DEF Queued, Allowance
        <4> HIDE DEF S
        <4> QED
          BY <3>1, <3>3, <4>1, ForemostSize DEF Types
      <3> QED
        BY <1>1, <3>2, <3>3 DEF SteerClaim
    <2>2. Running' = Running \cup steering' /\ Rowed'
      BY <2>0, <2>1, OwnersApart, StatusRunning, StatusRowed DEF Types, Kept
    <2>3. Steered' = Steered /\ TurnRows' = TurnRows /\ LinesApart' /\ BatchBegins'
      BY <2>0 DEF Kept, Steered, SteerRows, LinesApart, BatchBegins, TurnRows, Answered
    <2>4. steering' \cap (TurnRows \cup Steered) = {}
      BY <2>1, OwnersApart
    <2>5. Owned'
      BY <2>0, <2>2, <2>3, <2>4 DEF Kept, Owned
    <2>6. SteerBound'
      <3>1. Cardinality(steering') \in Nat
        BY <2>1, OwnersApart, RowsFinite, FS_CardinalityType
      <3>2. batch.steered + Cardinality(steering') <= MaxLines
        BY <2>1, <3>1, OwnersApart
      <3> QED
        BY <2>0, <3>2 DEF SteerBound
    <2> QED
      BY <2>2, <2>3, <2>5, <2>6 DEF Kept
  <1>2. CASE SteerWrite
    <2> DEFINE e == Line("steer", steering, batch.chan)
    <2>0. /\ steering # {} /\ steering' = {} /\ ledger' = Append(ledger, e)
          /\ batch' = [batch EXCEPT !.steered = @ + Cardinality(steering)]
          /\ pc' = pc /\ UNCHANGED <<count, status, chan>> /\ StillSteerable
      BY <1>2 DEF SteerWrite, queue
    <2>1. PICK r \in steering : r \in Running /\ chan[r] = batch.chan
      BY <2>0, OwnersApart DEF StillSteerable, Steerable
    <2>2. e \in Lines /\ e.kind = "steer" /\ e.rows = steering
      BY <2>1, OwnersApart DEF Line, Lines, Types, TurnTypes
    <2> HIDE DEF e
    <2>3. Steered' = Steered \cup steering /\ LinesApart'
      BY <2>0, <2>2, Appended DEF Types, Kept, Owned
    <2>4. /\ batch'.rows = batch.rows /\ batch'.merged = batch.merged /\ batch'.chan = batch.chan
          /\ batch'.awaiting = batch.awaiting /\ batch'.steered = batch.steered + Cardinality(steering)
      BY <2>0 DEF Types, TurnTypes, Batches
    <2>5. TurnRows' = TurnRows /\ BatchBegins' /\ Running' = Running /\ Rowed'
      BY <2>0, <2>4 DEF Kept, TurnRows, Answered, BatchBegins, Running, Rowed
    <2>6. SteerBound'
      BY <2>0, <2>4, OwnersApart, FS_EmptySet DEF Kept, SteerBound
    <2>7. Owned'
      BY <2>0, <2>3, <2>5 DEF Kept, Owned
    <2> QED
      BY <2>3, <2>5, <2>6, <2>7 DEF Kept
  <1>3. CASE SteerGivenBack
    <2> DEFINE S == {r \in steering : status[r] = "running"}
    <2>1. SetStatus(S, "queued") /\ steering' = {} /\ UNCHANGED <<count, chan, pc, batch, ledger>>
      BY <1>3 DEF SteerGivenBack, turn
    <2>2. S = steering
      BY OwnersApart DEF Running
    <2> HIDE DEF S
    <2>3. Running' = Running \ steering /\ Rowed'
      BY <2>1, <2>2, OwnersApart, StatusRunning, StatusRowed DEF Types, Kept
    <2>4. Steered' = Steered /\ TurnRows' = TurnRows /\ LinesApart' /\ BatchBegins'
      BY <2>1 DEF Kept, Steered, SteerRows, LinesApart, BatchBegins, TurnRows, Answered
    <2>5. Owned'
      BY <2>1, <2>3, <2>4 DEF Kept, Owned
    <2>6. SteerBound'
      BY <2>1, OwnersApart, FS_EmptySet DEF Kept, SteerBound
    <2> QED
      BY <2>3, <2>4, <2>5, <2>6 DEF Kept
  <1> QED
    BY <1>1, <1>2, <1>3 DEF SteerTask

LEMMA NextKept == ASSUME IInv, [Next]_vars PROVE Kept'
  <1>0. Types /\ Kept
    BY DEF IInv
  <1>1. CASE Loop
    BY <1>0, <1>1, QuietKept, TurnKept, ClaimKept, WriteKept, ReplayKept, ReleasesKept, FinishKept DEF Loop
  <1>2. CASE Lifecycle
    BY <1>0, <1>2, QuietKept, ReleasesKept DEF Lifecycle
  <1>3. CASE Operator
    BY <1>0, <1>3, QuietKept, FinishKept, ArrivalKept DEF Operator
  <1>4. CASE Arrival
    BY <1>0, <1>4, ArrivalKept DEF Arrival
  <1> QED
    BY <1>0, <1>1, <1>2, <1>3, <1>4, QuietKept, TurnKept, SteerKept DEF Next

LEMMA InitKept == Init => Kept
  <1> SUFFICES ASSUME Init PROVE Kept
    OBVIOUS
  <1>1. ledger = <<>> /\ steering = {} /\ pc = "free" /\ batch = Batch({}, NoChannel, "queue")
        /\ \A r \in Rows : status[r] = "none"
    BY DEF Init
  <1>2. Rowed /\ LinesApart /\ BatchBegins /\ Running = {} /\ TurnRows = {} /\ Steered = {}
    <2>1. Rowed
      <3>1. \A r \in Rows : r > count
        BY TurnLoopAssumption DEF Init, Rows
      <3> QED
        BY <1>1, <3>1 DEF Rowed
    <2>2. LinesApart /\ Steered = {}
      BY <1>1 DEF LinesApart, Steered, SteerRows
    <2>3. BatchBegins /\ TurnRows = {}
      BY <1>1 DEF BatchBegins, TurnRows, Batch
    <2>4. Running = {}
      BY <1>1 DEF Running
    <2> QED
      BY <2>1, <2>2, <2>3, <2>4
  <1>3. SteerBound
    BY <1>1, FS_EmptySet, TurnLoopAssumption DEF SteerBound, Batch
  <1> QED
    BY <1>1, <1>2, <1>3 DEF Kept, Owned

-----------------------------------------------------------------------------
(* The invariants of every run.                                              *)

\* The inductive invariant holds in every state of the turn loop, whatever the
\* interleaving of the drain, the steer task, the process and the operator.
THEOREM Inductive == Spec => []IInv
  <1>1. Init => IInv
    BY InitTypes, InitKept DEF IInv
  <1>2. IInv /\ [Next]_vars => IInv'
    BY NextTypes, NextKept DEF IInv, Kept
  <1> QED
    BY <1>1, <1>2, PTL DEF Spec

\* The columns, the ledger and the counters hold what the code gives them, and one
\* turn is steered at most max_lines_per_turn rows, for every such limit.
THEOREM Typing == Spec => []TypeOK
  <1>1. IInv => TypeOK
    <2> SUFFICES ASSUME IInv PROVE TypeOK
      OBVIOUS
    <2>1. Types
      BY DEF IInv
    <2>2. \A i \in 1..Len(ledger) : /\ ledger[i].kind \in {"primary", "steer"}
                                    /\ ledger[i].rows \subseteq Rows /\ ledger[i].chan \in Channels
      BY <2>1, LedgerTypes DEF Types, Lines
    <2>3. /\ batch.rows \subseteq Rows /\ batch.merged \subseteq Rows /\ batch.ate \subseteq Rows
          /\ batch.chan \in Channels \cup {NoChannel} /\ batch.origin \in {"queue", "followon", "self"}
          /\ batch.steered \in 0..MaxLines
      BY <2>1 DEF Types, TurnTypes, Batches
    <2> QED
      BY <2>1, <2>2, <2>3
      DEF TypeOK, Types, QueueTypes, TurnTypes, ProcessTypes, CliTypes, Statuses, Places
  <1> QED
    BY <1>1, Inductive, PTL

\* Every row in progress has exactly one owner that will settle it or give it back,
\* through steering, deaths, bounces, kills, reloads and interrupts.
THEOREM Ownership == Spec => []OwnedInProgress
  <1>1. IInv => OwnedInProgress
    BY DEF IInv, Kept, Owned, Running, Steered, OwnedInProgress
  <1> QED
    BY <1>1, Inductive, PTL

-----------------------------------------------------------------------------
(* Channels, where no turn starts by itself: steering is off, or the CLI     *)
(* runs no background task.                                                  *)

Quiet == ~Steering \/ MaxSelf = 0

\* No result announces a turn of the CLI's own.
NoneAnnounced(s) == \A i \in 1..Len(s) : s[i].t = "result" => ~s[i].bg
Selfless ==
    /\ ~resume
    /\ Steering => ~bgseen /\ ~batch.bg /\ NoneAnnounced(out) /\ NoneAnnounced(tail)

\* Where the ledger is known to be empty: before a write, at rest unless the process
\* is dead, without a process, after a bounce's kill.
NoPending ==
    /\ pc \in {"claim", "write"} => ledger = <<>>
    /\ pc = "free" => ledger = <<>> \/ proc = "dead"
    /\ proc = "none" => ledger = <<>>
    /\ op = "start" => proc = "none"
    /\ pc = "bouncing" => op = "kill" \/ ledger = <<>>
    /\ ~Steering => ledger = <<>>

\* The lines in flight and the rows of the turn are of one channel.
OneChannel ==
    /\ pc \in Places \ {"free", "claim", "write"} =>
         \A i \in 1..Len(ledger) : ledger[i].chan = batch.chan
    /\ \A i \in 1..Len(ledger) : \A r \in ledger[i].rows : r <= count /\ chan[r] = ledger[i].chan
    /\ pc \in {"write", "written", "read", "finish"} => \A r \in Answered : chan[r] = batch.chan

ChanInv == Selfless /\ NoPending /\ OneChannel

LEMMA NoneStays ==
  ASSUME NEW s \in Seq(Events), NoneAnnounced(s)
  PROVE  /\ s # <<>> => NoneAnnounced(Tail(s)) /\ (Head(s).t = "result" => ~Head(s).bg)
         /\ \A e \in Events : (e.t = "result" => ~e.bg) => NoneAnnounced(Append(s, e))
         /\ NoneAnnounced(<<>>)
  <1>1. ASSUME s # <<>> PROVE NoneAnnounced(Tail(s)) /\ (Head(s).t = "result" => ~Head(s).bg)
    <2>1. Len(s) \in Nat /\ Len(s) > 0 /\ Len(Tail(s)) = Len(s) - 1 /\ Head(s) = s[1]
          /\ \A i \in 1..(Len(s) - 1) : Tail(s)[i] = s[i + 1]
      BY <1>1, HeadTailProperties, LenProperties, EmptySeq
    <2>2. \A i \in 1..(Len(s) - 1) : i + 1 \in 1..Len(s)
      BY <2>1
    <2>3. 1 \in 1..Len(s)
      BY <2>1
    <2> QED
      BY <2>1, <2>2, <2>3 DEF NoneAnnounced
  <1>2. ASSUME NEW e \in Events, e.t = "result" => ~e.bg PROVE NoneAnnounced(Append(s, e))
    <2>1. Len(s) \in Nat /\ Len(Append(s, e)) = Len(s) + 1 /\ Append(s, e)[Len(s) + 1] = e
          /\ \A i \in 1..Len(s) : Append(s, e)[i] = s[i]
      BY AppendTyped, LenProperties
    <2>2. \A i \in 1..Len(Append(s, e)) : i \in 1..Len(s) \/ i = Len(s) + 1
      BY <2>1
    <2> QED
      BY <1>2, <2>1, <2>2 DEF NoneAnnounced
  <1>3. NoneAnnounced(<<>>)
    BY DEF NoneAnnounced
  <1> QED
    BY <1>1, <1>2, <1>3

LEMMA RestAnnounces ==
  ASSUME Types, NoneAnnounced(out), NoneAnnounced(tail), Stream # <<>>
  PROVE  /\ Rest => NoneAnnounced(out)' /\ NoneAnnounced(tail)'
         /\ Head(Stream).t = "result" => ~Head(Stream).bg
  <1>1. out \in Seq(Events) /\ tail \in Seq(Events)
    BY DEF Types, ProcessTypes, CliTypes
  <1>2. NoneAnnounced(out)' = NoneAnnounced(out') /\ NoneAnnounced(tail)' = NoneAnnounced(tail')
    OBVIOUS
  <1> QED
    BY <1>1, <1>2, NoneStays DEF Stream, Rest

\* What leaves the turn, the stream and the marks of background work alone.
LEMMA SelflessSame ==
  ASSUME Selfless, UNCHANGED <<resume, bgseen, out, tail>>, batch'.bg = batch.bg \/ ~batch'.bg
  PROVE  Selfless'
  BY DEF Selfless, NoneAnnounced

LEMMA LoopSelfless == ASSUME Types, Selfless, Loop PROVE Selfless'
  <1>0. batch \in Batches
    BY DEF Types, TurnTypes
  <1>1. CASE DrainDropped \/ WriteLands \/ Finish \/ Count \/ Bounce
    BY <1>1, SelflessSame
    DEF DrainDropped, DrainStart, WriteLands, Finish, Count, Bounce, marks, cli, reader
  <1>2. CASE DrainRuns
    <2>1. ~(bgseen /\ Steering)
      BY DEF Selfless
    <2>2. out' = out /\ resume' = resume /\ batch' = batch /\ tail' = tail /\ (bgseen' => bgseen)
      BY <1>2, <2>1 DEF DrainRuns, reader
    <2> QED
      BY <2>2 DEF Selfless, NoneAnnounced
  <1>3. CASE Claim \/ WriteFails
    <2>1. batch'.bg = batch.bg \/ ~batch'.bg
      BY <1>3 DEF Claim, WriteFails, Batch
    <2> QED
      BY <1>3, <2>1, SelflessSame DEF Claim, WriteFails, marks, cli, reader
  <1>4. CASE ReadBegins
    <2>1. batch'.bg = batch.bg
      BY <1>0, <1>4 DEF ReadBegins, Batches
    <2> QED
      BY <1>4, <2>1, SelflessSame DEF ReadBegins, marks, cli, reader
  <1>5. CASE ReadInit \/ ReadReplay \/ ReadAnswer
    <2>1. Stream # <<>> /\ Rest /\ batch'.bg = batch.bg /\ UNCHANGED <<resume, bgseen>>
      BY <1>0, <1>5 DEF ReadInit, ReadReplay, ReadAnswer, Reading, Batches, marks, turn
    <2> QED
      BY <2>1, RestAnnounces DEF Selfless
  <1>6. CASE ReadResult
    <2>1. Stream # <<>> /\ Head(Stream).t = "result" /\ resume' = resume /\ tail' = <<>>
          /\ out' = (IF attached = "cur" THEN Tail(out) ELSE out)
          /\ bgseen' = (bgseen \/ Head(Stream).bg) /\ batch'.bg = Head(Stream).bg
      BY <1>0, <1>6 DEF ReadResult, Reading, Ended, Batches
    <2>2. out \in Seq(Events) /\ tail \in Seq(Events)
      BY DEF Types, ProcessTypes, CliTypes
    <2>3. ASSUME Steering PROVE NoneAnnounced(out') /\ NoneAnnounced(tail') /\ ~Head(Stream).bg
      BY <2>1, <2>2, <2>3, RestAnnounces, NoneStays DEF Selfless, Stream
    <2> QED
      BY <2>1, <2>3 DEF Selfless
  <1>7. CASE ReadEOF
    <2>1. UNCHANGED <<resume, out>> /\ tail' = <<>> /\ (bgseen' => bgseen) /\ batch'.bg = FALSE
      BY <1>0, <1>7 DEF ReadEOF, Ended, Batches, cli, Types, TurnTypes
    <2> QED
      BY <2>1 DEF Selfless, NoneAnnounced
  <1>8. ASSUME LoopEnds PROVE resume' = FALSE /\ batch'.bg = FALSE
    BY <1>8 DEF LoopEnds, Batch
  <1>9. CASE SettleSkips \/ Bounced \/ SettleDone
    <2>1. UNCHANGED <<bgseen, out, tail>>
      BY <1>9 DEF SettleSkips, Bounced, SettleDone, Settles, Selfless, marks, cli, reader
    <2>2. resume' = FALSE /\ batch'.bg = FALSE
      BY <1>8, <1>9 DEF SettleSkips, Bounced, SettleDone
    <2> QED
      BY <2>1, <2>2 DEF Selfless, NoneAnnounced
  <1>10. CASE SettleFollowon
    <2>1. ~batch'.bg
      BY <1>10 DEF SettleFollowon, Batch
    <2> QED
      BY <1>10, <2>1, SelflessSame DEF SettleFollowon, marks, cli, reader
  <1>11. CASE SettleSelf
    BY <1>11 DEF SettleSelf, Settles, Selfless
  <1> QED
    BY <1>1, <1>2, <1>3, <1>4, <1>5, <1>6, <1>7, <1>9, <1>10, <1>11 DEF Loop

LEMMA CliSelfless == ASSUME Types, Quiet, Selfless, Cli PROVE Selfless'
  <1>0. /\ UNCHANGED <<resume, bgseen, batch, tail>> /\ out \in Seq(Events)
        /\ (Steering => MaxSelf = 0) /\ ~(selves < 0) /\ ate \in SUBSET Rows
    BY DEF Cli, CliStart, CliMerge, CliSelf, CliResult, CliControl, Consume, turn, marks, reader,
           Types, CliTypes, BoundTypes, Quiet
  <1>1. ASSUME Steering, NEW e \in Events, e.t = "result" => ~e.bg, out' = Append(out, e)
        PROVE  NoneAnnounced(out')
    BY <1>0, <1>1, NoneStays DEF Selfless
  <1>2. ASSUME Steering PROVE NoneAnnounced(out')
    <2>1. ASSUME NEW n \in 1..Len(inq), Consume(n) PROVE NoneAnnounced(out')
      <3>1. Len(inq) \in Nat /\ inq \in Seq(SUBSET Rows) /\ n \in 0..Len(inq)
        BY LenProperties DEF Types, CliTypes
      <3>2. Replay(SubSeq(inq, 1, n)) \in Events
        BY <3>1, PrefixTyped DEF Replay, Events
      <3>3. Replay(SubSeq(inq, 1, n)).t = "replay" /\ out' = Append(out, Replay(SubSeq(inq, 1, n)))
        BY <2>1 DEF Replay, Consume
      <3> QED
        BY <1>1, <1>2, <3>2, <3>3
    <2>2. CASE CliSelf
      BY <1>0, <1>2, <2>2 DEF CliSelf
    <2>3. CASE CliResult
      <3>1. PICK kind \in {"ok", "error", "wall"} : out' = Append(out, Result(kind, ate, FALSE))
        BY <1>0, <1>2, <2>3 DEF CliResult
      <3>2. Result(kind, ate, FALSE) \in Events /\ ~Result(kind, ate, FALSE).bg
        BY <1>0 DEF Result, Events, Kinds
      <3> QED
        BY <1>1, <1>2, <3>1, <3>2
    <2>4. CASE CliControl
      <3>1. Answer(control) \in Events /\ Answer(control).t = "control_response"
            /\ Result("ok", ate, FALSE) \in Events /\ ~Result("ok", ate, FALSE).bg
        BY <1>0 DEF Answer, Result, Events, Kinds, Types, CliTypes
      <3>2. NoneAnnounced(Append(out, Answer(control))) /\ Append(out, Answer(control)) \in Seq(Events)
        BY <1>0, <1>2, <3>1, NoneStays, AppendTyped DEF Selfless
      <3>3. NoneAnnounced(Append(Append(out, Answer(control)), Result("ok", ate, FALSE)))
        BY <3>1, <3>2, NoneStays
      <3> HIDE DEF Events
      <3>4. \A s \in Seq(Events), e \in Events : s \o <<e>> = Append(s, e) /\ s \o <<>> = s
        OBVIOUS
      <3>5. out' = Append(out, Answer(control)) \o (IF running THEN <<Result("ok", ate, FALSE)>> ELSE <<>>)
        BY <2>4 DEF CliControl
      <3>6. CASE running
        BY <3>1, <3>2, <3>3, <3>4, <3>5, <3>6
      <3>7. CASE ~running
        BY <3>1, <3>2, <3>4, <3>5, <3>7
      <3> QED
        BY <3>6, <3>7
    <2> QED
      BY <2>1, <2>2, <2>3, <2>4 DEF Cli, CliStart, CliMerge
  <1> QED
    BY <1>0, <1>2 DEF Selfless, NoneAnnounced

LEMMA NextSelfless == ASSUME Types, Quiet, Selfless, [Next]_vars PROVE Selfless'
  <1>0. batch \in Batches
    BY DEF Types, TurnTypes
  <1>1. CASE Arrival \/ HoldWake \/ Redrain \/ FollowonTimeout \/ ControlTimeout \/ Die
    BY <1>1, SelflessSame
    DEF Arrival, Enqueue, HoldWake, Redrain, FollowonTimeout, ControlTimeout, Die, turn, marks, cli, reader
  <1>2. CASE SteerTask
    <2>1. batch'.bg = batch.bg
      BY <1>0, <1>2 DEF SteerTask, SteerClaim, SteerWrite, SteerGivenBack, Batches, turn
    <2> QED
      BY <1>2, <2>1, SelflessSame DEF SteerTask, SteerClaim, SteerWrite, SteerGivenBack, turn, marks, cli, reader
  <1>3. CASE Watcher \/ Start
    <2>1. UNCHANGED <<resume, bgseen, batch, tail>> /\ (out' = out \/ out' = <<>>)
      BY <1>3 DEF Watcher, Start, turn, marks, cli, reader
    <2> QED
      BY <2>1 DEF Selfless, NoneAnnounced
  <1>4. CASE KillEnds
    <2>1. UNCHANGED <<resume, bgseen, batch>> /\ out' = <<>> /\ (tail' = tail \/ tail' = out)
      BY <1>4 DEF KillEnds, turn, marks, reader
    <2> QED
      BY <2>1 DEF Selfless, NoneAnnounced
  <1>5. CASE Reload \/ Kill \/ Interrupt \/ Flush
    BY <1>5, SelflessSame DEF Reload, Kill, Interrupt, Flush, turn, marks, cli, reader
  <1>6. ASSUME NEW c \in Channels, InterruptMessage(c) PROVE Selfless'
    <2>1. batch'.bg = batch.bg
      BY <1>0, <1>6 DEF InterruptMessage, Batches
    <2> QED
      BY <1>6, <2>1, SelflessSame DEF InterruptMessage, reader
  <1>7. CASE UNCHANGED vars
    BY <1>7, SelflessSame DEF vars, turn, marks, cli, reader
  <1> QED
    BY <1>1, <1>2, <1>3, <1>4, <1>5, <1>6, <1>7, LoopSelfless, CliSelfless
    DEF Next, Lifecycle, Operator

\* The conjuncts of NoPending, kept by a step that adds no line to the ledger and
\* leaves the process, or empties the ledger.
LEMMA PendingSame ==
  ASSUME NoPending, UNCHANGED <<pc, ledger, proc, op>> PROVE NoPending'
  BY DEF NoPending

LEMMA PendingEmptied ==
  ASSUME ledger' = <<>>, op' = "start" => proc' = "none" PROVE NoPending'
  BY DEF NoPending

LEMMA PendingKill ==
  ASSUME NoPending, op = "none", NEW then \in {"kill", "killonly"}, KillBegins(then), UNCHANGED <<pc, ledger>>
  PROVE  NoPending'
  BY DEF NoPending, KillBegins

LEMMA LoopPending == ASSUME Types, Selfless, NoPending, Loop PROVE NoPending'
  <1>1. CASE DrainDropped \/ ReadInit \/ ReadAnswer
    BY <1>1, PendingSame DEF DrainDropped, DrainStart, ReadInit, ReadAnswer, turn, process
  <1>2. CASE DrainRuns
    <2>1. ~(bgseen /\ Steering)
      BY DEF Selfless
    <2>2. pc = "free" /\ pc' = "claim" /\ UNCHANGED <<ledger, proc, op>> /\ (Steering => proc # "dead")
      BY <1>2, <2>1 DEF DrainRuns, DrainStart, MustNotDrain, process
    <2> QED
      BY <2>2 DEF NoPending
  <1>3. CASE Claim
    BY <1>3 DEF Claim, NoPending, process
  <1>4. CASE WriteLands
    BY <1>4 DEF WriteLands, NoPending, process
  <1>5. CASE WriteFails
    BY <1>5 DEF WriteFails, NoPending, process
  <1>6. CASE ReadBegins
    BY <1>6 DEF ReadBegins, NoPending, process
  <1>7. CASE ReadReplay
    <2>1. pc = "read" /\ UNCHANGED <<pc, proc, op>>
      BY <1>7 DEF ReadReplay, Reading, process
    <2>2. ledger = <<>> => ledger' = <<>>
      <3> SUFFICES ASSUME ledger = <<>> PROVE ledger' = <<>>
        OBVIOUS
      <3>1. PICK m \in Nat : ledger' = SubSeq(ledger, m + 1, Len(ledger))
        <4>1. Head(Stream) \in Events /\ Head(Stream).t = "replay"
          BY <1>7, StreamTypes DEF ReadReplay, Reading
        <4>2. Head(Stream).texts \in Seq(SUBSET Rows)
          BY <4>1 DEF Events
        <4>3. Matched(Head(Stream).texts) \in Nat
          BY <4>2, MatchedBound, LedgerTypes DEF Types
        <4> QED
          BY <1>7, <4>3 DEF ReadReplay
      <3> QED
        BY <3>1, EmptySeq, SubSeqProperties
    <2> QED
      BY <2>1, <2>2 DEF NoPending
  <1>8. CASE ReadResult
    BY <1>8 DEF ReadResult, Ended, NoPending, process
  <1>9. CASE ReadEOF
    BY <1>9, PendingEmptied DEF ReadEOF, ReleasePending, NoPending, process
  <1>10. CASE Finish \/ Count \/ SettleFollowon
    BY <1>10 DEF Finish, Count, SettleFollowon, NoPending, process
  <1>11. CASE SettleSkips \/ SettleDone \/ Bounced
    <2>1. pc' = "free" /\ UNCHANGED <<ledger, proc, op>> /\ (ledger = <<>> \/ proc = "dead")
      BY <1>11 DEF SettleSkips, SettleDone, Bounced, LoopEnds, Selfless, NoPending, process, Types, ProcessTypes
    <2> QED
      BY <2>1 DEF NoPending
  <1>12. CASE SettleSelf
    BY <1>12 DEF SettleSelf, Settles, Selfless
  <1>13. CASE Bounce
    BY <1>13 DEF Bounce, KillBegins, NoPending
  <1> QED
    BY <1>1, <1>2, <1>3, <1>4, <1>5, <1>6, <1>7, <1>8, <1>9, <1>10, <1>11, <1>12, <1>13 DEF Loop

LEMMA NextPending == ASSUME Types, Selfless, NoPending, [Next]_vars PROVE NoPending'
  <1>1. CASE Arrival \/ HoldWake \/ Redrain \/ Cli \/ Flush \/ UNCHANGED vars
    <2>1. UNCHANGED <<pc, ledger, proc, op>>
      BY <1>1
      DEF Arrival, Enqueue, HoldWake, Redrain, Cli, CliStart, CliMerge, CliSelf, CliResult, CliControl,
          Consume, Flush, vars, turn, process
    <2> QED
      BY <2>1, PendingSame
  <1>2. CASE FollowonTimeout
    BY <1>2 DEF FollowonTimeout, NoPending, process
  <1>3. CASE ControlTimeout
    <2>1. CASE agent = "PROCESSING"
      BY <1>3, <2>1, PendingKill DEF ControlTimeout, InterruptBegins, turn
    <2>2. CASE agent # "PROCESSING"
      BY <1>3, <2>2, PendingSame DEF ControlTimeout, turn
    <2> QED
      BY <2>1, <2>2
  <1>4. CASE Die
    BY <1>4 DEF Die, NoPending, turn
  <1>5. CASE SteerClaim \/ SteerGivenBack
    BY <1>5, PendingSame DEF SteerClaim, SteerGivenBack, turn, process
  <1>6. CASE SteerWrite
    <2>1. Steering /\ proc = "alive" /\ pc = "read" /\ UNCHANGED <<pc, proc, op>>
      BY <1>6 DEF SteerWrite, StillSteerable, Steerable, process
    <2> QED
      BY <2>1 DEF NoPending
  <1>7. CASE Watcher
    BY <1>7, PendingEmptied DEF Watcher, ReleasePending, NoPending
  <1>8. CASE KillEnds
    BY <1>8, PendingEmptied DEF KillEnds, ReleasePending
  <1>9. CASE Start
    BY <1>9 DEF Start, NoPending, turn
  <1>10. CASE Reload \/ Kill \/ Interrupt
    BY <1>10, PendingKill DEF Reload, Kill, Interrupt, InterruptBegins, turn
  <1>11. ASSUME NEW c \in Channels, InterruptMessage(c) PROVE NoPending'
    <2>1. UNCHANGED <<proc, op>> \/ InterruptBegins
      BY <1>11 DEF InterruptMessage, process
    <2>2. UNCHANGED <<pc, ledger>>
      BY <1>11 DEF InterruptMessage
    <2> QED
      BY <2>1, <2>2, PendingSame, PendingKill DEF InterruptBegins
  <1> QED
    BY <1>1, <1>2, <1>3, <1>4, <1>5, <1>6, <1>7, <1>8, <1>9, <1>10, <1>11, LoopPending
    DEF Next, Lifecycle, Operator, SteerTask

\* The conjuncts of OneChannel, one at a time.
LEMMA ChannelSame ==
  ASSUME OneChannel, UNCHANGED <<count, chan, ledger>>,
         pc' \in {"free", "claim"} \/
           (/\ pc \in Places \ {"free", "claim", "write"} /\ batch'.chan = batch.chan
            /\ pc' \in {"write", "written", "read", "finish"} =>
                 \/ Answered' = {}
                 \/ Answered' = Answered /\ pc \in {"written", "read", "finish"})
  PROVE  OneChannel'
  BY DEF OneChannel

LEMMA ChannelQuiet ==
  ASSUME OneChannel, UNCHANGED <<count, chan, ledger, pc>>, batch'.chan = batch.chan,
         batch'.rows = batch.rows, batch'.merged = batch.merged
  PROVE  OneChannel'
  BY DEF OneChannel, Answered

LEMMA ChannelEmptied ==
  ASSUME OneChannel, UNCHANGED <<count, chan>>, ledger' = <<>>,
         pc' = pc \/ (pc \in {"read", "finish"} /\ pc' = "finish"),
         batch'.chan = batch.chan, batch'.rows = batch.rows, batch'.merged = batch.merged
  PROVE  OneChannel'
  <1>1. Len(ledger') = 0
    BY EmptySeq
  <1> QED
    BY <1>1 DEF OneChannel, Answered

LEMMA WriteChannel ==
  ASSUME IInv, NoPending, OneChannel, Claim \/ WriteLands \/ WriteFails PROVE OneChannel'
  <1>0. Types /\ Kept /\ batch \in Batches
    BY DEF IInv, Types, TurnTypes
  <1>1. CASE Claim
    <2>1. CASE Queued = {}
      BY <1>1, <2>1, ChannelSame DEF Claim
    <2>2. CASE Queued # {}
      <3>1. /\ pc' = "write" /\ batch' = Batch(ClaimSet, chan[Head0], "queue")
            /\ UNCHANGED <<count, chan, ledger>>
        BY <1>1, <2>2 DEF Claim
      <3>2. \A r \in ClaimSet : chan[r] = chan[Head0]
        BY DEF ClaimSet, Foremost
      <3>3. Answered' = ClaimSet /\ batch'.chan = chan[Head0]
        BY <3>1 DEF Answered, Batch
      <3> QED
        BY <3>1, <3>2, <3>3 DEF OneChannel
    <2> QED
      BY <2>1, <2>2
  <1>2. CASE WriteLands
    <2>1. pc = "write" /\ pc' = "written" /\ UNCHANGED <<count, chan, batch>> /\ ledger = <<>>
      BY <1>2 DEF WriteLands, queue, NoPending
    <2>2. Answered' = Answered /\ \A r \in Answered : chan[r] = batch.chan /\ r <= count
      BY <1>0, <2>1, OwnersApart DEF Answered, OneChannel, TurnRows
    <2>3. CASE Steering
      <3>1. ledger' = Append(<<>>, Primary)
        BY <1>2, <2>1, <2>3 DEF WriteLands
      <3>2. Len(ledger') = 1 /\ ledger'[1] = Primary
        BY <3>1
      <3>3. \A i \in 1..Len(ledger') : ledger'[i].rows = batch.rows /\ ledger'[i].chan = batch.chan
        BY <3>2 DEF Primary, Line
      <3> QED
        BY <2>1, <2>2, <3>3 DEF OneChannel, Answered
    <2>4. CASE ~Steering
      <3>1. ledger' = <<>> /\ Len(ledger') = 0
        BY <1>2, <2>1, <2>4, EmptySeq DEF WriteLands
      <3> QED
        BY <2>1, <2>2, <3>1 DEF OneChannel
    <2> QED
      BY <2>3, <2>4
  <1>3. CASE WriteFails
    <2>1. pc' = "settle" /\ UNCHANGED <<count, chan>> /\ ledger' = <<>> /\ Len(ledger') = 0
      BY <1>3, EmptySeq DEF WriteFails, NoPending
    <2> QED
      BY <2>1 DEF OneChannel
  <1> QED
    BY <1>1, <1>2, <1>3

LEMMA ReplayChannel == ASSUME IInv, OneChannel, ReadReplay PROVE OneChannel'
  <1> DEFINE n == Matched(Head(Stream).texts)
  <1>0. Types /\ Kept /\ ledger \in Seq(Lines) /\ Len(ledger) \in Nat
    BY LedgerTypes DEF IInv, Types, TurnTypes
  <1>1. /\ pc = "read" /\ pc' = pc /\ ledger' = SubSeq(ledger, n + 1, Len(ledger))
        /\ batch' = [batch EXCEPT !.awaiting = FALSE, !.merged = @ \cup SteerRows(n)]
        /\ UNCHANGED <<count, chan>>
    BY DEF ReadReplay, Reading, queue
  <1>2. n \in 0..Len(ledger)
    <2>1. Head(Stream) \in Events /\ Head(Stream).t = "replay"
      BY <1>0, StreamTypes DEF ReadReplay, Reading
    <2>2. Head(Stream).texts \in Seq(SUBSET Rows)
      BY <2>1 DEF Events
    <2> QED
      BY <1>0, <2>2, MatchedBound DEF Types
  <1> HIDE DEF n
  <1>3. \A i \in 1..Len(ledger') : \E j \in 1..Len(ledger) : ledger'[i] = ledger[j]
    <2>1. n + 1 \in 1..(Len(ledger) + 1)
      BY <1>0, <1>2
    <2>2. /\ Len(ledger') = Len(ledger) - (n + 1) + 1
          /\ \A i \in 1..(Len(ledger) - (n + 1) + 1) : ledger'[i] = ledger[(n + 1) + i - 1]
      BY <1>0, <1>1, <2>1, RestTyped
    <2>3. \A i \in 1..(Len(ledger) - (n + 1) + 1) : (n + 1) + i - 1 \in 1..Len(ledger)
      BY <1>0, <1>2
    <2> QED
      BY <2>2, <2>3
  <1>4. batch'.chan = batch.chan /\ Answered' = Answered \cup SteerRows(n)
    BY <1>0, <1>1 DEF Types, TurnTypes, Batches, Answered
  <1>5. \A r \in SteerRows(n) : chan[r] = batch.chan
    <2> SUFFICES ASSUME NEW r \in SteerRows(n) PROVE chan[r] = batch.chan
      OBVIOUS
    <2>1. PICK i \in 1..n : r \in ledger[i].rows
      BY DEF SteerRows
    <2>2. i \in 1..Len(ledger) /\ pc \in Places \ {"free", "claim", "write"}
      BY <1>0, <1>1, <1>2 DEF Places
    <2> QED
      BY <2>1, <2>2 DEF OneChannel
  <1>6. pc \in Places \ {"free", "claim", "write"}
    BY <1>1 DEF Places
  <1>7. \A i \in 1..Len(ledger') : ledger'[i].chan = batch.chan
    BY <1>3, <1>6 DEF OneChannel
  <1>8. \A i \in 1..Len(ledger') : \A r \in ledger'[i].rows : r <= count /\ chan[r] = ledger'[i].chan
    BY <1>3 DEF OneChannel
  <1>9. \A r \in Answered' : chan[r] = batch.chan
    BY <1>1, <1>4, <1>5 DEF OneChannel
  <1> QED
    BY <1>1, <1>4, <1>7, <1>8, <1>9 DEF OneChannel

LEMMA LoopChannel == ASSUME IInv, Selfless, NoPending, OneChannel, Loop PROVE OneChannel'
  <1>0. batch \in Batches /\ pc \in Places
    BY DEF IInv, Types, TurnTypes
  <1>1. CASE DrainDropped
    BY <1>1, ChannelSame DEF DrainDropped, DrainStart, queue
  <1>2. CASE DrainRuns
    <2>1. pc' = "claim"
      BY <1>2 DEF DrainRuns, DrainStart, Selfless
    <2> QED
      BY <1>2, <2>1, ChannelSame DEF DrainRuns, queue
  <1>3. CASE ReadBegins
    <2>1. batch'.chan = batch.chan /\ Answered' = Answered /\ pc = "written" /\ pc' \in {"read", "finish"}
      BY <1>0, <1>3 DEF ReadBegins, Batches, Answered
    <2> QED
      BY <1>0, <1>3, <2>1, ChannelSame DEF ReadBegins, queue
  <1>4. CASE ReadInit \/ ReadAnswer
    <2>1. batch'.chan = batch.chan /\ batch'.rows = batch.rows /\ batch'.merged = batch.merged
      BY <1>0, <1>4 DEF ReadInit, ReadAnswer, Batches, turn
    <2> QED
      BY <1>4, <2>1, ChannelQuiet DEF ReadInit, ReadAnswer, queue, turn
  <1>5. CASE ReadResult
    <2>1. batch'.chan = batch.chan /\ Answered' = Answered /\ pc = "read" /\ pc' = "finish"
      BY <1>0, <1>5 DEF ReadResult, Reading, Ended, Batches, Answered
    <2> QED
      BY <1>0, <1>5, <2>1, ChannelSame DEF ReadResult, queue
  <1>6. CASE ReadEOF
    <2>1. batch'.chan = batch.chan /\ batch'.rows = batch.rows /\ batch'.merged = batch.merged
      BY <1>0, <1>6 DEF ReadEOF, Ended, Batches
    <2> QED
      BY <1>6, <2>1, ChannelEmptied DEF ReadEOF, Ended, ReleasePending
  <1>7. CASE Finish \/ Count \/ Bounce
    <2>1. batch' = batch /\ pc \in {"finish", "count", "bounce"} /\ pc' \in {"settle", "count", "bouncing"}
          /\ UNCHANGED <<count, chan, ledger>>
      BY <1>7 DEF Finish, Count, Bounce, queue
    <2> QED
      BY <1>0, <2>1, ChannelSame
  <1>8. CASE SettleSkips \/ SettleDone \/ Bounced
    <2>1. pc' = "free" /\ UNCHANGED <<count, chan, ledger>>
      BY <1>8 DEF SettleSkips, SettleDone, Bounced, LoopEnds, Selfless, queue
    <2> QED
      BY <2>1, ChannelSame
  <1>9. CASE SettleFollowon
    <2>1. pc = "settle" /\ pc' = "read" /\ ledger # <<>> /\ UNCHANGED <<count, chan, ledger>>
          /\ batch' = Batch({}, ledger[1].chan, "followon")
      BY <1>9 DEF SettleFollowon, Settles, queue
    <2>2. 1 \in 1..Len(ledger)
      BY <2>1, EmptySeq, LedgerTypes DEF IInv, Types, TurnTypes
    <2>3. batch'.chan = batch.chan /\ Answered' = {}
      BY <1>0, <2>1, <2>2 DEF OneChannel, Batch, Answered
    <2> QED
      BY <1>0, <2>1, <2>3, ChannelSame
  <1>10. CASE SettleSelf
    BY <1>10 DEF SettleSelf, Settles, Selfless
  <1> QED
    BY <1>1, <1>2, <1>3, <1>4, <1>5, <1>6, <1>7, <1>8, <1>9, <1>10, WriteChannel, ReplayChannel DEF Loop

LEMMA SteerWriteChannel == ASSUME IInv, OneChannel, SteerWrite PROVE OneChannel'
  <1> DEFINE e == Line("steer", steering, batch.chan)
  <1>0. Types /\ Kept /\ batch \in Batches /\ ledger \in Seq(Lines) /\ Len(ledger) \in Nat
    BY LedgerTypes DEF IInv, Types, TurnTypes
  <1>1. /\ ledger' = Append(ledger, e) /\ batch' = [batch EXCEPT !.steered = @ + Cardinality(steering)]
        /\ UNCHANGED <<pc, count, chan>> /\ pc = "read" /\ steering # {}
        /\ \A r \in steering : chan[r] = batch.chan
    BY DEF SteerWrite, StillSteerable, Steerable, queue
  <1>2. \A r \in steering : r <= count /\ chan[r] \in Channels
    BY <1>0, OwnersApart
  <1>3. e \in Lines /\ e.rows = steering /\ e.chan = batch.chan
    BY <1>0, <1>1, <1>2 DEF Line, Lines, Types, TurnTypes
  <1> HIDE DEF e
  <1>4. /\ Len(ledger') = Len(ledger) + 1 /\ ledger'[Len(ledger) + 1] = e
        /\ \A i \in 1..Len(ledger) : ledger'[i] = ledger[i]
    BY <1>0, <1>1, <1>3, AppendTyped
  <1>5. \A i \in 1..Len(ledger') : i \in 1..Len(ledger) \/ ledger'[i] = e
    BY <1>0, <1>4
  <1>6. batch'.chan = batch.chan /\ Answered' = Answered
    BY <1>0, <1>1 DEF Batches, Answered
  <1>7. pc \in Places \ {"free", "claim", "write"}
    BY <1>1 DEF Places
  <1>8. \A i \in 1..Len(ledger') : ledger'[i].chan = batch.chan
    BY <1>3, <1>4, <1>5, <1>7 DEF OneChannel
  <1>9. \A i \in 1..Len(ledger') : \A r \in ledger'[i].rows : r <= count /\ chan[r] = ledger'[i].chan
    BY <1>1, <1>2, <1>3, <1>4, <1>5 DEF OneChannel
  <1> QED
    BY <1>1, <1>6, <1>8, <1>9 DEF OneChannel

\* A new row takes a place no line and no turn has.
LEMMA InsertChannel ==
  ASSUME IInv, OneChannel, NEW c \in Channels, NEW p \in BOOLEAN, Insert(c, p),
         UNCHANGED <<ledger, pc>>, batch'.chan = batch.chan,
         batch'.rows = batch.rows, batch'.merged = batch.merged
  PROVE  OneChannel'
  <1>0. Types /\ Kept
    BY DEF IInv
  <1>1. count' = count + 1 /\ count \in Nat
    BY <1>0 DEF Insert, Types, QueueTypes
  <1>2. \A r \in Rows : r \in Nat /\ (r <= count => r <= count' /\ chan'[r] = chan[r])
    <2>1. \A r \in Rows : r # count + 1 => chan'[r] = chan[r]
      BY <1>0 DEF Insert, Types, QueueTypes
    <2>2. \A r \in Rows : r \in Nat
      BY RowsFinite
    <2> QED
      BY <1>1, <2>1, <2>2
  <1>3. \A i \in 1..Len(ledger) : ledger[i].rows \subseteq Rows
    BY <1>0, LedgerTypes DEF Types
  <1>4. pc \in {"write", "written", "read", "finish"} => \A r \in Answered : r \in Rows /\ r <= count
    BY <1>0, OwnersApart DEF TurnRows
  <1>5. Answered' = Answered
    BY DEF Answered
  <1>6. \A i \in 1..Len(ledger) : \A r \in ledger[i].rows : r <= count' /\ chan'[r] = ledger[i].chan
    BY <1>2, <1>3 DEF OneChannel
  <1>7. pc \in {"write", "written", "read", "finish"} => \A r \in Answered : chan'[r] = batch.chan
    BY <1>2, <1>4 DEF OneChannel
  <1> QED
    BY <1>5, <1>6, <1>7 DEF OneChannel

LEMMA NextChannel == ASSUME IInv, Selfless, NoPending, OneChannel, [Next]_vars PROVE OneChannel'
  <1>0. batch \in Batches /\ pc \in Places
    BY DEF IInv, Types, TurnTypes
  <1>1. CASE HoldWake \/ Redrain \/ Cli \/ Flush \/ UNCHANGED vars
    <2>1. UNCHANGED <<count, chan, ledger, pc, batch>>
      BY <1>1
      DEF HoldWake, Redrain, Cli, CliStart, CliMerge, CliSelf, CliResult, CliControl, Consume, Flush, vars,
          queue, turn
    <2> QED
      BY <2>1, ChannelQuiet
  <1>2. CASE ControlTimeout \/ Die \/ Start \/ Reload \/ Kill \/ Interrupt
    <2>1. UNCHANGED <<count, chan, ledger, pc, batch>>
      BY <1>2 DEF ControlTimeout, Die, Start, Reload, Kill, Interrupt, queue, turn
    <2> QED
      BY <2>1, ChannelQuiet
  <1>3. CASE FollowonTimeout
    BY <1>0, <1>3, ChannelSame DEF FollowonTimeout, queue
  <1>4. CASE SteerClaim \/ SteerGivenBack
    BY <1>4, ChannelQuiet DEF SteerClaim, SteerGivenBack, turn
  <1>5. CASE Watcher \/ KillEnds
    BY <1>5, ChannelEmptied DEF Watcher, KillEnds, ReleasePending, turn
  <1>6. ASSUME NEW c \in Channels, Enqueue(c) PROVE OneChannel'
    BY <1>6, InsertChannel DEF Enqueue, turn
  <1>7. ASSUME NEW c \in Channels, InterruptMessage(c) PROVE OneChannel'
    <2>1. batch'.chan = batch.chan /\ batch'.rows = batch.rows /\ batch'.merged = batch.merged
      BY <1>0, <1>7 DEF InterruptMessage, Batches
    <2> QED
      BY <1>7, <2>1, InsertChannel DEF InterruptMessage
  <1> QED
    BY <1>1, <1>2, <1>3, <1>4, <1>5, <1>6, <1>7, LoopChannel, SteerWriteChannel
    DEF Next, Arrival, Lifecycle, Operator, SteerTask

\* Every answer is posted in the channel its rows came from, through steering,
\* follow-on turns, deaths, respawns and walls, where no turn starts by itself.
THEOREM Channel == Quiet => (Spec => []AnsweredWhereAsked)
  <1> SUFFICES ASSUME Quiet PROVE Spec => []AnsweredWhereAsked
    OBVIOUS
  <1>1. Init => ChanInv
    <2> SUFFICES ASSUME Init PROVE ChanInv
      OBVIOUS
    <2>1. Selfless /\ NoPending
      BY DEF Init, Selfless, NoneAnnounced, NoPending, Batch
    <2>2. OneChannel
      BY DEF Init, OneChannel
    <2> QED
      BY <2>1, <2>2 DEF ChanInv
  <1>2. IInv /\ ChanInv /\ [Next]_vars => ChanInv'
    BY NextSelfless, NextPending, NextChannel DEF ChanInv, IInv
  <1>3. ChanInv => AnsweredWhereAsked
    BY DEF ChanInv, OneChannel, AnsweredWhereAsked
  <1> QED
    BY <1>1, <1>2, <1>3, Inductive, PTL DEF Spec

-----------------------------------------------------------------------------
(* Rest, where besides no operator restarts the process: what a reload or an *)
(* interrupt releases waits for the next message.                            *)

Undisturbed == MaxOps = 0 \/ OpKinds \subseteq {"kill", "flush"}

\* No process, or one that the watcher brings back with a drain, or never.
Gone == proc = "none" \/ op = "killonly" \/ (proc = "dead" /\ (Steering \/ gaveup))

\* What the agent's state and the process tell of each other.
Resting ==
    /\ waiter = 0
    /\ op \in {"kill", "start"} => pc = "bouncing"
    /\ op # "none" => proc # "alive"
    /\ gaveup => proc = "dead" /\ pc \notin {"bounce", "bouncing"}
    /\ pc = "bouncing" /\ op \notin {"kill", "start"} => agent = "IDLE"
    /\ pc \in {"claim", "write"} => agent = "IDLE"
    /\ agent = "ERROR_RECOVERY" =>
         pc \in {"settle", "free"} /\ proc # "alive" /\ (redrain \/ gaveup \/ proc = "none")
    /\ pc = "free" /\ agent = "PROCESSING" => Gone
    /\ pc \in {"finish", "count", "settle"} /\ agent = "PROCESSING" => ledger # <<>> \/ proc = "none"

\* Somebody will look at a row that waits: a drain, the redrain, the steer task, the
\* turn that will recount, the CLI's next turn or the watcher.
Attended ==
    Queued # {} /\ ~AnyHeld =>
        \/ drains > 0 \/ redrain \/ steering # {} \/ pc \notin {"settle", "free"}
        \/ ledger # <<>> \/ Gone

LEMMA SpawnedDrains == ASSUME Types PROVE Spawned > 0 /\ Spawned \in Nat /\ drains \in Nat
  BY TurnLoopAssumption DEF Spawned, Types, TurnTypes

LEMMA Requests ==
  ASSUME Types, Undisturbed
  PROVE  ~Reload /\ ~Interrupt /\ \A c \in Channels : ~InterruptMessage(c)
  <1>1. \A kind : Request(kind) => kind \in {"kill", "flush"}
    <2>1. ops < MaxOps => MaxOps # 0
      BY TurnLoopAssumption DEF Types, BoundTypes
    <2> QED
      BY <2>1 DEF Undisturbed, Request
  <1>2. "reload" \notin {"kill", "flush"} /\ "interrupt" \notin {"kill", "flush"} /\ "message" \notin {"kill", "flush"}
    OBVIOUS
  <1> QED
    BY <1>1, <1>2 DEF Reload, Interrupt, InterruptMessage

LEMMA RestingSame ==
  ASSUME Resting, UNCHANGED <<waiter, op, proc, gaveup, pc, agent, redrain>>,
         ledger' = ledger \/ pc = "read"
  PROVE  Resting'
  BY DEF Resting, Gone

LEMMA LoopResting == ASSUME Types, Selfless, NoPending, Resting, Loop PROVE Resting'
  <1>1. CASE DrainDropped \/ ReadInit \/ ReadReplay
    BY <1>1, RestingSame DEF DrainDropped, DrainStart, ReadInit, ReadReplay, Reading, waits, process
  <1>2. CASE DrainRuns
    <2>1. ~(bgseen /\ Steering)
      BY DEF Selfless
    <2>2. pc = "free" /\ pc' = "claim" /\ agent = "IDLE" /\ UNCHANGED <<waiter, op, proc, gaveup, agent, redrain, ledger>>
      BY <1>2, <2>1 DEF DrainRuns, DrainStart, MustNotDrain, waits, process
    <2> QED
      BY <2>2 DEF Resting
  <1>3. CASE Claim
    BY <1>3 DEF Claim, Resting, waits, process
  <1>4. CASE WriteLands \/ ReadBegins
    BY <1>4 DEF WriteLands, ReadBegins, Resting, waits, process
  <1>5. CASE WriteFails
    BY <1>5 DEF WriteFails, Resting, process
  <1>6. CASE ReadAnswer
    <2>1. waiter' = 0 /\ UNCHANGED <<op, proc, gaveup, pc, agent, redrain, ledger>>
      BY <1>6 DEF ReadAnswer, Resting, turn, process
    <2> QED
      BY <2>1, RestingSame DEF Resting
  <1>7. CASE ReadResult
    <2>1. Steering => ~Head(Stream).bg
      BY <1>7, RestAnnounces DEF ReadResult, Reading, Selfless
    <2>2. pc = "read" /\ pc' = "finish" /\ UNCHANGED <<waiter, op, proc, gaveup, redrain, ledger>>
          /\ (agent' = "IDLE" \/ (agent' = agent /\ ledger # <<>>))
      BY <1>7, <2>1 DEF ReadResult, Reading, Ended, waits, process
    <2> QED
      BY <2>2 DEF Resting
  <1>8. CASE ReadEOF
    BY <1>8 DEF ReadEOF, Ended, Resting, waits, process
  <1>9. CASE Finish \/ Count
    BY <1>9 DEF Finish, Count, Resting, waits, process
  <1>10. CASE SettleSkips
    <2>1. pc = "settle" /\ pc' = "free" /\ UNCHANGED <<agent, ledger, waiter, op, proc, gaveup, redrain>>
          /\ (~Steering \/ proc # "alive") /\ proc \in {"none", "alive", "dead"}
          /\ agent \in {"IDLE", "PROCESSING", "ERROR_RECOVERY"}
      BY <1>10 DEF SettleSkips, LoopEnds, Selfless, waits, process, Types, ProcessTypes, TurnTypes
    <2>2. agent = "PROCESSING" => Gone'
      BY <2>1 DEF Resting, NoPending, Gone
    <2> QED
      BY <2>1, <2>2 DEF Resting
  <1>11. CASE SettleFollowon
    BY <1>11 DEF SettleFollowon, Settles, Resting, waits, process
  <1>12. CASE SettleSelf
    BY <1>12 DEF SettleSelf, Settles, Selfless
  <1>13. CASE SettleDone
    <2>1. pc = "settle" /\ pc' = "free" /\ proc = "alive" /\ agent' # "PROCESSING"
          /\ (agent' = "ERROR_RECOVERY" => agent = "ERROR_RECOVERY")
          /\ UNCHANGED <<waiter, op, proc, gaveup, redrain>>
      BY <1>13 DEF SettleDone, Settles, LoopEnds, Selfless, waits, process
    <2> QED
      BY <2>1 DEF Resting
  <1>14. CASE Bounce
    BY <1>14 DEF Bounce, KillBegins, Resting, waits, Gone
  <1>15. CASE Bounced
    <2>1. pc = "bouncing" /\ pc' = "free" /\ op = "none" /\ UNCHANGED <<agent, waiter, op, proc, gaveup, redrain>>
      BY <1>15 DEF Bounced, LoopEnds, Selfless, waits, process
    <2> QED
      BY <2>1 DEF Resting
  <1> QED
    BY <1>1, <1>2, <1>3, <1>4, <1>5, <1>6, <1>7, <1>8, <1>9, <1>10, <1>11, <1>12, <1>13, <1>14, <1>15 DEF Loop

LEMMA NextResting ==
  ASSUME Types, Undisturbed, Selfless, NoPending, Resting, [Next]_vars PROVE Resting'
  <1>1. CASE Arrival \/ HoldWake \/ Cli \/ Flush \/ SteerTask \/ UNCHANGED vars
    <2>1. UNCHANGED <<waiter, op, proc, gaveup, pc, agent, redrain>>
      BY <1>1
      DEF Arrival, Enqueue, HoldWake, Cli, CliStart, CliMerge, CliSelf, CliResult, CliControl, Consume,
          Flush, SteerTask, SteerClaim, SteerWrite, SteerGivenBack, vars, turn, waits, process
    <2>2. ledger' = ledger \/ pc = "read"
      BY <1>1
      DEF Arrival, Enqueue, HoldWake, Cli, CliStart, CliMerge, CliSelf, CliResult, CliControl, Consume,
          Flush, SteerTask, SteerClaim, SteerWrite, StillSteerable, Steerable, SteerGivenBack, vars
    <2> QED
      BY <2>1, <2>2, RestingSame
  <1>2. CASE Redrain
    BY <1>2 DEF Redrain, Resting, Gone, turn, process
  <1>3. CASE FollowonTimeout
    BY <1>3 DEF FollowonTimeout, Resting, waits, process
  <1>4. CASE ControlTimeout
    BY <1>4 DEF ControlTimeout, Resting
  <1>5. CASE Die
    <2>1. proc = "alive" /\ proc' = "dead" /\ UNCHANGED <<waiter, op, gaveup, pc, agent, redrain, ledger>>
      BY <1>5 DEF Die, turn, waits
    <2> QED
      BY <2>1 DEF Resting, Gone
  <1>6. CASE Watcher
    <2>1. /\ pc = "free" /\ proc = "dead" /\ op = "none" /\ UNCHANGED <<waiter, op, pc, redrain>>
          /\ \/ gaveup' /\ proc' = "dead" /\ agent' = agent
             \/ proc' = "alive" /\ agent' = "IDLE" /\ ~gaveup'
      BY <1>6 DEF Watcher, turn, waits
    <2> QED
      BY <2>1 DEF Resting, Gone
  <1>7. CASE KillEnds
    <2>1. proc' = "none" /\ ~gaveup' /\ (op' = "start" => op = "kill") /\ op' \in {"start", "none"}
          /\ op \in {"kill", "killonly"} /\ (op = "kill" => op' = "start")
          /\ UNCHANGED <<waiter, pc, agent, redrain>>
      BY <1>7 DEF KillEnds, turn, waits
    <2> QED
      BY <2>1 DEF Resting, Gone
  <1>8. CASE Start
    BY <1>8 DEF Start, Resting, Gone, turn, waits, cli
  <1>9. CASE Kill
    <2>1. op = "none" /\ op' \in {"none", "killonly"} /\ (op' = "none" => proc = "none")
          /\ proc' = (IF proc = "alive" THEN "dead" ELSE proc)
          /\ UNCHANGED <<waiter, pc, agent, redrain, ledger, gaveup>>
      BY <1>9 DEF Kill, KillBegins, turn, waits
    <2> QED
      BY <2>1 DEF Resting, Gone
  <1> QED
    BY <1>1, <1>2, <1>3, <1>4, <1>5, <1>6, <1>7, <1>8, <1>9, LoopResting, Requests
    DEF Next, Lifecycle, Operator

LEMMA AttendedSame ==
  ASSUME Types, Attended, drains' \in Nat, drains' >= drains,
         UNCHANGED <<status, held, redrain, pc, ledger, proc, op, gaveup, steering>>
  PROVE  Attended'
  <1>1. Queued' = Queued /\ AnyHeld' = AnyHeld /\ Gone' = Gone
    BY DEF Queued, AnyHeld, Gone
  <1> QED
    BY <1>1, SpawnedDrains DEF Attended

\* What is enough for a waiting row to be attended to.
LEMMA AttendedBy ==
  ASSUME \/ drains' \in Nat /\ drains' > 0
         \/ redrain' \/ steering' # {} \/ pc' \notin {"settle", "free"} \/ ledger' # <<>> \/ Gone'
         \/ Queued' = {} \/ AnyHeld'
  PROVE  Attended'
  BY DEF Attended

LEMMA Busy ==
  ASSUME Types, Resting, agent # "IDLE"
  PROVE  redrain \/ pc \notin {"settle", "free"} \/ ledger # <<>> \/ Gone
  <1>1. agent \in {"PROCESSING", "ERROR_RECOVERY"}
    BY DEF Types, TurnTypes
  <1>2. CASE agent = "PROCESSING"
    BY <1>2 DEF Resting, Gone
  <1>3. CASE agent = "ERROR_RECOVERY"
    BY <1>3 DEF Resting, Gone
  <1> QED
    BY <1>1, <1>2, <1>3

LEMMA ArrivalAttended == ASSUME Types, Resting, Attended, Arrival \/ HoldWake PROVE Attended'
  <1>1. ASSUME NEW c \in Channels, Enqueue(c) PROVE Attended'
    <2>1. CASE agent = "IDLE"
      <3>1. drains' \in Nat /\ drains' > 0
        BY <1>1, <2>1, SpawnedDrains DEF Enqueue, Notify
      <3> QED
        BY <3>1, AttendedBy
    <2>2. CASE agent # "IDLE"
      <3>1. redrain' = redrain /\ pc' = pc /\ ledger' = ledger /\ Gone' = Gone
        BY <1>1 DEF Enqueue, turn, waits, process, Gone
      <3> QED
        BY <2>2, <3>1, Busy, AttendedBy
    <2> QED
      BY <2>1, <2>2
  <1>2. CASE HoldWake
    BY <1>2, SpawnedDrains, AttendedBy DEF HoldWake
  <1> QED
    BY <1>1, <1>2 DEF Arrival

LEMMA LoopAttended == ASSUME Types, Selfless, NoPending, Resting, Attended, Loop PROVE Attended'
  <1>1. CASE DrainDropped
    <2>1. UNCHANGED <<redrain, pc, ledger>> /\ Gone' = Gone /\ AnyHeld' = AnyHeld
      BY <1>1 DEF DrainDropped, DrainStart, queue, waits, process, Gone, AnyHeld, Queued
    <2>2. agent # "IDLE" \/ AnyHeld \/ Gone
      BY <1>1 DEF DrainDropped, MustNotDrain, Gone
    <2> QED
      BY <2>1, <2>2, Busy, AttendedBy
  <1>2. CASE DrainRuns \/ WriteLands \/ ReadBegins \/ SettleFollowon \/ Bounce
    <2>1. pc' \notin {"settle", "free"}
      BY <1>2 DEF DrainRuns, DrainStart, WriteLands, ReadBegins, SettleFollowon, Bounce
    <2> QED
      BY <2>1, AttendedBy
  <1>3. CASE Claim
    <2>1. pc' = "write" \/ Queued' = {}
      BY <1>3 DEF Claim, Queued
    <2> QED
      BY <2>1, AttendedBy
  <1>4. CASE WriteFails
    BY <1>4, AttendedBy DEF WriteFails
  <1>5. CASE ReadInit \/ ReadReplay \/ ReadAnswer \/ ReadResult \/ ReadEOF
    <2>1. pc' \in {"read", "finish"}
      BY <1>5 DEF ReadInit, ReadReplay, ReadAnswer, ReadResult, ReadEOF, Reading, Ended, turn
    <2> QED
      BY <2>1, AttendedBy
  <1>6. CASE Finish
    <2>1. CASE Verdict # "held"
      BY <1>6, <2>1, AttendedBy DEF Finish
    <2>2. CASE Verdict = "held"
      <3>1. PICK r \in Answered : TRUE
        BY <2>2 DEF Verdict
      <3>2. r \in Rows
        BY DEF Answered, Types, TurnTypes, Batches
      <3>3. status'[r] = "queued" /\ held'[r]
        BY <1>6, <2>2, <3>1, <3>2 DEF Finish, SetStatus
      <3>4. AnyHeld'
        BY <3>2, <3>3 DEF AnyHeld, Queued
      <3> QED
        BY <3>4, AttendedBy
    <2> QED
      BY <2>1, <2>2
  <1>7. CASE Count
    <2>1. CASE Queued = {}
      <3>1. Queued' = {}
        BY <1>7, <2>1 DEF Count, Queued, queue
      <3> QED
        BY <3>1, AttendedBy
    <2>2. CASE Queued # {}
      BY <1>7, <2>2, SpawnedDrains, AttendedBy DEF Count, Recount
    <2> QED
      BY <2>1, <2>2
  <1>8. CASE SettleSkips \/ SettleDone
    <2>1. /\ pc = "settle" /\ UNCHANGED <<drains, redrain, steering>>
          /\ Queued' = Queued /\ AnyHeld' = AnyHeld /\ Gone' = Gone
      BY <1>8 DEF SettleSkips, SettleDone, Settles, queue, waits, steer, process, Queued, AnyHeld, Gone
    <2>2. ledger # <<>> => Gone
      <3>1. CASE SettleDone
        BY <3>1 DEF SettleDone
      <3>2. CASE SettleSkips
        <4>1. proc \in {"none", "alive", "dead"} /\ (~Steering \/ proc # "alive")
          BY <3>2 DEF SettleSkips, Types, ProcessTypes
        <4> QED
          BY <4>1 DEF NoPending, Gone
      <3> QED
        BY <1>8, <3>1, <3>2
    <2> QED
      BY <2>1, <2>2 DEF Attended
  <1>9. CASE SettleSelf
    BY <1>9 DEF SettleSelf, Settles, Selfless
  <1>10. CASE Bounced
    BY <1>10, SpawnedDrains, AttendedBy DEF Bounced
  <1> QED
    BY <1>1, <1>2, <1>3, <1>4, <1>5, <1>6, <1>7, <1>8, <1>9, <1>10 DEF Loop

LEMMA SteerAttended == ASSUME Types, Attended, SteerTask PROVE Attended'
  <1>1. CASE SteerClaim
    <2>1. CASE steering' # {}
      BY <2>1, AttendedBy
    <2>2. CASE steering' = {}
      <3>1. status' = status
        BY <1>1, <2>2 DEF SteerClaim, SetStatus, Types, QueueTypes
      <3>2. UNCHANGED <<drains, held, redrain, pc, ledger, proc, op, gaveup, steering>>
        BY <1>1, <2>2 DEF SteerClaim, turn, waits, process
      <3>3. drains' \in Nat /\ drains' >= drains
        BY <3>2, SpawnedDrains
      <3> QED
        BY <3>1, <3>2, <3>3, AttendedSame
    <2> QED
      BY <2>1, <2>2
  <1>2. CASE SteerWrite
    <2>1. pc' = "read"
      BY <1>2 DEF SteerWrite, StillSteerable, Steerable
    <2> QED
      BY <2>1, AttendedBy
  <1>3. CASE SteerGivenBack
    <2>1. pc' = "read" \/ drains' = Spawned
      BY <1>3 DEF SteerGivenBack, turn
    <2> QED
      BY <2>1, SpawnedDrains, AttendedBy
  <1> QED
    BY <1>1, <1>2, <1>3 DEF SteerTask

LEMMA LifeAttended ==
  ASSUME Types, NoPending, Resting, Attended, Lifecycle \/ Die \/ Kill \/ Redrain PROVE Attended'
  <1>1. CASE Watcher
    <2>1. /\ pc = "free" /\ proc = "dead" /\ op = "none" /\ ~gaveup /\ pc' = pc /\ op' = op
          /\ UNCHANGED <<redrain, steering, held>>
      BY <1>1 DEF Watcher, ReleasePending, turn, waits, steer
    <2>2. CASE deaths > RespawnMax
      <3>1. Gone'
        BY <1>1, <2>1, <2>2 DEF Watcher, Gone
      <3> QED
        BY <3>1, AttendedBy
    <2>3. CASE ~(deaths > RespawnMax) /\ Steering
      BY <1>1, <2>3, SpawnedDrains, AttendedBy DEF Watcher, AfterRespawn
    <2>4. CASE ~(deaths > RespawnMax) /\ ~Steering
      <3>1. ledger = <<>> /\ ~Gone /\ drains' = drains
        BY <1>1, <2>1, <2>4 DEF Watcher, AfterRespawn, NoPending, Gone
      <3>2. SteerRows(Len(ledger)) = {}
        BY <3>1, EmptySeq DEF SteerRows
      <3>3. status' = status
        BY <1>1, <3>2 DEF Watcher, ReleasePending, SetStatus, Types, QueueTypes
      <3>4. Queued' = Queued /\ AnyHeld' = AnyHeld
        BY <2>1, <3>3 DEF Queued, AnyHeld
      <3> QED
        BY <2>1, <3>1, <3>4 DEF Attended
    <2> QED
      BY <2>2, <2>3, <2>4
  <1>2. CASE KillEnds
    <2>1. Gone'
      BY <1>2 DEF KillEnds, Gone
    <2> QED
      BY <2>1, AttendedBy
  <1>3. CASE Start
    <2>1. pc' = "bouncing"
      BY <1>3 DEF Start, Resting, turn
    <2> QED
      BY <2>1, AttendedBy
  <1>4. CASE Die
    <2>1. UNCHANGED <<drains, redrain, steering, pc, ledger>> /\ Queued' = Queued /\ AnyHeld' = AnyHeld
          /\ (Gone => Gone')
      BY <1>4 DEF Die, queue, turn, waits, steer, Queued, AnyHeld, Gone
    <2> QED
      BY <2>1 DEF Attended
  <1>5. CASE Kill
    <2>1. proc \in {"none", "alive", "dead"}
      BY DEF Types, ProcessTypes
    <2>2. Gone'
      BY <1>5, <2>1 DEF Kill, KillBegins, Gone
    <2> QED
      BY <2>2, AttendedBy
  <1>6. CASE Redrain
    <2>1. CASE proc = "alive"
      BY <1>6, <2>1, SpawnedDrains, AttendedBy DEF Redrain
    <2>2. CASE proc # "alive"
      <3>1. Gone'
        BY <1>6, <2>2 DEF Redrain, process, Resting, Gone
      <3> QED
        BY <3>1, AttendedBy
    <2> QED
      BY <2>1, <2>2
  <1> QED
    BY <1>1, <1>2, <1>3, <1>4, <1>5, <1>6 DEF Lifecycle

LEMMA NextAttended ==
  ASSUME Types, Undisturbed, Selfless, NoPending, Resting, Attended, [Next]_vars PROVE Attended'
  <1>1. CASE Cli \/ UNCHANGED vars
    <2>1. UNCHANGED <<status, held, redrain, pc, ledger, proc, op, gaveup, steering, drains>>
      BY <1>1
      DEF Cli, CliStart, CliMerge, CliSelf, CliResult, CliControl, Consume, vars, queue, turn, waits,
          steer, process
    <2>2. drains' \in Nat /\ drains' >= drains
      BY <2>1, SpawnedDrains
    <2> QED
      BY <2>1, <2>2, AttendedSame
  <1>2. CASE FollowonTimeout
    BY <1>2, AttendedBy DEF FollowonTimeout
  <1>3. CASE ControlTimeout
    BY <1>3 DEF ControlTimeout, Resting
  <1>4. CASE Flush
    <2>1. Queued' = {}
      BY <1>4 DEF Flush, SetStatus, Queued
    <2> QED
      BY <2>1, AttendedBy
  <1> QED
    BY <1>1, <1>2, <1>3, <1>4, ArrivalAttended, LoopAttended, SteerAttended, LifeAttended, Requests
    DEF Next, Operator

\* When the shard comes to rest no row waits, whatever deaths, walls, errors, holds,
\* kills and flushes came before, where no turn starts by itself and no operator
\* reloads or interrupts.
THEOREM NoneLeft == Quiet /\ Undisturbed => (Spec => []NoneStranded)
  <1> SUFFICES ASSUME Quiet, Undisturbed PROVE Spec => []NoneStranded
    OBVIOUS
  <1> DEFINE RestInv == Selfless /\ NoPending /\ Resting /\ Attended
  <1>1. Init => RestInv
    <2> SUFFICES ASSUME Init PROVE RestInv
      OBVIOUS
    <2>1. Selfless /\ NoPending
      BY DEF Init, Selfless, NoneAnnounced, NoPending, Batch
    <2>2. Resting
      BY DEF Init, Resting
    <2>3. Attended
      <3>1. Queued = {}
        BY DEF Init, Queued
      <3> QED
        BY <3>1 DEF Attended
    <2> QED
      BY <2>1, <2>2, <2>3
  <1>2. IInv /\ RestInv /\ [Next]_vars => RestInv'
    BY NextSelfless, NextPending, NextResting, NextAttended DEF IInv
  <1>3. IInv /\ RestInv => NoneStranded
    <2> SUFFICES ASSUME IInv, RestInv, AtRest, Queued # {} PROVE FALSE
      BY DEF NoneStranded
    <2>1. ~Gone /\ ledger = <<>>
      BY DEF AtRest, Gone, NoPending
    <2> QED
      BY <2>1 DEF AtRest, Attended
  <1> HIDE DEF RestInv
  <1> QED
    BY <1>1, <1>2, <1>3, Inductive, PTL DEF Spec
-----------------------------------------------------------------------------
(* A completed row was consumed                                              *)

\* Nobody but the loop touches the process: an operator flushes at most.
Unasked == MaxOps = 0 \/ OpKinds \subseteq {"flush"}

\* Then no turn is cut short, the reader never keeps a killed pipe, and only a bounce
\* kills.  A process that is not alive has no lines before it; one that is gone has left
\* none behind.
Plain ==
    /\ ~flag /\ waiter = 0 /\ control = 0 /\ attached = "cur" /\ tail = <<>> /\ ~bgtask
    /\ batch.origin # "self"
    /\ op \in {"none", "kill", "start"} /\ (op # "none" => pc = "bouncing")
    /\ proc # "alive" => inq = <<>> /\ ~running
    /\ proc = "none" => out = <<>> /\ op = "start"
    /\ op # "none" => proc # "alive"
    /\ gaveup => proc = "dead" /\ pc = "free"

IsReplay(i) == out[i].t = "replay"
IsResult(i) == out[i].t = "result"

\* ... and stdout holds replays of some lines and results only.
OutPlain == \A i \in 1..Len(out) : (IsReplay(i) /\ out[i].texts # <<>>) \/ IsResult(i)

\* The lines the unread replays stand for are the ledger's, in its order: replay i stands
\* for those after p[i], and what the CLI has not consumed is the rest.
Spots == 1..(Len(out) + 1)
Stands(p) ==
    /\ p[1] = 0
    /\ \A i, j \in Spots : i <= j => p[i] <= p[j]
    /\ \A i \in 1..Len(out) :
         IF IsReplay(i)
         THEN /\ p[i + 1] = p[i] + Len(out[i].texts)
              /\ \A k \in 1..Len(out[i].texts) : ledger[p[i] + k].rows = out[i].texts[k]
         ELSE p[i + 1] = p[i]
    /\ proc = "alive" =>
         /\ Len(ledger) = p[Len(out) + 1] + Len(inq)
         /\ \A k \in 1..Len(inq) : ledger[p[Len(out) + 1] + k].rows = inq[k]
InStep == gaveup \/ \E p \in [Spots -> 0..Len(ledger)] : Stands(p)

\* The line of a turn's own rows is the first, and on it from the write on.
PrimaryFirst ==
    /\ \A i \in 1..Len(ledger) : ledger[i].kind = "primary" => i = 1
    /\ pc = "written" => ledger # <<>> /\ ledger[1].kind = "primary"

\* The turn being read has begun: its first replay was read.
InTurn == pc = "read" /\ ~batch.awaiting /\ (ledger = <<>> \/ ledger[1].kind # "primary")

\* A turn of the CLI begins with a replay: there is one between two results, one before
\* the first result unless the reader has it, and one after the last result while the CLI
\* runs.
Framed ==
    /\ \A i, j \in 1..Len(out) : i < j /\ IsResult(i) /\ IsResult(j) =>
         \E k \in (i + 1)..(j - 1) : IsReplay(k)
    /\ ~InTurn /\ out # <<>> => IsReplay(1)
    /\ running =>
         \/ \E k \in 1..Len(out) : IsReplay(k) /\ \A j \in (k + 1)..Len(out) : ~IsResult(j)
         \/ InTurn /\ \A j \in 1..Len(out) : ~IsResult(j)

\* The rows S are among what the first result after place m says was consumed, or, without
\* one, among what the CLI has consumed in its turn.
EatenAfter(m, S) ==
    /\ \A i \in (m + 1)..Len(out) :
         IsResult(i) /\ (\A j \in (m + 1)..(i - 1) : ~IsResult(j)) => S \subseteq out[i].ate
    /\ proc = "alive" /\ (\A j \in (m + 1)..Len(out) : ~IsResult(j)) => S \subseteq ate

\* What was replayed is consumed in the turn the next result ends; what the reader has of
\* it is the turn's.
ReplaysEaten ==
    \A i \in 1..Len(out) : IsReplay(i) =>
        \A k \in 1..Len(out[i].texts) : EatenAfter(i, out[i].texts[k])
RowsEaten ==
    \/ EatenAfter(0, batch.rows)
    \/ out = <<>> /\ ~running /\ inq # <<>> /\ inq[1] = batch.rows
Consumed ==
    /\ ReplaysEaten
    /\ pc = "read" => EatenAfter(0, batch.merged)
    /\ pc \in {"written", "read"} => RowsEaten
    /\ pc = "finish" => batch.result = "died" \/ Answered \subseteq batch.ate

FlowInv == Plain /\ OutPlain /\ InStep /\ PrimaryFirst /\ Framed /\ Consumed

\* A stream of lines that loses its first or gains a last one.
LEMMA OutTyped ==
  ASSUME Types
  PROVE  out \in Seq(Events) /\ Len(out) \in Nat /\ Spots \subseteq Nat
  BY LenProperties DEF Types, CliTypes, Spots

LEMMA OutTail ==
  ASSUME Types, out # <<>>, out' = Tail(out)
  PROVE  /\ Len(out) \in Nat /\ Len(out) > 0 /\ Len(out') = Len(out) - 1
         /\ \A i \in 1..Len(out') : i + 1 \in 1..Len(out) /\ out'[i] = out[i + 1]
         /\ Head(out) = out[1]
  <1>1. out \in Seq(Events)
    BY DEF Types, CliTypes
  <1> QED
    BY <1>1, HeadTailProperties, EmptySeq, LenProperties

LEMMA OutAppend ==
  ASSUME Types, NEW e \in Events, out' = Append(out, e)
  PROVE  /\ Len(out) \in Nat /\ Len(out') = Len(out) + 1
         /\ \A i \in 1..Len(out) : out'[i] = out[i]
         /\ out'[Len(out) + 1] = e
  <1>1. out \in Seq(Events)
    BY DEF Types, CliTypes
  <1> QED
    BY <1>1, AppendTyped, LenProperties

\* The conjuncts of FlowInv, kept by a step that leaves their part of the state alone.
LEMMA InStepSame ==
  ASSUME InStep, UNCHANGED <<out, ledger, gaveup>>, proc' = "alive" => proc = "alive" /\ inq' = inq
  PROVE  InStep'
  BY DEF InStep, Stands, Spots, IsReplay

LEMMA InStepEmptied ==
  ASSUME out' = <<>>, ledger' = <<>>, proc' = "alive" => inq' = <<>>
  PROVE  InStep'
  <1>1. Len(out') = 0 /\ Len(ledger') = 0 /\ Spots' = {1}
    BY DEF Spots
  <1> DEFINE p == [i \in {1} |-> 0]
  <1>2. p \in [Spots' -> 0..Len(ledger')]
    BY <1>1
  <1>3. Stands(p)'
    BY <1>1 DEF Stands
  <1> QED
    BY <1>2, <1>3 DEF InStep

LEMMA FramedSame ==
  ASSUME Framed, UNCHANGED out, running' => running, InTurn => InTurn'
  PROVE  Framed'
  BY DEF Framed, IsReplay, IsResult

LEMMA EatenSame ==
  ASSUME UNCHANGED out, proc' = "alive" => proc = "alive" /\ ate \subseteq ate',
         NEW m, NEW S, EatenAfter(m, S)
  PROVE  EatenAfter(m, S)'
  BY DEF EatenAfter, IsResult

LEMMA EatenTail ==
  ASSUME Types, out # <<>>, out' = Tail(out), UNCHANGED <<proc, ate>>,
         NEW m \in 1..Len(out), NEW S, EatenAfter(m, S)
  PROVE  EatenAfter(m - 1, S)'
  <1>1. /\ Len(out) \in Nat /\ Len(out) > 0 /\ Len(out') = Len(out) - 1
        /\ \A i \in 1..Len(out') : i + 1 \in 1..Len(out) /\ out'[i] = out[i + 1]
    BY OutTail
  <1>2. \A i \in m..Len(out') : i + 1 \in (m + 1)..Len(out) /\ (out'[i].t = "result" <=> IsResult(i + 1))
    BY <1>1 DEF IsResult
  <1>3. \A j \in (m + 1)..Len(out) : j - 1 \in m..Len(out') /\ (j - 1) + 1 = j
    BY <1>1
  <1>4. ASSUME NEW i \in m..Len(out'), out'[i].t = "result", \A j \in m..(i - 1) : out'[j].t # "result"
        PROVE  S \subseteq out'[i].ate
    <2>1. \A j \in (m + 1)..i : ~IsResult(j)
      <3> SUFFICES ASSUME NEW j \in (m + 1)..i PROVE ~IsResult(j)
        OBVIOUS
      <3>1. j - 1 \in m..(i - 1) /\ j - 1 \in m..Len(out') /\ (j - 1) + 1 = j
        BY <1>1
      <3> QED
        BY <1>2, <1>4, <3>1
    <2>2. i + 1 \in (m + 1)..Len(out) /\ IsResult(i + 1) /\ (i + 1) - 1 = i /\ out'[i] = out[i + 1]
      BY <1>1, <1>2, <1>4
    <2> QED
      BY <2>1, <2>2 DEF EatenAfter
  <1>5. ASSUME proc' = "alive", \A j \in m..Len(out') : out'[j].t # "result" PROVE S \subseteq ate'
    <2>1. \A j \in (m + 1)..Len(out) : ~IsResult(j)
      BY <1>2, <1>3, <1>5
    <2> QED
      BY <1>5, <2>1 DEF EatenAfter
  <1>6. (m - 1) + 1 = m
    OBVIOUS
  <1> QED
    BY <1>4, <1>5, <1>6 DEF EatenAfter, IsResult

\* Before a result, the first result after a place is the first after the next one.
LEMMA EatenNext ==
  ASSUME Types, NEW m \in 0..Len(out), m < Len(out), ~IsResult(m + 1), NEW S, EatenAfter(m, S)
  PROVE  EatenAfter(m + 1, S)
  <1>1. Len(out) \in Nat
    BY OutTyped
  <1>2. \A i : \A j \in (m + 1)..i : j = m + 1 \/ j \in (m + 1 + 1)..i
    BY <1>1
  <1>3. (m + 1 + 1)..Len(out) \subseteq (m + 1)..Len(out)
    BY <1>1
  <1> QED
    BY <1>1, <1>2, <1>3 DEF EatenAfter

LEMMA EatenReplay ==
  ASSUME Types, NEW e \in Events, e.t # "result", out' = Append(out, e), proc' = proc,
         ate \subseteq ate', NEW m \in 0..Len(out), NEW S, EatenAfter(m, S)
  PROVE  EatenAfter(m, S)'
  <1>1. /\ Len(out) \in Nat /\ Len(out') = Len(out) + 1 /\ out'[Len(out) + 1] = e
        /\ \A i \in 1..Len(out) : out'[i] = out[i]
    BY OutAppend
  <1>2. \A i \in (m + 1)..Len(out) : i \in (m + 1)..Len(out') /\ (out'[i].t = "result" <=> IsResult(i)) /\ out'[i] = out[i]
    BY <1>1 DEF IsResult
  <1>3. out'[Len(out) + 1].t # "result"
    BY <1>1 DEF IsResult
  <1>4. \A i \in (m + 1)..Len(out') : i \in (m + 1)..Len(out) \/ i = Len(out) + 1
    BY <1>1
  <1>5. ASSUME NEW i \in (m + 1)..Len(out'), out'[i].t = "result", \A j \in (m + 1)..(i - 1) : out'[j].t # "result"
        PROVE  S \subseteq out'[i].ate
    <2>1. i \in (m + 1)..Len(out)
      BY <1>3, <1>4, <1>5
    <2>2. \A j \in (m + 1)..(i - 1) : j \in (m + 1)..Len(out)
      BY <1>1, <2>1
    <2> QED
      BY <1>2, <1>5, <2>1, <2>2 DEF EatenAfter
  <1>6. ASSUME proc' = "alive", \A j \in (m + 1)..Len(out') : out'[j].t # "result" PROVE S \subseteq ate'
    BY <1>2, <1>6 DEF EatenAfter
  <1> QED
    BY <1>5, <1>6 DEF EatenAfter, IsResult

LEMMA EatenResult ==
  ASSUME Types, NEW e \in Events, e.t = "result", e.ate = ate, out' = Append(out, e), proc = "alive",
         NEW m \in 0..Len(out), NEW S, EatenAfter(m, S)
  PROVE  EatenAfter(m, S)'
  <1>1. /\ Len(out) \in Nat /\ Len(out') = Len(out) + 1 /\ out'[Len(out) + 1] = e
        /\ \A i \in 1..Len(out) : out'[i] = out[i]
    BY OutAppend
  <1>2. \A i \in (m + 1)..Len(out) : i \in (m + 1)..Len(out') /\ (out'[i].t = "result" <=> IsResult(i)) /\ out'[i] = out[i]
    BY <1>1 DEF IsResult
  <1>3. out'[Len(out) + 1].t = "result" /\ Len(out) + 1 \in (m + 1)..Len(out')
    BY <1>1 DEF IsResult
  <1>4. \A i \in (m + 1)..Len(out') : i \in (m + 1)..Len(out) \/ i = Len(out) + 1
    BY <1>1
  <1>5. ASSUME NEW i \in (m + 1)..Len(out'), out'[i].t = "result", \A j \in (m + 1)..(i - 1) : out'[j].t # "result"
        PROVE  S \subseteq out'[i].ate
    <2>1. CASE i \in (m + 1)..Len(out)
      <3>1. \A j \in (m + 1)..(i - 1) : j \in (m + 1)..Len(out)
        BY <1>1, <2>1
      <3> QED
        BY <1>2, <1>5, <2>1, <3>1 DEF EatenAfter
    <2>2. CASE i = Len(out) + 1
      <3>1. i - 1 = Len(out)
        BY <1>1, <2>2
      <3>2. \A j \in (m + 1)..Len(out) : ~IsResult(j)
        BY <1>2, <1>5, <3>1
      <3>3. S \subseteq ate
        BY <3>2 DEF EatenAfter
      <3> QED
        BY <1>1, <2>2, <3>3
    <2> QED
      BY <1>4, <2>1, <2>2
  <1>6. ~(\A j \in (m + 1)..Len(out') : out'[j].t # "result")
    BY <1>3
  <1> QED
    BY <1>5, <1>6 DEF EatenAfter, IsResult

\* Who is there to request, read or announce what Plain excludes.
LEMMA Absent ==
  ASSUME Types, MaxSelf = 0, Unasked, Plain, OutPlain
  PROVE  /\ ~Reload /\ ~Kill /\ ~Interrupt /\ \A c \in Channels : ~InterruptMessage(c)
         /\ ~ReadInit /\ ~ReadAnswer /\ ~CliSelf /\ ~CliControl /\ ~ControlTimeout
         /\ Stream = out
  <1>1. \A kind : Request(kind) => kind = "flush"
    <2>1. ops < MaxOps => MaxOps # 0
      BY TurnLoopAssumption DEF Types, BoundTypes
    <2> QED
      BY <2>1 DEF Unasked, Request
  <1>2. Stream = out
    BY DEF Stream, Plain
  <1>3. \A t : Reading(t) => t \in {"replay", "result"}
    <2> SUFFICES ASSUME NEW t, Reading(t) PROVE t \in {"replay", "result"}
      OBVIOUS
    <2>1. out # <<>> /\ Head(out).t = t
      BY <1>2 DEF Reading
    <2>2. 1 \in 1..Len(out) /\ Head(out) = out[1]
      BY <2>1, OutTyped, HeadTailProperties, EmptySeq
    <2> QED
      BY <2>1, <2>2 DEF OutPlain, IsReplay, IsResult
  <1>4. ~(selves < MaxSelf)
    BY DEF Types, BoundTypes
  <1>5. ~Reload /\ ~Kill /\ ~Interrupt /\ \A c \in Channels : ~InterruptMessage(c)
    BY <1>1 DEF Reload, Kill, Interrupt, InterruptMessage
  <1>6. ~ReadInit /\ ~ReadAnswer
    BY <1>3 DEF ReadInit, ReadAnswer
  <1> QED
    BY <1>2, <1>4, <1>5, <1>6 DEF CliSelf, CliControl, ControlTimeout, Plain

LEMMA PlainSame ==
  ASSUME Plain, UNCHANGED <<flag, waiter, control, reader, bgtask, process>>,
         out' = out \/ proc = "alive",
         inq' = inq \/ proc = "alive", running' = running \/ proc = "alive",
         batch'.origin # "self",
         op = "none" \/ pc' = "bouncing", gaveup => pc' = "free"
  PROVE  Plain'
  BY DEF Plain, reader, process

LEMMA LoopPlain ==
  ASSUME Types, Steering, MaxSelf = 0, Unasked, Selfless, NoPending, Plain, OutPlain, Loop
  PROVE  Plain'
  <1>0. /\ batch \in Batches /\ proc \in {"none", "alive", "dead"} /\ ~bgseen /\ ~batch.bg /\ ~resume
        /\ pc \in Places
    BY DEF Types, TurnTypes, ProcessTypes, Selfless
  <1>1. CASE DrainDropped \/ Count \/ Finish
    <2>1. pc # "bouncing" /\ batch' = batch /\ UNCHANGED <<flag, waiter, control, reader, bgtask, process, out, inq, running>>
          /\ (gaveup => pc' = "free")
      BY <1>1 DEF DrainDropped, DrainStart, Count, Finish, Plain, marks, waits, cli, model
    <2> QED
      BY <2>1, PlainSame DEF Plain
  <1>2. CASE DrainRuns
    <2>1. /\ pc = "free" /\ pc' = "claim" /\ batch' = batch /\ proc # "dead"
          /\ UNCHANGED <<flag, waiter, control, reader, bgtask, process, out, inq, running>>
      BY <1>0, <1>2 DEF DrainRuns, DrainStart, MustNotDrain, waits, model
    <2> QED
      BY <2>1, PlainSame DEF Plain
  <1>3. CASE Claim \/ WriteFails \/ SettleFollowon
    <2>1. /\ pc \in {"claim", "write", "settle"} /\ batch'.origin # "self"
          /\ UNCHANGED <<flag, waiter, control, reader, bgtask, process, out, inq, running>>
      BY <1>3 DEF Claim, WriteFails, SettleFollowon, Settles, Batch, Plain, marks, waits, cli, model
    <2> QED
      BY <2>1, PlainSame DEF Plain
  <1>4. CASE WriteLands
    <2>1. /\ pc = "write" /\ batch' = batch /\ (inq' = inq \/ proc = "alive")
          /\ UNCHANGED <<flag, waiter, control, reader, bgtask, process, out, running>>
      BY <1>4 DEF WriteLands, marks, waits, model
    <2> QED
      BY <2>1, PlainSame DEF Plain
  <1>5. CASE ReadBegins
    <2>1. /\ pc = "written" /\ batch'.origin = batch.origin
          /\ UNCHANGED <<flag, waiter, control, reader, bgtask, process, out, inq, running>>
      BY <1>0, <1>5 DEF ReadBegins, Batches, marks, waits, cli, model
    <2> QED
      BY <2>1, PlainSame DEF Plain
  <1>6. CASE ReadReplay
    <2>1. /\ pc = "read" /\ batch'.origin = batch.origin /\ tail' = tail /\ (proc # "none")
          /\ UNCHANGED <<flag, waiter, control, attached, bgtask, process, inq, running>>
      BY <1>0, <1>6 DEF ReadReplay, Reading, Rest, Batches, Plain, marks, waits, model
    <2> QED
      BY <2>1 DEF Plain, process
  <1>7. CASE ReadResult \/ ReadEOF
    <2>1. /\ pc = "read" /\ batch'.origin = batch.origin /\ tail' = <<>> /\ attached' = "cur" /\ ~flag'
          /\ pc' = "finish"
          /\ UNCHANGED <<waiter, control, bgtask, process, inq, running>>
      BY <1>0, <1>7 DEF ReadResult, ReadEOF, Reading, Ended, Batches, waits, cli, model
    <2> QED
      BY <2>1 DEF Plain, process
  <1>8. CASE SettleSkips \/ SettleDone
    <2>1. /\ pc = "settle" /\ batch'.origin # "self"
          /\ UNCHANGED <<flag, waiter, control, reader, bgtask, process, out, inq, running>>
      BY <1>0, <1>8 DEF SettleSkips, SettleDone, Settles, LoopEnds, Batch, marks, waits, cli, model
    <2> QED
      BY <2>1, PlainSame DEF Plain
  <1>9. CASE SettleSelf
    BY <1>0, <1>9 DEF SettleSelf
  <1>10. CASE Bounce
    BY <1>0, <1>10 DEF Bounce, KillBegins, CliReset, Plain, marks, waits, reader
  <1>11. CASE Bounced
    <2>1. /\ op = "none" /\ batch'.origin # "self" /\ pc = "bouncing" /\ pc' = "free"
          /\ UNCHANGED <<flag, waiter, control, reader, bgtask, process, out, inq, running>>
      BY <1>0, <1>11 DEF Bounced, LoopEnds, Batch, marks, waits, cli, model
    <2> QED
      BY <2>1, PlainSame DEF Plain
  <1> QED
    BY <1>1, <1>2, <1>3, <1>4, <1>5, <1>6, <1>7, <1>8, <1>9, <1>10, <1>11, Absent DEF Loop

LEMMA NextPlain ==
  ASSUME Types, Steering, MaxSelf = 0, Unasked, Selfless, NoPending, Plain, OutPlain, [Next]_vars
  PROVE  Plain'
  <1>0. /\ batch \in Batches /\ proc \in {"none", "alive", "dead"} /\ selves \in Nat
        /\ bgtask \in BOOLEAN
    BY DEF Types, TurnTypes, ProcessTypes, CliTypes, BoundTypes
  <1>1. CASE Arrival \/ HoldWake \/ Redrain \/ SteerClaim \/ SteerGivenBack \/ Flush \/ UNCHANGED vars
    <2>1. UNCHANGED <<flag, waiter, control, reader, bgtask, process, out, inq, running, batch, pc, op, gaveup>>
      BY <1>1
      DEF Arrival, Enqueue, HoldWake, Redrain, SteerClaim, SteerGivenBack, Flush, vars, turn, marks,
          waits, process, cli, model
    <2> QED
      BY <2>1, PlainSame DEF Plain
  <1>2. CASE SteerWrite
    <2>1. /\ proc = "alive" /\ batch'.origin = batch.origin
          /\ UNCHANGED <<flag, waiter, control, reader, bgtask, process, out, running, pc, op, gaveup>>
      BY <1>0, <1>2 DEF SteerWrite, StillSteerable, Steerable, Batches, marks, waits, process, model
    <2> QED
      BY <2>1, PlainSame DEF Plain
  <1>3. CASE FollowonTimeout
    <2>1. /\ pc = "read" /\ pc' = "bounce" /\ flag' = FALSE
          /\ UNCHANGED <<waiter, control, reader, bgtask, process, out, inq, running, batch>>
      BY <1>3 DEF FollowonTimeout, waits, cli, model
    <2> QED
      BY <2>1 DEF Plain, reader, process
  <1>4. CASE Die
    BY <1>4 DEF Die, CliReset, Plain, turn, marks, waits, reader
  <1>5. CASE Watcher
    BY <1>5 DEF Watcher, Plain, turn, marks, waits, reader, model
  <1>6. CASE KillEnds
    BY <1>6 DEF KillEnds, Plain, turn, marks, waits, reader, model
  <1>7. CASE Start
    BY <1>7 DEF Start, Plain, turn, marks, waits, reader, cli, model
  <1>8. CASE CliStart \/ CliMerge
    <2>1. UNCHANGED <<flag, waiter, control, reader, bgtask, process, batch, pc, op, gaveup>>
      BY <1>8 DEF CliStart, CliMerge, Consume, turn, marks, waits, process
    <2>2. proc = "alive"
      <3>1. inq # <<>>
        <4>1. \E n \in 1..Len(inq) : TRUE
          BY <1>8 DEF CliStart, CliMerge
        <4>2. Len(<<>>) = 0
          BY EmptySeq
        <4> QED
          BY <4>1, <4>2
      <3> QED
        BY <3>1 DEF Plain
    <2> QED
      BY <2>1, <2>2, PlainSame DEF Plain
  <1>9. CASE CliResult
    <2>0. proc = "alive"
      BY <1>9 DEF CliResult, Plain
    <2>1. UNCHANGED <<flag, waiter, control, reader, process, batch, pc, op, gaveup>>
      BY <1>9 DEF CliResult, turn, marks, waits, process
    <2>2. bgtask' = bgtask
      BY <1>0, <1>9 DEF CliResult, Plain
    <2> QED
      BY <2>0, <2>1, <2>2, PlainSame DEF Plain
  <1> QED
    BY <1>1, <1>2, <1>3, <1>4, <1>5, <1>6, <1>7, <1>8, <1>9, Absent, LoopPlain
    DEF Next, SteerTask, Lifecycle, Operator, Cli

\* The steps that write on stdout or take from it.
LEMMA Consuming ==
  ASSUME Types, Plain, NEW n \in 1..Len(inq), Consume(n)
  PROVE  /\ proc = "alive" /\ Len(inq) \in Nat
         /\ SubSeq(inq, 1, n) \in Seq(SUBSET Rows) /\ Len(SubSeq(inq, 1, n)) = n
         /\ \A i \in 1..n : SubSeq(inq, 1, n)[i] = inq[i] /\ inq[i] \subseteq ate'
         /\ Len(inq') = Len(inq) - n /\ \A i \in 1..Len(inq') : inq'[i] = inq[n + i]
         /\ Replay(SubSeq(inq, 1, n)) \in Events
         /\ out' = Append(out, Replay(SubSeq(inq, 1, n)))
         /\ ate \subseteq ate'
  <1>1. inq \in Seq(SUBSET Rows) /\ Len(inq) \in Nat /\ n \in 0..Len(inq) /\ n + 1 \in 1..(Len(inq) + 1)
    BY LenProperties DEF Types, CliTypes
  <1>2. proc = "alive"
    <2>1. inq # <<>>
      BY <1>1, EmptySeq
    <2> QED
      BY <2>1 DEF Plain
  <1>3. /\ SubSeq(inq, 1, n) \in Seq(SUBSET Rows) /\ Len(SubSeq(inq, 1, n)) = n
        /\ \A i \in 1..n : SubSeq(inq, 1, n)[i] = inq[i]
    BY <1>1, PrefixTyped
  <1>4. \A i \in 1..n : inq[i] \subseteq ate'
    BY <1>3 DEF Consume
  <1>5. Len(inq') = Len(inq) - n /\ \A i \in 1..Len(inq') : inq'[i] = inq[n + i]
    <2>1. /\ Len(inq') = Len(inq) - (n + 1) + 1
          /\ \A i \in 1..(Len(inq) - (n + 1) + 1) : inq'[i] = inq[(n + 1) + i - 1]
      BY <1>1, RestTyped DEF Consume
    <2> QED
      BY <1>1, <2>1
  <1>6. Replay(SubSeq(inq, 1, n)) \in Events /\ out' = Append(out, Replay(SubSeq(inq, 1, n))) /\ ate \subseteq ate'
    BY <1>3 DEF Consume, Replay, Events
  <1> QED
    BY <1>1, <1>2, <1>3, <1>4, <1>5, <1>6

LEMMA Resulting ==
  ASSUME Types, Plain, CliResult
  PROVE  \E e \in Events : /\ proc = "alive" /\ running /\ ~running'
                           /\ e.t = "result" /\ e.ate = ate /\ out' = Append(out, e)
  <1>1. running /\ running' = FALSE
    BY DEF CliResult
  <1>2. proc = "alive"
    BY <1>1 DEF Plain
  <1>3. PICK kind \in {"ok", "error", "wall"}, bg \in BOOLEAN : out' = Append(out, Result(kind, ate, bg))
    BY DEF CliResult
  <1>4. Result(kind, ate, bg) \in Events /\ Result(kind, ate, bg).t = "result" /\ Result(kind, ate, bg).ate = ate
    BY DEF Result, Events, Kinds, Types, CliTypes
  <1> QED
    BY <1>1, <1>2, <1>3, <1>4

LEMMA Taking ==
  ASSUME Types, Plain, OutPlain, Steering, InStep, pc = "read", ReadReplay
  PROVE  /\ out # <<>> /\ out' = Tail(out) /\ IsReplay(1) /\ out[1].texts # <<>>
         /\ out[1].texts \in Seq(SUBSET Rows)
         /\ LET n == Len(out[1].texts)
            IN  /\ n \in 1..Len(ledger) /\ ledger' = SubSeq(ledger, n + 1, Len(ledger))
                /\ Len(ledger') = Len(ledger) - n /\ \A i \in 1..Len(ledger') : ledger'[i] = ledger[n + i]
                /\ \A i \in 1..n : ledger[i].rows = out[1].texts[i]
                /\ batch' = [batch EXCEPT !.awaiting = FALSE, !.merged = @ \cup SteerRows(n)]
  <1>1. Stream = out
    BY DEF Stream, Plain
  <1>2. out # <<>> /\ out' = Tail(out) /\ Head(out).t = "replay"
    BY <1>1 DEF ReadReplay, Reading, Rest, Plain
  <1>3. /\ out \in Seq(Events) /\ Len(out) \in Nat /\ 1 \in 1..Len(out) /\ Head(out) = out[1]
        /\ out[1] \in Events
    BY <1>2, OutTyped, HeadTailProperties, EmptySeq
  <1>4. IsReplay(1) /\ out[1].texts # <<>>
    BY <1>2, <1>3 DEF OutPlain, IsReplay, IsResult
  <1>5. out[1].texts \in Seq(SUBSET Rows)
    BY <1>3, <1>4 DEF IsReplay, Events
  <1> DEFINE texts == out[1].texts
             n == Len(texts)
  <1>6. n \in Nat /\ n # 0
    BY <1>4, <1>5, EmptySeq, LenProperties
  <1>7. ledger \in Seq(Lines) /\ Len(ledger) \in Nat
    BY LedgerTypes DEF Types, TurnTypes
  <1>8. n <= Len(ledger) /\ \A i \in 1..n : ledger[i].rows = texts[i]
    <2>1. ~gaveup
      BY DEF Plain
    <2>2. PICK p \in [Spots -> 0..Len(ledger)] : Stands(p)
      BY <2>1 DEF InStep
    <2>3. p[1] = 0 /\ p[1 + 1] = p[1] + n /\ \A k \in 1..n : ledger[p[1] + k].rows = texts[k]
      BY <1>3, <1>4, <2>2 DEF Stands
    <2>4. 2 \in Spots
      BY <1>3 DEF Spots
    <2>5. p[2] \in 0..Len(ledger) /\ p[2] = n
      BY <1>6, <2>2, <2>3, <2>4
    <2>6. \A k \in 1..n : p[1] + k = k
      BY <1>6, <2>3
    <2> QED
      BY <1>7, <2>3, <2>5, <2>6
  <1>9. Matched(texts) = n
    BY <1>6, <1>7, <1>8 DEF Matched
  <1>10. /\ ledger' = SubSeq(ledger, n + 1, Len(ledger))
         /\ batch' = [batch EXCEPT !.awaiting = FALSE, !.merged = @ \cup SteerRows(n)]
    BY <1>1, <1>3, <1>9 DEF ReadReplay
  <1>11. n + 1 \in 1..(Len(ledger) + 1)
    BY <1>6, <1>7, <1>8
  <1>12. Len(ledger') = Len(ledger) - n /\ \A i \in 1..Len(ledger') : ledger'[i] = ledger[n + i]
    <2>1. /\ Len(ledger') = Len(ledger) - (n + 1) + 1
          /\ \A i \in 1..(Len(ledger) - (n + 1) + 1) : ledger'[i] = ledger[(n + 1) + i - 1]
      BY <1>7, <1>10, <1>11, RestTyped
    <2> QED
      BY <1>6, <1>7, <2>1
  <1>13. n \in 1..Len(ledger)
    BY <1>6, <1>7, <1>8
  <1> QED
    BY <1>2, <1>4, <1>5, <1>8, <1>10, <1>12, <1>13

LEMMA Ending ==
  ASSUME Types, Plain, OutPlain, ReadResult
  PROVE  /\ out # <<>> /\ out' = Tail(out) /\ IsResult(1) /\ pc' = "finish"
         /\ batch'.ate = out[1].ate /\ batch'.rows = batch.rows /\ batch'.merged = batch.merged
  <1>1. Stream = out
    BY DEF Stream, Plain
  <1>2. out # <<>> /\ out' = Tail(out) /\ Head(out).t = "result" /\ Ended(Head(out).kind, Head(out).ate, Head(out).bg)
    BY <1>1 DEF ReadResult, Reading, Plain
  <1>3. out \in Seq(Events) /\ 1 \in 1..Len(out) /\ Head(out) = out[1]
    BY <1>2, OutTyped, HeadTailProperties, EmptySeq
  <1>4. batch \in Batches
    BY DEF Types, TurnTypes
  <1> QED
    BY <1>2, <1>3, <1>4 DEF IsResult, Ended, Batches

\* The steps that leave stdout alone, and how the others change it.
OutKept ==
    \/ Arrival \/ HoldWake \/ Redrain \/ SteerTask \/ Flush \/ UNCHANGED vars
    \/ DrainDropped \/ DrainRuns \/ Claim \/ WriteLands \/ WriteFails \/ ReadBegins
    \/ ReadEOF \/ Finish \/ Count \/ SettleSkips \/ SettleFollowon \/ SettleDone
    \/ Bounce \/ Bounced \/ FollowonTimeout \/ Die \/ Start

LEMMA StepsSplit ==
  ASSUME Types, Steering, MaxSelf = 0, Unasked, Selfless, Plain, OutPlain, [Next]_vars
  PROVE  OutKept \/ ReadReplay \/ ReadResult \/ Watcher \/ KillEnds \/ CliStart \/ CliMerge \/ CliResult
  <1>1. ~SettleSelf
    BY DEF Selfless, SettleSelf
  <1> QED
    BY <1>1, Absent DEF OutKept, Next, Loop, Lifecycle, Operator, Cli

LEMMA KeepsOut ==
  ASSUME Types, Steering, Selfless, OutKept PROVE out' = out
  <1>1. ~bgseen /\ ~batch.bg
    BY DEF Selfless
  <1>2. CASE Arrival \/ HoldWake \/ Redrain \/ SteerTask \/ Flush \/ UNCHANGED vars
    BY <1>2
    DEF Arrival, Enqueue, HoldWake, Redrain, SteerTask, SteerClaim, SteerWrite, SteerGivenBack, Flush, vars, cli
  <1>3. CASE DrainDropped \/ Claim \/ WriteLands \/ WriteFails \/ ReadBegins \/ ReadEOF \/ Finish \/ Count
    BY <1>3 DEF DrainDropped, Claim, WriteLands, WriteFails, ReadBegins, ReadEOF, Finish, Count, cli
  <1>4. CASE SettleSkips \/ SettleFollowon \/ Bounce \/ Bounced \/ FollowonTimeout \/ Die \/ Start
    BY <1>4 DEF SettleSkips, SettleFollowon, Bounce, Bounced, FollowonTimeout, Die, Start, cli
  <1>5. CASE DrainRuns \/ SettleDone
    BY <1>1, <1>5 DEF DrainRuns, SettleDone
  <1> QED
    BY <1>2, <1>3, <1>4, <1>5 DEF OutKept

LEMMA NextOutPlain ==
  ASSUME Types, Steering, MaxSelf = 0, Unasked, Selfless, Plain, OutPlain, [Next]_vars
  PROVE  OutPlain'
  <1>1. CASE OutKept
    BY <1>1, KeepsOut DEF OutPlain, IsReplay, IsResult
  <1>2. ASSUME out # <<>>, out' = Tail(out) PROVE OutPlain'
    BY <1>2, OutTail DEF OutPlain, IsReplay, IsResult
  <1>3. ASSUME NEW e \in Events, out' = Append(out, e), (e.t = "replay" /\ e.texts # <<>>) \/ e.t = "result"
        PROVE  OutPlain'
    BY <1>3, OutAppend DEF OutPlain, IsReplay, IsResult
  <1>4. CASE ReadReplay \/ ReadResult
    <2>1. Stream = out
      BY DEF Stream, Plain
    <2> QED
      BY <1>2, <1>4, <2>1 DEF ReadReplay, ReadResult, Reading, Rest, Plain
  <1>5. CASE Watcher \/ KillEnds
    <2>1. out' = out \/ Len(out') = 0
      BY <1>5 DEF Watcher, KillEnds
    <2> QED
      BY <2>1 DEF OutPlain, IsReplay, IsResult
  <1>6. CASE CliStart \/ CliMerge
    <2>1. PICK n \in 1..Len(inq) : Consume(n)
      BY <1>6 DEF CliStart, CliMerge
    <2>2. SubSeq(inq, 1, n) # <<>>
      <3>1. Len(SubSeq(inq, 1, n)) = n /\ Len(inq) \in Nat
        BY <2>1, Consuming
      <3>2. Len(SubSeq(inq, 1, n)) # 0
        BY <3>1
      <3>3. Len(<<>>) = 0
        OBVIOUS
      <3> QED
        BY <3>2, <3>3
    <2>3. Replay(SubSeq(inq, 1, n)).t = "replay" /\ Replay(SubSeq(inq, 1, n)).texts = SubSeq(inq, 1, n)
      BY DEF Replay
    <2> QED
      BY <1>3, <2>1, <2>2, <2>3, Consuming
  <1>7. CASE CliResult
    BY <1>3, <1>7, Resulting
  <1> QED
    BY <1>1, <1>4, <1>5, <1>6, <1>7, StepsSplit

\* No line is before the process: between turns the ledger is empty, so nothing of the
\* last one is left on the pipes.
LEMMA Silent ==
  ASSUME Types, OutPlain, InStep, Framed, ledger = <<>>, ~gaveup, pc # "read"
  PROVE  out = <<>> /\ ~running /\ (proc = "alive" => inq = <<>>)
  <1>1. /\ Len(out) \in Nat /\ Len(inq) \in Nat /\ inq \in Seq(SUBSET Rows) /\ out \in Seq(Events)
        /\ Len(ledger) = 0
    BY LenProperties, EmptySeq DEF Types, CliTypes
  <1>2. PICK p \in [Spots -> 0..Len(ledger)] : Stands(p)
    BY DEF InStep
  <1>3. \A i \in Spots : p[i] = 0
    BY <1>1, <1>2
  <1>4. \A i \in 1..Len(out) : ~IsReplay(i)
    <2> SUFFICES ASSUME NEW i \in 1..Len(out), IsReplay(i) PROVE FALSE
      OBVIOUS
    <2>1. out[i].texts # <<>> /\ out[i] \in Events
      BY <1>1, ElementOfSeq DEF OutPlain, IsReplay, IsResult
    <2>2. out[i].texts \in Seq(SUBSET Rows)
      BY <2>1 DEF IsReplay, Events
    <2>3. Len(out[i].texts) \in Nat /\ Len(out[i].texts) # 0
      BY <2>1, <2>2, LenProperties, EmptySeq
    <2>4. p[i + 1] = p[i] + Len(out[i].texts)
      BY <1>2 DEF Stands
    <2>5. i \in Spots /\ i + 1 \in Spots
      BY <1>1 DEF Spots
    <2> QED
      BY <1>3, <2>3, <2>4, <2>5
  <1>5. out = <<>>
    <2> SUFFICES ASSUME out # <<>> PROVE FALSE
      OBVIOUS
    <2>1. Len(out) # 0
      BY <1>1, EmptySeq
    <2> QED
      BY <1>1, <1>4, <2>1 DEF Framed, InTurn
  <1>6. Len(out) = 0
    BY <1>5
  <1>7. ~running
    BY <1>6 DEF Framed, InTurn
  <1>8. ASSUME proc = "alive" PROVE inq = <<>>
    <2>1. Len(ledger) = p[Len(out) + 1] + Len(inq)
      BY <1>2, <1>8 DEF Stands
    <2>2. Len(out) + 1 \in Spots
      BY <1>1 DEF Spots
    <2>3. Len(inq) = 0
      BY <1>1, <1>3, <2>1, <2>2
    <2> QED
      BY <1>1, <2>3, EmptySeq
  <1> QED
    BY <1>5, <1>7, <1>8

\* The reader takes a line of stdout and, with it, the lines of the ledger it stands for.
LEMMA Taken ==
  ASSUME Types, out # <<>>, out' = Tail(out), UNCHANGED <<proc, inq>>,
         NEW p \in [Spots -> 0..Len(ledger)], Stands(p), NEW n \in 0..Len(ledger), p[2] = n,
         Len(ledger') = Len(ledger) - n, \A i \in 1..Len(ledger') : ledger'[i] = ledger[n + i]
  PROVE  InStep'
  <1>1. /\ Len(out) \in Nat /\ Len(out) > 0 /\ Len(out') = Len(out) - 1
        /\ \A i \in 1..Len(out') : i + 1 \in 1..Len(out) /\ out'[i] = out[i + 1]
    BY OutTail
  <1>2. Len(ledger) \in Nat /\ Len(inq) \in Nat
    BY LedgerTypes, LenProperties DEF Types, CliTypes
  <1>a. n \in Nat /\ n <= Len(ledger) /\ Len(ledger') = Len(ledger) - n
    BY <1>2
  <1>b. ASSUME NEW a \in Nat, NEW k \in Nat, 1 <= k, n <= a, a + k <= Len(ledger)
         PROVE  (a - n) + k \in 1..Len(ledger') /\ n + ((a - n) + k) = a + k
    BY <1>2, <1>a, <1>b
  <1>c. ASSUME NEW a \in Nat, NEW k \in Nat, 1 <= k, n <= a, a + k <= Len(ledger)
         PROVE  ledger'[(a - n) + k] = ledger[a + k]
    BY <1>b, <1>c
  <1>3. Spots = 1..(Len(out) + 1) /\ Spots' = 1..Len(out)
    BY <1>1 DEF Spots
  <1>0. PICK q : q = [i \in 1..Len(out) |-> p[i + 1] - n]
    OBVIOUS
  <1>4. \A i \in 1..Len(out) : i + 1 \in Spots /\ 2 \in Spots /\ 2 <= i + 1
    BY <1>1, <1>3
  <1>5. \A i \in 1..Len(out) : p[i + 1] \in Nat /\ n <= p[i + 1] /\ p[i + 1] <= Len(ledger)
    BY <1>2, <1>4 DEF Stands
  <1>6. \A i \in 1..Len(out) : q[i] = p[i + 1] - n /\ q[i] \in 0..Len(ledger')
    BY <1>0, <1>2, <1>5
  <1>7. q \in [Spots' -> 0..Len(ledger')]
    BY <1>0, <1>3, <1>6
  <1>8. q[1] = 0
    BY <1>1, <1>2, <1>6
  <1>9. ASSUME NEW i \in Spots', NEW j \in Spots', i <= j PROVE q[i] <= q[j]
    <2>1. i + 1 \in Spots /\ j + 1 \in Spots /\ i + 1 <= j + 1
      BY <1>1, <1>3, <1>9
    <2>2. p[i + 1] <= p[j + 1]
      BY <2>1 DEF Stands
    <2>3. q[i] = p[i + 1] - n /\ q[j] = p[j + 1] - n
      BY <1>3, <1>6
    <2>4. p[i + 1] \in Nat /\ p[j + 1] \in Nat /\ n \in Nat
      BY <1>3, <1>5, <1>a
    <2> QED
      BY <2>2, <2>3, <2>4
  <1>10. ASSUME NEW i \in 1..Len(out')
         PROVE  IF out'[i].t = "replay"
                THEN /\ q[i + 1] = q[i] + Len(out'[i].texts)
                     /\ \A k \in 1..Len(out'[i].texts) : ledger'[q[i] + k].rows = out'[i].texts[k]
                ELSE q[i + 1] = q[i]
    <2>1. i \in 1..Len(out) /\ i + 1 \in 1..Len(out) /\ out'[i] = out[i + 1]
      BY <1>1
    <2>2. /\ q[i] = p[i + 1] - n /\ q[i + 1] = p[i + 1 + 1] - n
          /\ p[i + 1] \in Nat /\ p[i + 1 + 1] \in Nat /\ n <= p[i + 1] /\ p[i + 1 + 1] <= Len(ledger)
      BY <1>5, <1>6, <2>1
    <2>3. CASE out'[i].t = "replay"
      <3>1. /\ p[i + 1 + 1] = p[i + 1] + Len(out[i + 1].texts)
            /\ \A k \in 1..Len(out[i + 1].texts) : ledger[p[i + 1] + k].rows = out[i + 1].texts[k]
        BY <2>1, <2>3 DEF Stands, IsReplay
      <3>2. Len(out[i + 1].texts) \in Nat
        <4>1. out \in Seq(Events) /\ out[i + 1] \in Events
          BY <2>1, OutTyped, ElementOfSeq
        <4>2. out[i + 1].texts \in Seq(SUBSET Rows)
          BY <2>1, <2>3, <4>1 DEF Events
        <4> QED
          BY <4>2, LenProperties
      <3>3. q[i + 1] = q[i] + Len(out'[i].texts)
        BY <1>2, <2>1, <2>2, <3>1, <3>2, SMTT(30)
      <3>4. ASSUME NEW k \in 1..Len(out[i + 1].texts)
            PROVE  ledger'[q[i] + k].rows = out[i + 1].texts[k]
        <4>0. k \in Nat /\ 1 <= k /\ k <= Len(out[i + 1].texts)
          BY <3>2
        <4>1. p[i + 1] \in Nat /\ n <= p[i + 1] /\ q[i] = p[i + 1] - n
          BY <2>2
        <4>2. p[i + 1] + Len(out[i + 1].texts) <= Len(ledger)
          BY <2>2, <3>1
        <4>3. p[i + 1] + k <= Len(ledger)
          <5>1. \A a, b, c, d \in Nat : c <= b /\ a + b <= d => a + c <= d
            OBVIOUS
          <5> QED
            BY <1>2, <3>2, <4>0, <4>1, <4>2, <5>1
        <4>4. ledger'[(p[i + 1] - n) + k] = ledger[p[i + 1] + k]
          BY <1>c, <4>0, <4>1, <4>3
        <4> QED
          BY <3>1, <4>1, <4>4
      <3> QED
        BY <2>1, <2>3, <3>3, <3>4
    <2>4. CASE out'[i].t # "replay"
      BY <2>1, <2>2, <2>4 DEF Stands, IsReplay
    <2> QED
      BY <2>3, <2>4
  <1>11. ASSUME proc' = "alive"
         PROVE  /\ Len(ledger') = q[Len(out') + 1] + Len(inq')
                /\ \A k \in 1..Len(inq') : ledger'[q[Len(out') + 1] + k].rows = inq'[k]
    <2>1. /\ Len(ledger) = p[Len(out) + 1] + Len(inq)
          /\ \A k \in 1..Len(inq) : ledger[p[Len(out) + 1] + k].rows = inq[k]
      BY <1>11 DEF Stands
    <2>2. Len(out') + 1 = Len(out) /\ Len(out) \in 1..Len(out)
      BY <1>1
    <2>3. q[Len(out)] = p[Len(out) + 1] - n /\ p[Len(out) + 1] \in Nat
      BY <1>5, <1>6, <2>2
    <2>4. Len(ledger') = q[Len(out)] + Len(inq)
      BY <1>2, <2>1, <2>3
    <2>5. ASSUME NEW k \in 1..Len(inq) PROVE ledger'[q[Len(out)] + k].rows = inq[k]
      <3>1. k \in Nat /\ 1 <= k /\ k <= Len(inq)
        BY <1>2
      <3>2. n <= p[Len(out) + 1] /\ p[Len(out) + 1] + k <= Len(ledger)
        <4>1. p[Len(out) + 1] \in Nat /\ n <= p[Len(out) + 1]
          BY <1>5, <2>2
        <4>2. Len(inq) \in Nat
          BY <1>2
        <4> QED
          BY <2>1, <3>1, <4>1, <4>2
      <3>3. ledger'[q[Len(out)] + k] = ledger[p[Len(out) + 1] + k]
        BY <1>c, <2>3, <3>1, <3>2, SMTT(30)
      <3> QED
        BY <2>1, <3>3
    <2> QED
      BY <2>2, <2>4, <2>5
  <1>12. Stands(q)'
    BY <1>8, <1>9, <1>10, <1>11 DEF Stands, IsReplay
  <1> QED
    BY <1>7, <1>12 DEF InStep

\* The CLI writes a line on stdout, which stands for lines it takes from its stdin.
LEMMA Grown ==
  ASSUME Types, NEW e \in Events, out' = Append(out, e), UNCHANGED <<proc, ledger>>,
         NEW p \in [Spots -> 0..Len(ledger)], Stands(p), NEW n \in Nat,
         p[Len(out) + 1] + n <= Len(ledger),
         IF e.t = "replay"
         THEN n = Len(e.texts) /\ \A k \in 1..n : ledger[p[Len(out) + 1] + k].rows = e.texts[k]
         ELSE n = 0,
         proc = "alive" =>
             /\ Len(ledger) = p[Len(out) + 1] + n + Len(inq')
             /\ \A k \in 1..Len(inq') : ledger[p[Len(out) + 1] + n + k].rows = inq'[k]
  PROVE  InStep'
  <1>1. /\ Len(out) \in Nat /\ Len(out') = Len(out) + 1 /\ out'[Len(out) + 1] = e
        /\ \A i \in 1..Len(out) : out'[i] = out[i]
    BY OutAppend
  <1>2. Len(ledger) \in Nat
    BY LedgerTypes DEF Types
  <1>3. Spots = 1..(Len(out) + 1) /\ Spots' = 1..(Len(out) + 2)
    BY <1>1 DEF Spots
  <1> DEFINE last == p[Len(out) + 1]
  <1>0. PICK q : q = [i \in 1..(Len(out) + 2) |-> IF i = Len(out) + 2 THEN last + n ELSE p[i]]
    OBVIOUS
  <1>4. last \in 0..Len(ledger) /\ last + n \in 0..Len(ledger)
    BY <1>1, <1>2, <1>3
  <1>5. /\ \A i \in Spots : i \in Spots' /\ i # Len(out) + 2 /\ q[i] = p[i]
        /\ Len(out) + 2 \in Spots' /\ q[Len(out) + 2] = last + n
        /\ \A i \in Spots' : i \in Spots \/ i = Len(out) + 2
    BY <1>0, <1>1, <1>3
  <1>6. q \in [Spots' -> 0..Len(ledger')]
    BY <1>0, <1>3, <1>4, <1>5
  <1>7. 1 \in Spots /\ Len(out) + 1 \in Spots /\ \A i \in Spots : i <= Len(out) + 1
    BY <1>1, <1>3
  <1>8. \A i \in Spots : p[i] \in Nat /\ p[i] <= last
    BY <1>2, <1>7 DEF Stands
  <1>9. q[1] = 0
    BY <1>5, <1>7 DEF Stands
  <1>10. ASSUME NEW i \in Spots', NEW j \in Spots', i <= j PROVE q[i] <= q[j]
    <2>1. CASE j \in Spots
      <3>1. i \in Spots
        BY <1>1, <1>3, <1>10, <2>1
      <3> QED
        BY <1>5, <1>10, <2>1, <3>1 DEF Stands
    <2>2. CASE i \in Spots /\ j = Len(out) + 2
      BY <1>4, <1>5, <1>8, <2>2
    <2>3. CASE i = Len(out) + 2 /\ j = Len(out) + 2
      BY <1>4, <1>5, <2>3
    <2>4. CASE i = Len(out) + 2 /\ j \in Spots
      BY <1>1, <1>3, <1>10, <2>4
    <2> QED
      BY <1>5, <2>1, <2>2, <2>3, <2>4
  <1>11. ASSUME NEW i \in 1..Len(out')
         PROVE  IF out'[i].t = "replay"
                THEN /\ q[i + 1] = q[i] + Len(out'[i].texts)
                     /\ \A k \in 1..Len(out'[i].texts) : ledger'[q[i] + k].rows = out'[i].texts[k]
                ELSE q[i + 1] = q[i]
    <2>1. CASE i \in 1..Len(out)
      <3>1. i \in Spots /\ i + 1 \in Spots /\ out'[i] = out[i]
        BY <1>1, <1>3, <2>1
      <3>2. q[i] = p[i] /\ q[i + 1] = p[i + 1]
        BY <1>5, <3>1
      <3> QED
        BY <2>1, <3>1, <3>2, SMTT(30) DEF Stands, IsReplay
    <2>2. CASE i = Len(out) + 1
      <3>1. q[i] = last /\ q[i + 1] = last + n /\ out'[i] = e
        BY <1>1, <1>5, <1>7, <2>2
      <3>2. n \in Nat /\ last \in Nat
        BY <1>4
      <3>3. CASE e.t = "replay"
        BY <3>1, <3>3
      <3>4. CASE e.t # "replay"
        BY <3>1, <3>2, <3>4
      <3> QED
        BY <3>3, <3>4
    <2> QED
      BY <1>1, <2>1, <2>2
  <1>12. ASSUME proc' = "alive"
         PROVE  /\ Len(ledger') = q[Len(out') + 1] + Len(inq')
                /\ \A k \in 1..Len(inq') : ledger'[q[Len(out') + 1] + k].rows = inq'[k]
    <2>1. Len(out') + 1 = Len(out) + 2
      BY <1>1
    <2> QED
      BY <1>5, <1>12, <2>1
  <1>13. Stands(q)'
    BY <1>9, <1>10, <1>11, <1>12 DEF Stands, IsReplay
  <1> QED
    BY <1>6, <1>13 DEF InStep

\* The write of a turn's own line finds nothing before it.
LEMMA WriteInStep ==
  ASSUME Types, Steering, NoPending, Plain, OutPlain, InStep, Framed, WriteLands
  PROVE  InStep'
  <1>0. /\ pc = "write" /\ ledger' = Append(ledger, Primary) /\ out' = out /\ proc' = proc
        /\ (proc = "alive" => inq' = Append(inq, batch.rows))
    BY DEF WriteLands, process
  <1>1. ledger = <<>> /\ ~gaveup
    BY <1>0 DEF NoPending, Plain
  <1>2. out = <<>> /\ (proc = "alive" => inq = <<>>)
    BY <1>0, <1>1, Silent
  <1>3. Len(out') = 0 /\ Spots' = {1}
    BY <1>0, <1>2 DEF Spots
  <1>4. Len(ledger') = 1 /\ ledger'[1] = Primary /\ Primary.rows = batch.rows
    BY <1>0, <1>1 DEF Primary, Line
  <1>5. proc' = "alive" => Len(inq') = 1 /\ inq'[1] = batch.rows
    BY <1>0, <1>2
  <1> DEFINE p == [i \in {1} |-> 0]
  <1>6. p \in [Spots' -> 0..Len(ledger')]
    BY <1>3, <1>4
  <1>7. p[1] = 0
    OBVIOUS
  <1> HIDE DEF p
  <1>8. Stands(p)'
    <2>1. proc' = "alive" =>
            /\ Len(ledger') = p[Len(out') + 1] + Len(inq')
            /\ \A k \in 1..Len(inq') : ledger'[p[Len(out') + 1] + k].rows = inq'[k]
      <3> SUFFICES ASSUME proc' = "alive"
                   PROVE  /\ Len(ledger') = p[Len(out') + 1] + Len(inq')
                          /\ \A k \in 1..Len(inq') : ledger'[p[Len(out') + 1] + k].rows = inq'[k]
        OBVIOUS
      <3>1. Len(inq') = 1 /\ inq'[1] = batch.rows
        BY <1>5
      <3>2. Len(out') + 1 = 1
        BY <1>3
      <3>3. p[Len(out') + 1] = 0
        BY <1>7, <3>2
      <3>4. \A k \in 1..1 : k = 1 /\ 0 + k = 1
        OBVIOUS
      <3> QED
        BY <1>4, <3>1, <3>3, <3>4
    <2>2. \A i, j \in Spots' : i <= j => p[i] <= p[j]
      BY <1>3, <1>7
    <2>3. \A i \in 1..Len(out') : FALSE
      BY <1>3
    <2> QED
      BY <1>7, <2>1, <2>2, <2>3 DEF Stands
  <1> QED
    BY <1>6, <1>8 DEF InStep

LEMMA SteerInStep ==
  ASSUME Types, Plain, InStep, SteerWrite PROVE InStep'
  <1>0. /\ proc = "alive" /\ proc' = proc /\ out' = out
        /\ ledger' = Append(ledger, Line("steer", steering, batch.chan)) /\ inq' = Append(inq, steering)
    <2>1. proc = "alive"
      BY DEF SteerWrite, StillSteerable, Steerable
    <2> QED
      BY <2>1 DEF SteerWrite, process
  <1>1. /\ ledger \in Seq(Lines) /\ inq \in Seq(SUBSET Rows) /\ out \in Seq(Events)
        /\ Len(ledger) \in Nat /\ Len(inq) \in Nat /\ Len(out) \in Nat
    BY LenProperties DEF Types, TurnTypes, CliTypes
  <1>2. ~gaveup
    BY <1>0 DEF Plain
  <1>3. PICK p \in [Spots -> 0..Len(ledger)] : Stands(p)
    BY <1>2 DEF InStep
  <1>4. /\ Len(ledger') = Len(ledger) + 1 /\ \A i \in 1..Len(ledger) : ledger'[i] = ledger[i]
        /\ ledger'[Len(ledger) + 1].rows = steering
    BY <1>0, <1>1 DEF Line
  <1>5. Len(inq') = Len(inq) + 1 /\ \A i \in 1..Len(inq) : inq'[i] = inq[i] /\ inq'[Len(inq) + 1] = steering
    BY <1>0, <1>1
  <1>6. Spots' = Spots /\ Len(out') = Len(out) /\ \A i \in 1..Len(out) : i + 1 \in Spots
    BY <1>0, <1>1 DEF Spots
  <1>7. p \in [Spots' -> 0..Len(ledger')]
    BY <1>1, <1>4, <1>6
  <1>8. ASSUME NEW i \in 1..Len(out), IsReplay(i), NEW k \in 1..Len(out[i].texts)
        PROVE  ledger'[p[i] + k].rows = out[i].texts[k]
    <2>1. /\ p[i + 1] = p[i] + Len(out[i].texts) /\ ledger[p[i] + k].rows = out[i].texts[k]
      BY <1>3, <1>8 DEF Stands
    <2>2. p[i + 1] \in Nat /\ p[i] \in Nat /\ p[i + 1] <= Len(ledger)
      <3>1. i \in Spots /\ i + 1 \in Spots
        BY <1>1 DEF Spots
      <3>2. p[i] \in 0..Len(ledger) /\ p[i + 1] \in 0..Len(ledger)
        BY <1>3, <3>1
      <3> QED
        BY <1>1, <3>2
    <2>3. out[i] \in Events
      BY <1>1, ElementOfSeq
    <2>4. Len(out[i].texts) \in Nat
      BY <1>8, <2>3, LenProperties DEF IsReplay, Events
    <2>5. p[i] + Len(out[i].texts) <= Len(ledger) /\ k \in Nat /\ 1 <= k /\ k <= Len(out[i].texts)
      BY <2>1, <2>2, <2>4
    <2>6. \A a, b, c, d \in Nat : 1 <= c /\ c <= b /\ a + b <= d => a + c \in 1..d
      OBVIOUS
    <2>7. p[i] + k \in 1..Len(ledger)
      BY <1>1, <2>2, <2>4, <2>5, <2>6
    <2> QED
      BY <1>4, <2>1, <2>7
  <1> DEFINE last == p[Len(out) + 1]
  <1>9. last \in Nat /\ Len(ledger) = last + Len(inq) /\ \A k \in 1..Len(inq) : ledger[last + k].rows = inq[k]
    <2>1. Len(out) + 1 \in Spots
      BY <1>1 DEF Spots
    <2>2. last \in 0..Len(ledger)
      BY <1>3, <2>1
    <2> QED
      BY <1>0, <1>1, <1>3, <2>2 DEF Stands
  <1> HIDE DEF last
  <1>10. Len(ledger') = last + Len(inq')
    BY <1>1, <1>4, <1>5, <1>9
  <1>11. ASSUME NEW k \in 1..Len(inq') PROVE ledger'[last + k].rows = inq'[k]
    <2>1. CASE k \in 1..Len(inq)
      <3>1. last + k \in 1..Len(ledger)
        BY <1>1, <1>9, <2>1
      <3> QED
        BY <1>4, <1>5, <1>9, <2>1, <3>1
    <2>2. CASE k = Len(inq) + 1
      <3>1. last + k = Len(ledger) + 1
        BY <1>1, <1>9, <2>2
      <3>2. inq'[Len(inq) + 1] = steering
        BY <1>0, <1>1
      <3> QED
        BY <1>4, <2>2, <3>1, <3>2
    <2> QED
      BY <1>1, <1>5, <2>1, <2>2
  <1>12. Stands(p)'
    <2>1. \A i \in 1..Len(out') : IF IsReplay(i)'
                                  THEN /\ p[i + 1] = p[i] + Len(out'[i].texts)
                                       /\ \A k \in 1..Len(out'[i].texts) : ledger'[p[i] + k].rows = out'[i].texts[k]
                                  ELSE p[i + 1] = p[i]
      BY <1>0, <1>3, <1>8 DEF Stands, IsReplay
    <2>2. p[1] = 0 /\ \A i, j \in Spots' : i <= j => p[i] <= p[j]
      BY <1>3, <1>6 DEF Stands
    <2>3. /\ Len(ledger') = p[Len(out') + 1] + Len(inq')
          /\ \A k \in 1..Len(inq') : ledger'[p[Len(out') + 1] + k].rows = inq'[k]
      BY <1>6, <1>10, <1>11 DEF last
    <2> QED
      BY <2>1, <2>2, <2>3 DEF Stands
  <1> QED
    BY <1>7, <1>12 DEF InStep

LEMMA ReadInStep ==
  ASSUME Types, Steering, Plain, OutPlain, InStep, ReadReplay \/ ReadResult
  PROVE  InStep'
  <1>0. ~gaveup /\ pc = "read"
    BY DEF ReadReplay, ReadResult, Reading, Plain
  <1>1. PICK p \in [Spots -> 0..Len(ledger)] : Stands(p)
    BY <1>0 DEF InStep
  <1>2. /\ out # <<>> /\ out' = Tail(out) /\ UNCHANGED <<proc, inq>>
    BY Taking, Ending, <1>0 DEF ReadReplay, ReadResult, process
  <1>3. 1 \in 1..Len(out) /\ p[1] = 0 /\ Len(ledger) \in Nat /\ 2 \in Spots
    <2>1. Len(out) \in Nat /\ Len(out) > 0
      BY <1>2, OutTail
    <2> QED
      BY <1>1, <2>1, LedgerTypes DEF Stands, Types, Spots
  <1>4. CASE ReadReplay
    <2> DEFINE n == Len(out[1].texts)
    <2>1. /\ IsReplay(1) /\ n \in 1..Len(ledger) /\ Len(ledger') = Len(ledger) - n
          /\ \A i \in 1..Len(ledger') : ledger'[i] = ledger[n + i]
      BY <1>0, <1>4, Taking
    <2>2. p[1 + 1] = p[1] + n
      BY <1>1, <1>3, <2>1 DEF Stands
    <2>3. p[2] = n /\ n \in 0..Len(ledger)
      BY <1>3, <2>1, <2>2
    <2> QED
      BY <1>1, <1>2, <2>1, <2>3, Taken
  <1>5. CASE ReadResult
    <2>1. IsResult(1) /\ ledger' = ledger
      BY <1>5, Ending DEF ReadResult
    <2>2. p[1 + 1] = p[1]
      BY <1>1, <1>3, <2>1 DEF Stands, IsReplay, IsResult
    <2>3. p[2] = 0 /\ 0 \in 0..Len(ledger)
      BY <1>3, <2>2
    <2>4. Len(ledger') = Len(ledger) - 0 /\ \A i \in 1..Len(ledger') : ledger'[i] = ledger[0 + i]
      BY <1>3, <2>1
    <2> QED
      BY <1>1, <1>2, <2>3, <2>4, Taken
  <1> QED
    BY <1>4, <1>5

LEMMA CliInStep ==
  ASSUME Types, Plain, InStep, CliStart \/ CliMerge \/ CliResult
  PROVE  InStep'
  <1>1. CASE CliStart \/ CliMerge
    <2>1. PICK n \in 1..Len(inq) : Consume(n)
      BY <1>1 DEF CliStart, CliMerge
    <2> DEFINE e == Replay(SubSeq(inq, 1, n))
    <2>2. /\ proc = "alive" /\ Len(inq) \in Nat /\ Len(SubSeq(inq, 1, n)) = n
          /\ \A i \in 1..n : SubSeq(inq, 1, n)[i] = inq[i]
          /\ Len(inq') = Len(inq) - n /\ \A i \in 1..Len(inq') : inq'[i] = inq[n + i]
          /\ e \in Events /\ out' = Append(out, e)
      BY <2>1, Consuming
    <2>3. UNCHANGED <<proc, ledger>>
      BY <2>1 DEF Consume, process
    <2>4. e.t = "replay" /\ e.texts = SubSeq(inq, 1, n)
      BY DEF Replay
    <2>5. ~gaveup
      BY <2>2 DEF Plain
    <2>6. PICK p \in [Spots -> 0..Len(ledger)] : Stands(p)
      BY <2>5 DEF InStep
    <2> HIDE DEF e
    <2>7. PICK last : last = p[Len(out) + 1]
      OBVIOUS
    <2>8. last \in Nat /\ Len(ledger) = last + Len(inq) /\ \A k \in 1..Len(inq) : ledger[last + k].rows = inq[k]
      <3>1. Len(out) + 1 \in Spots /\ Len(ledger) \in Nat
        BY OutTyped, LedgerTypes DEF Types, Spots
      <3> QED
        BY <2>2, <2>6, <2>7, <3>1 DEF Stands
    <2>9. n \in Nat /\ last + n <= Len(ledger) /\ Len(ledger) = last + n + Len(inq')
      BY <2>2, <2>8
    <2>10. n = Len(e.texts) /\ \A k \in 1..n : ledger[last + k].rows = e.texts[k]
      BY <2>2, <2>4, <2>8
    <2>11. ASSUME NEW k \in 1..Len(inq') PROVE ledger[last + n + k].rows = inq'[k]
      <3>1. n + k \in 1..Len(inq) /\ last + n + k = last + (n + k)
        BY <2>2, <2>8
      <3> QED
        BY <2>2, <2>8, <3>1
    <2> QED
      BY <2>2, <2>3, <2>4, <2>6, <2>7, <2>9, <2>10, <2>11, Grown
  <1>2. CASE CliResult
    <2>1. PICK e \in Events : proc = "alive" /\ e.t = "result" /\ out' = Append(out, e)
      BY <1>2, Resulting
    <2>2. UNCHANGED <<proc, ledger, inq>>
      BY <1>2 DEF CliResult, process
    <2>5. ~gaveup
      BY <2>1 DEF Plain
    <2>6. PICK p \in [Spots -> 0..Len(ledger)] : Stands(p)
      BY <2>5 DEF InStep
    <2>7. PICK last : last = p[Len(out) + 1]
      OBVIOUS
    <2>8. /\ last \in Nat /\ Len(inq) \in Nat /\ Len(ledger) = last + Len(inq)
          /\ \A k \in 1..Len(inq) : ledger[last + k].rows = inq[k]
      <3>1. Len(out) + 1 \in Spots /\ Len(ledger) \in Nat /\ Len(inq) \in Nat
        BY OutTyped, LedgerTypes, LenProperties DEF Types, CliTypes, Spots
      <3> QED
        BY <2>1, <2>6, <2>7, <3>1 DEF Stands
    <2>9. last + 0 = last /\ last <= Len(ledger) /\ e.t # "replay"
      BY <2>1, <2>8
    <2> QED
      BY <2>1, <2>2, <2>6, <2>7, <2>8, <2>9, Grown
  <1> QED
    BY <1>1, <1>2

LEMMA NextInStep ==
  ASSUME Types, Steering, MaxSelf = 0, Unasked, Selfless, NoPending, Plain, OutPlain, InStep, Framed,
         [Next]_vars
  PROVE  InStep'
  <1>1. CASE OutKept /\ ~WriteLands /\ ~SteerWrite /\ ~ReadEOF /\ ~Start
    <2>0. out' = out
      BY <1>1, KeepsOut
    <2>1. CASE Arrival \/ HoldWake \/ Redrain \/ SteerClaim \/ SteerGivenBack \/ Flush \/ UNCHANGED vars
      <3>1. UNCHANGED <<ledger, gaveup, proc, inq>>
        BY <2>1
        DEF Arrival, Enqueue, HoldWake, Redrain, SteerClaim, SteerGivenBack, Flush, vars, process, cli
      <3> QED
        BY <2>0, <3>1, InStepSame
    <2>2. CASE DrainDropped \/ DrainRuns \/ Claim \/ WriteFails \/ ReadBegins \/ Finish \/ Count
      <3>1. UNCHANGED <<ledger, gaveup, proc, inq>>
        BY <2>2 DEF DrainDropped, DrainRuns, Claim, WriteFails, ReadBegins, Finish, Count, process, cli
      <3> QED
        BY <2>0, <3>1, InStepSame
    <2>3. CASE SettleSkips \/ SettleFollowon \/ SettleDone \/ Bounced \/ FollowonTimeout
      <3>1. UNCHANGED <<ledger, gaveup, proc, inq>>
        BY <2>3 DEF SettleSkips, SettleFollowon, SettleDone, Bounced, FollowonTimeout, process, cli
      <3> QED
        BY <2>0, <3>1, InStepSame
    <2>4. CASE Bounce \/ Die
      <3>1. UNCHANGED <<ledger, gaveup>> /\ proc' # "alive"
        BY <2>4 DEF Bounce, KillBegins, Die, process
      <3> QED
        BY <2>0, <3>1, InStepSame
    <2> QED
      BY <1>1, <2>1, <2>2, <2>3, <2>4 DEF OutKept, SteerTask
  <1>2. CASE ReadEOF
    <2>1. out' = <<>> /\ ledger' = <<>> /\ proc' # "alive"
      BY <1>2, Absent DEF ReadEOF, ReleasePending, Plain, process, cli
    <2> QED
      BY <2>1, InStepEmptied
  <1>3. CASE Start
    <2>1. ledger' = <<>> /\ out' = <<>> /\ inq' = <<>>
      BY <1>3 DEF Start, Plain, NoPending, cli
    <2> QED
      BY <2>1, InStepEmptied
  <1>4. CASE Watcher
    <2>1. CASE gaveup'
      BY <2>1 DEF InStep
    <2>2. CASE ~gaveup'
      <3>1. ledger' = <<>> /\ out' = <<>> /\ inq' = <<>>
        BY <1>4, <2>2 DEF Watcher, ReleasePending, Plain
      <3> QED
        BY <3>1, InStepEmptied
    <2> QED
      BY <2>1, <2>2
  <1>5. CASE KillEnds
    <2>1. ledger' = <<>> /\ out' = <<>> /\ proc' # "alive"
      BY <1>5 DEF KillEnds, ReleasePending
    <2> QED
      BY <2>1, InStepEmptied
  <1> QED
    BY <1>1, <1>2, <1>3, <1>4, <1>5, WriteInStep, SteerInStep, ReadInStep, CliInStep, StepsSplit

LEMMA PrimarySame ==
  ASSUME PrimaryFirst, UNCHANGED ledger, pc' = "written" => pc = "written" PROVE PrimaryFirst'
  BY DEF PrimaryFirst

LEMMA PrimaryEmptied == ASSUME ledger' = <<>>, pc' # "written" PROVE PrimaryFirst'
  <1>1. Len(ledger') = 0
    OBVIOUS
  <1> QED
    BY <1>1 DEF PrimaryFirst

LEMMA NextPrimaryFirst ==
  ASSUME Types, Steering, MaxSelf = 0, Unasked, Selfless, NoPending, Plain, OutPlain, InStep,
         PrimaryFirst, [Next]_vars
  PROVE  PrimaryFirst'
  <1>0. ledger \in Seq(Lines) /\ Len(ledger) \in Nat
    BY LedgerTypes DEF Types, TurnTypes
  <1>1. CASE Arrival \/ HoldWake \/ Redrain \/ SteerClaim \/ SteerGivenBack \/ Flush \/ UNCHANGED vars
    <2>1. UNCHANGED <<ledger, pc>>
      BY <1>1 DEF Arrival, Enqueue, HoldWake, Redrain, SteerClaim, SteerGivenBack, Flush, vars, turn
    <2> QED
      BY <2>1, PrimarySame
  <1>2. CASE \/ DrainDropped \/ DrainRuns \/ Claim \/ WriteFails \/ ReadBegins \/ Finish \/ Count
             \/ SettleSkips \/ SettleFollowon \/ SettleDone \/ Bounce \/ Bounced \/ FollowonTimeout
    <2>1. UNCHANGED ledger /\ pc' # "written"
      BY <1>2
      DEF DrainDropped, DrainRuns, DrainStart, Claim, WriteFails, ReadBegins, Finish, Count,
          SettleSkips, SettleFollowon, SettleDone, LoopEnds, Bounce, Bounced, FollowonTimeout
    <2> QED
      BY <2>1, PrimarySame
  <1>3. CASE Die \/ Start \/ ReadResult \/ CliStart \/ CliMerge \/ CliResult
    <2>1. UNCHANGED ledger /\ (pc' = pc \/ pc' = "finish")
      BY <1>3 DEF Die, Start, ReadResult, Ended, CliStart, CliMerge, Consume, CliResult, turn
    <2> QED
      BY <2>1, PrimarySame
  <1>4. CASE ReadEOF \/ Watcher \/ KillEnds
    <2>1. ledger' = <<>> /\ pc' # "written"
      BY <1>4 DEF ReadEOF, Ended, Watcher, KillEnds, ReleasePending, Plain, turn
    <2> QED
      BY <2>1, PrimaryEmptied
  <1>5. CASE WriteLands
    <2>1. ledger = <<>> /\ ledger' = Append(ledger, Primary)
      BY <1>5 DEF WriteLands, NoPending
    <2>2. Len(ledger') = 1 /\ ledger'[1].kind = "primary"
      BY <2>1 DEF Primary, Line
    <2>3. ledger' # <<>> /\ \A i \in 1..Len(ledger') : i = 1
      BY <2>2
    <2> QED
      BY <2>2, <2>3 DEF PrimaryFirst
  <1>6. CASE SteerWrite
    <2>1. pc' # "written" /\ ledger' = Append(ledger, Line("steer", steering, batch.chan))
      <3>1. pc' = pc /\ ledger' = Append(ledger, Line("steer", steering, batch.chan))
        BY <1>6 DEF SteerWrite
      <3>2. pc = "read"
        BY <1>6 DEF SteerWrite, StillSteerable, Steerable
      <3> QED
        BY <3>1, <3>2
    <2>2. /\ Len(ledger') = Len(ledger) + 1 /\ \A i \in 1..Len(ledger) : ledger'[i] = ledger[i]
          /\ ledger'[Len(ledger) + 1].kind = "steer"
      BY <1>0, <2>1 DEF Line
    <2>3. \A i \in 1..Len(ledger') : i \in 1..Len(ledger) \/ i = Len(ledger) + 1
      BY <1>0, <2>2
    <2> QED
      BY <2>1, <2>2, <2>3 DEF PrimaryFirst
  <1>7. CASE ReadReplay
    <2>1. pc = "read" /\ pc' = "read"
      BY <1>7 DEF ReadReplay, Reading
    <2>2. PICK n \in 1..Len(ledger) :
            Len(ledger') = Len(ledger) - n /\ \A i \in 1..Len(ledger') : ledger'[i] = ledger[n + i]
      BY <1>7, <2>1, Taking
    <2>3. \A i \in 1..Len(ledger') : n + i \in 1..Len(ledger) /\ n + i # 1
      BY <1>0, <2>2
    <2>4. \A i \in 1..Len(ledger') : ledger'[i].kind # "primary"
      BY <2>2, <2>3 DEF PrimaryFirst
    <2> QED
      BY <2>1, <2>4 DEF PrimaryFirst
  <1> QED
    BY <1>1, <1>2, <1>3, <1>4, <1>5, <1>6, <1>7, StepsSplit DEF OutKept, SteerTask

\* No turn of the process is left on stdout.
LEMMA FramedEmptied == ASSUME out' = <<>>, ~running' PROVE Framed'
  <1>1. Len(out') = 0
    OBVIOUS
  <1> QED
    BY <1>1 DEF Framed

LEMMA ReadFramed ==
  ASSUME Types, Steering, Plain, OutPlain, InStep, PrimaryFirst, Framed, ReadReplay \/ ReadResult
  PROVE  Framed'
  <1>0. pc = "read" /\ running' = running
    BY DEF ReadReplay, ReadResult, Reading, model
  <1>1. out # <<>> /\ out' = Tail(out)
    BY <1>0, Taking, Ending
  <1>2. /\ Len(out) \in Nat /\ Len(out) > 0 /\ Len(out') = Len(out) - 1
        /\ \A i \in 1..Len(out') : i + 1 \in 1..Len(out) /\ out'[i] = out[i + 1]
    BY <1>1, OutTail
  <1>3. \A i \in 1..Len(out') : /\ (out'[i].t = "result" <=> IsResult(i + 1))
                                /\ (out'[i].t = "replay" <=> IsReplay(i + 1))
    BY <1>2 DEF IsResult, IsReplay
  <1>4. \A k \in 2..Len(out) : k - 1 \in 1..Len(out') /\ (k - 1) + 1 = k
    BY <1>2
  <1>5. ASSUME NEW i \in 1..Len(out'), NEW j \in 1..Len(out'), i < j, out'[i].t = "result", out'[j].t = "result"
        PROVE  \E k \in (i + 1)..(j - 1) : out'[k].t = "replay"
    <2>1. i + 1 \in 1..Len(out) /\ j + 1 \in 1..Len(out) /\ i + 1 < j + 1
      BY <1>2, <1>5
    <2>2. PICK k \in (i + 1 + 1)..(j + 1 - 1) : IsReplay(k)
      BY <1>3, <1>5, <2>1 DEF Framed
    <2>3. k \in 2..Len(out) /\ k - 1 \in (i + 1)..(j - 1)
      BY <1>2, <2>1
    <2> QED
      BY <1>3, <1>4, <2>2, <2>3
  <1>6. ASSUME NEW k \in 2..Len(out), IsReplay(k), \A j \in (k + 1)..Len(out) : ~IsResult(j)
        PROVE  /\ k - 1 \in 1..Len(out') /\ out'[k - 1].t = "replay"
               /\ \A j \in ((k - 1) + 1)..Len(out') : out'[j].t # "result"
    <2>1. k - 1 \in 1..Len(out') /\ out'[k - 1].t = "replay"
      BY <1>3, <1>4, <1>6
    <2>2. \A j \in ((k - 1) + 1)..Len(out') : j \in 1..Len(out') /\ j + 1 \in (k + 1)..Len(out)
      BY <1>2
    <2> QED
      BY <1>3, <1>6, <2>1, <2>2
  <1>7. CASE ReadReplay
    <2>1. IsReplay(1)
      BY <1>0, <1>7, Taking
    <2>2. InTurn'
      <3>1. PICK n \in 1..Len(ledger) :
              Len(ledger') = Len(ledger) - n /\ \A i \in 1..Len(ledger') : ledger'[i] = ledger[n + i]
        BY <1>0, <1>7, Taking
      <3>2. ledger' \in Seq(Lines) /\ Len(ledger) \in Nat /\ ledger \in Seq(Lines)
        <4>1. ledger' = SubSeq(ledger, Len(out[1].texts) + 1, Len(ledger)) /\ Len(out[1].texts) \in 1..Len(ledger)
          BY <1>0, <1>7, Taking
        <4>2. ledger \in Seq(Lines) /\ Len(ledger) \in Nat
          BY LedgerTypes DEF Types, TurnTypes
        <4>3. Len(out[1].texts) + 1 \in 1..(Len(ledger) + 1)
          BY <4>1, <4>2
        <4> QED
          BY <4>1, <4>2, <4>3, RestTyped
      <3>3. ledger' # <<>> => 1 \in 1..Len(ledger') /\ n + 1 \in 1..Len(ledger) /\ n + 1 # 1
        BY <3>1, <3>2, LenProperties, EmptySeq
      <3>4. ledger' = <<>> \/ ledger'[1].kind # "primary"
        BY <3>1, <3>3 DEF PrimaryFirst
      <3>5. pc' = "read" /\ ~batch'.awaiting
        <4>1. batch \in Batches
          BY DEF Types, TurnTypes
        <4> QED
          BY <1>0, <1>7, <4>1 DEF ReadReplay, Batches
      <3> QED
        BY <3>4, <3>5 DEF InTurn
    <2>3. ASSUME running'
          PROVE  \/ \E k \in 1..Len(out') : out'[k].t = "replay" /\ \A j \in (k + 1)..Len(out') : out'[j].t # "result"
                 \/ \A j \in 1..Len(out') : out'[j].t # "result"
      <3>1. CASE \E k \in 2..Len(out) : IsReplay(k) /\ \A j \in (k + 1)..Len(out) : ~IsResult(j)
        BY <1>6, <3>1
      <3>2. CASE \A j \in 2..Len(out) : ~IsResult(j)
        <4>1. \A j \in 1..Len(out') : j + 1 \in 2..Len(out)
          BY <1>2
        <4> QED
          BY <1>3, <3>2, <4>1
      <3>3. \A k \in 1..Len(out) : k = 1 \/ k \in 2..Len(out)
        BY <1>2
      <3>4. 2..Len(out) \subseteq 1..Len(out) /\ 1 + 1 = 2
        BY <1>2
      <3> QED
        BY <1>0, <2>3, <3>1, <3>2, <3>3, <3>4 DEF Framed
    <2> QED
      BY <1>5, <2>2, <2>3 DEF Framed, IsResult, IsReplay
  <1>8. CASE ReadResult
    <2>1. IsResult(1) /\ ~IsReplay(1) /\ 1 \in 1..Len(out) /\ pc' = "finish"
      BY <1>2, <1>8, Ending DEF IsResult, IsReplay
    <2>2. ASSUME out' # <<>> PROVE out'[1].t = "replay"
      <3>1. Len(out') # 0
        <4>1. out' \in Seq(Events)
          BY <1>1, OutTyped, HeadTailProperties
        <4> QED
          BY <2>2, <4>1, EmptySeq
      <3>2. 1 \in 1..Len(out') /\ 1 + 1 \in 1..Len(out) /\ 1 < 1 + 1
        BY <1>2, <3>1
      <3>3. ~IsResult(1 + 1)
        <4>1. \A k : k \notin (1 + 1)..((1 + 1) - 1)
          OBVIOUS
        <4> QED
          BY <2>1, <3>2, <4>1 DEF Framed
      <3> QED
        BY <1>3, <3>2, <3>3 DEF OutPlain
    <2>3. ASSUME running'
          PROVE  \E k \in 1..Len(out') : out'[k].t = "replay" /\ \A j \in (k + 1)..Len(out') : out'[j].t # "result"
      <3>1. PICK k \in 1..Len(out) : IsReplay(k) /\ \A j \in (k + 1)..Len(out) : ~IsResult(j)
        BY <1>0, <2>1, <2>3 DEF Framed
      <3>2. k \in 2..Len(out)
        BY <1>2, <2>1, <3>1
      <3> QED
        BY <1>6, <3>1, <3>2
    <2> QED
      BY <1>5, <2>1, <2>2, <2>3 DEF Framed, IsResult, IsReplay
  <1> QED
    BY <1>7, <1>8

LEMMA CliFramed ==
  ASSUME Types, Plain, Framed, CliStart \/ CliMerge \/ CliResult
  PROVE  Framed'
  <1>0. UNCHANGED <<pc, batch, ledger>>
    BY DEF CliStart, CliMerge, Consume, CliResult, turn
  <1>1. InTurn' <=> InTurn
    BY <1>0 DEF InTurn
  <1>2. CASE CliStart \/ CliMerge
    <2>1. PICK e \in Events : e.t = "replay" /\ out' = Append(out, e)
      <3>1. PICK n \in 1..Len(inq) : Consume(n)
        BY <1>2 DEF CliStart, CliMerge
      <3>2. Replay(SubSeq(inq, 1, n)) \in Events /\ out' = Append(out, Replay(SubSeq(inq, 1, n)))
        BY <3>1, Consuming
      <3>3. Replay(SubSeq(inq, 1, n)).t = "replay"
        BY DEF Replay
      <3> QED
        BY <3>2, <3>3
    <2>2. /\ Len(out) \in Nat /\ Len(out') = Len(out) + 1 /\ out'[Len(out) + 1].t = "replay"
          /\ \A i \in 1..Len(out) : out'[i] = out[i]
      BY <2>1, OutAppend
    <2>3. ASSUME NEW i \in 1..Len(out'), NEW j \in 1..Len(out'), i < j, out'[i].t = "result", out'[j].t = "result"
          PROVE  \E k \in (i + 1)..(j - 1) : out'[k].t = "replay"
      <3>1. j # Len(out) + 1
        BY <2>2, <2>3
      <3>2. i \in 1..Len(out) /\ j \in 1..Len(out)
        BY <2>2, <2>3, <3>1
      <3>3. PICK k \in (i + 1)..(j - 1) : IsReplay(k)
        BY <2>2, <2>3, <3>2 DEF Framed, IsResult
      <3>4. k \in 1..Len(out)
        BY <2>2, <3>2
      <3> QED
        BY <2>2, <3>3, <3>4 DEF IsReplay
    <2>4. ASSUME ~InTurn PROVE out'[1].t = "replay"
      <3>1. CASE out = <<>>
        <4>1. Len(out) + 1 = 1
          BY <3>1
        <4> QED
          BY <2>2, <4>1
      <3>2. CASE out # <<>>
        <4>1. 1 \in 1..Len(out)
          BY <2>2, <3>2, OutTyped, EmptySeq
        <4> QED
          BY <2>2, <2>4, <3>2, <4>1 DEF Framed, IsReplay
      <3> QED
        BY <3>1, <3>2
    <2>5. \E k \in 1..Len(out') : out'[k].t = "replay" /\ \A j \in (k + 1)..Len(out') : out'[j].t # "result"
      <3>1. Len(out) + 1 \in 1..Len(out') /\ \A j : j \notin (Len(out) + 1 + 1)..Len(out')
        BY <2>2
      <3> QED
        BY <2>2, <3>1
    <2> QED
      BY <1>1, <2>3, <2>4, <2>5 DEF Framed, IsResult, IsReplay
  <1>3. CASE CliResult
    <2>1. PICK e \in Events : running /\ ~running' /\ e.t = "result" /\ out' = Append(out, e)
      BY <1>3, Resulting
    <2>2. /\ Len(out) \in Nat /\ Len(out') = Len(out) + 1 /\ out'[Len(out) + 1].t = "result"
          /\ \A i \in 1..Len(out) : out'[i] = out[i]
      BY <2>1, OutAppend
    <2>3. \/ \E k \in 1..Len(out) : IsReplay(k) /\ \A j \in (k + 1)..Len(out) : ~IsResult(j)
          \/ InTurn /\ \A j \in 1..Len(out) : ~IsResult(j)
      BY <2>1 DEF Framed
    <2>4. ASSUME NEW i \in 1..Len(out'), NEW j \in 1..Len(out'), i < j, out'[i].t = "result", out'[j].t = "result"
          PROVE  \E k \in (i + 1)..(j - 1) : out'[k].t = "replay"
      <3>0. i \in 1..Len(out) /\ IsResult(i)
        BY <2>2, <2>4 DEF IsResult
      <3>1. CASE j = Len(out) + 1
        <4>1. PICK k \in 1..Len(out) : IsReplay(k) /\ \A l \in (k + 1)..Len(out) : ~IsResult(l)
          BY <2>3, <3>0
        <4>2. i \notin (k + 1)..Len(out) /\ i # k
          BY <3>0, <4>1 DEF IsReplay, IsResult
        <4>3. k \in (i + 1)..(j - 1)
          BY <2>2, <3>0, <3>1, <4>2
        <4> QED
          BY <2>2, <4>1, <4>3 DEF IsReplay
      <3>2. CASE j # Len(out) + 1
        <4>2. j \in 1..Len(out)
          BY <2>2, <3>2
        <4>3. PICK k \in (i + 1)..(j - 1) : IsReplay(k)
          BY <2>2, <2>4, <3>0, <4>2 DEF Framed, IsResult
        <4>4. k \in 1..Len(out)
          BY <2>2, <3>0, <4>2
        <4> QED
          BY <2>2, <4>3, <4>4 DEF IsReplay
      <3> QED
        BY <3>1, <3>2
    <2>5. ASSUME ~InTurn PROVE out'[1].t = "replay"
      <3>1. out # <<>> /\ 1 \in 1..Len(out)
        BY <2>2, <2>3, <2>5, OutTyped, EmptySeq
      <3> QED
        BY <2>2, <2>5, <3>1 DEF Framed, IsReplay
    <2> QED
      BY <1>1, <2>1, <2>4, <2>5 DEF Framed, IsResult, IsReplay
  <1> QED
    BY <1>2, <1>3

LEMMA NextFramed ==
  ASSUME Types, Steering, MaxSelf = 0, Unasked, Selfless, NoPending, Plain, OutPlain, InStep,
         PrimaryFirst, Framed, [Next]_vars
  PROVE  Framed'
  <1>0. ledger \in Seq(Lines) /\ Len(ledger) \in Nat /\ batch \in Batches
    BY LedgerTypes DEF Types, TurnTypes
  <1>1. CASE Arrival \/ HoldWake \/ Redrain \/ SteerClaim \/ SteerGivenBack \/ Flush \/ UNCHANGED vars
    <2>1. UNCHANGED <<ledger, pc, batch, running, out>>
      BY <1>1 DEF Arrival, Enqueue, HoldWake, Redrain, SteerClaim, SteerGivenBack, Flush, vars, turn, cli, model
    <2> QED
      BY <2>1, FramedSame DEF InTurn
  <1>2. CASE OutKept /\ pc # "read" /\ ~Start /\ ~SteerTask /\ ~Arrival /\ ~HoldWake /\ ~Redrain /\ ~Flush /\ ~(UNCHANGED vars)
    <2>1. out' = out
      BY <1>2, KeepsOut
    <2>2. running' => running
      BY <1>2
      DEF OutKept, DrainDropped, DrainRuns, Claim, WriteLands, WriteFails, ReadBegins, ReadEOF, Finish,
          Count, SettleSkips, SettleFollowon, SettleDone, Bounce, KillBegins, CliReset, Bounced,
          FollowonTimeout, Die, cli, model
    <2> QED
      BY <1>2, <2>1, <2>2, FramedSame DEF InTurn
  <1>3. CASE Die
    <2>1. UNCHANGED <<ledger, pc, batch, out>> /\ ~running'
      BY <1>3 DEF Die, CliReset, turn
    <2> QED
      BY <2>1, FramedSame DEF InTurn
  <1>4. CASE FollowonTimeout
    <2>1. out' = out /\ running' = running /\ ~InTurn
      BY <1>4 DEF FollowonTimeout, InTurn, cli, model
    <2> QED
      BY <2>1, FramedSame
  <1>5. CASE ReadEOF \/ Start \/ KillEnds
    <2>1. out' = <<>> /\ ~running'
      <3>1. CASE ReadEOF
        BY <3>1, Absent DEF ReadEOF, Plain, cli, model
      <3>2. CASE Start
        BY <3>2 DEF Start, NoPending, Plain, cli, model
      <3>3. CASE KillEnds
        BY <3>3 DEF KillEnds, Plain, model
      <3> QED
        BY <1>5, <3>1, <3>2, <3>3
    <2> QED
      BY <2>1, FramedEmptied
  <1>6. CASE Watcher
    <2>1. pc # "read" /\ ~running' /\ (out' = out \/ out' = <<>>)
      BY <1>6 DEF Watcher, Plain, model
    <2> QED
      BY <2>1, FramedEmptied, FramedSame DEF InTurn
  <1>7. CASE SteerWrite
    <2>1. /\ UNCHANGED <<pc, running, out>> /\ ledger' = Append(ledger, Line("steer", steering, batch.chan))
          /\ batch'.awaiting = batch.awaiting
      BY <1>0, <1>7 DEF SteerWrite, Batches, model
    <2>2. \/ ledger = <<>> /\ ledger'[1].kind = "steer"
          \/ ledger # <<>> /\ ledger'[1] = ledger[1]
      <3>1. /\ \A i \in 1..Len(ledger) : ledger'[i] = ledger[i]
            /\ ledger'[Len(ledger) + 1].kind = "steer"
        BY <1>0, <2>1 DEF Line
      <3>2. ledger # <<>> => 1 \in 1..Len(ledger)
        BY <1>0, EmptySeq
      <3>3. Len(<<>>) = 0
        OBVIOUS
      <3> QED
        BY <3>1, <3>2, <3>3
    <2> QED
      BY <2>1, <2>2, FramedSame DEF InTurn
  <1>8. pc = "read" /\ OutKept => \/ Arrival \/ HoldWake \/ Redrain \/ SteerTask \/ Flush \/ UNCHANGED vars
                                  \/ ReadEOF \/ FollowonTimeout \/ Die \/ Start
    BY DEF OutKept, DrainDropped, DrainRuns, DrainStart, Claim, WriteLands, WriteFails, ReadBegins,
           Finish, Count, SettleSkips, SettleFollowon, SettleDone, Settles, Bounce, Bounced
  <1> QED
    BY <1>1, <1>2, <1>3, <1>4, <1>5, <1>6, <1>7, <1>8, ReadFramed, CliFramed, StepsSplit DEF SteerTask

LEMMA EatenEmptied == ASSUME out' = <<>>, proc' # "alive", NEW S PROVE EatenAfter(0, S)'
  <1>1. Len(out') = 0
    OBVIOUS
  <1> QED
    BY <1>1 DEF EatenAfter

LEMMA ReplaysSame ==
  ASSUME ReplaysEaten, UNCHANGED out, proc' = "alive" => proc = "alive" /\ ate' = ate
  PROVE  ReplaysEaten'
  <1> SUFFICES ASSUME NEW i \in 1..Len(out'), out'[i].t = "replay", NEW k \in 1..Len(out'[i].texts)
               PROVE  EatenAfter(i, out[i].texts[k])'
    BY DEF ReplaysEaten, IsReplay
  <1>1. PICK S : S = out[i].texts[k]
    OBVIOUS
  <1>2. EatenAfter(i, S)
    BY <1>1 DEF ReplaysEaten, IsReplay
  <1>3. EatenAfter(i, S)' /\ S = out'[i].texts[k]
    BY <1>1, <1>2, EatenSame
  <1> QED
    BY <1>3 DEF EatenAfter

LEMMA ReplaysEmptied == ASSUME out' = <<>> PROVE ReplaysEaten'
  <1>1. Len(out') = 0
    OBVIOUS
  <1> QED
    BY <1>1 DEF ReplaysEaten

\* A step that leaves stdout, what the CLI consumed and the turn's rows alone.
LEMMA ConsumedSame ==
  ASSUME Consumed, UNCHANGED out, proc' = "alive" => proc = "alive" /\ UNCHANGED <<inq, running, ate>>,
         pc' \in {"written", "read"} =>
             pc' = pc /\ batch'.rows = batch.rows /\ batch'.merged = batch.merged,
         pc' = "finish" =>
             pc' = pc /\ batch'.rows = batch.rows /\ batch'.merged = batch.merged
               /\ batch'.result = batch.result /\ batch'.ate = batch.ate
  PROVE  Consumed'
  <1>1. ASSUME NEW m, NEW S, EatenAfter(m, S) PROVE EatenAfter(m, S)'
    BY <1>1, EatenSame
  <1>2. ReplaysEaten'
    BY ReplaysSame DEF Consumed
  <1>3. ASSUME pc' = "read" PROVE EatenAfter(0, batch.merged)'
    <2>1. PICK S : S = batch.merged
      OBVIOUS
    <2>2. EatenAfter(0, S)
      BY <1>3, <2>1 DEF Consumed
    <2>3. EatenAfter(0, S)' /\ S = batch'.merged
      BY <1>1, <1>3, <2>1, <2>2
    <2> QED
      BY <2>3 DEF EatenAfter
  <1>4. ASSUME pc' \in {"written", "read"}
        PROVE  RowsEaten'
    <2>1. PICK S : S = batch.rows
      OBVIOUS
    <2>2. S = batch'.rows
      BY <1>4, <2>1
    <2>3. CASE EatenAfter(0, S)
      <3>1. EatenAfter(0, S)'
        BY <1>1, <2>3
      <3> QED
        BY <2>2, <3>1 DEF RowsEaten, EatenAfter
    <2>4. CASE out = <<>> /\ proc' # "alive"
      <3>1. EatenAfter(0, S)'
        BY <2>4, EatenEmptied
      <3> QED
        BY <2>2, <3>1 DEF RowsEaten, EatenAfter
    <2>5. CASE out = <<>> /\ ~running /\ inq # <<>> /\ inq[1] = batch.rows /\ proc' = "alive"
      BY <2>1, <2>2, <2>5 DEF RowsEaten
    <2> QED
      BY <1>4, <2>1, <2>3, <2>4, <2>5 DEF Consumed, RowsEaten
  <1>5. pc' = "finish" => batch'.result = "died" \/ Answered' \subseteq batch'.ate
    BY DEF Consumed, Answered
  <1> QED
    BY <1>2, <1>3, <1>4, <1>5 DEF Consumed

LEMMA ConsumedEmptied ==
  ASSUME out' = <<>>, pc' \notin {"written", "read", "finish"} PROVE Consumed'
  BY ReplaysEmptied DEF Consumed

LEMMA WriteConsumed ==
  ASSUME Types, NoPending, Plain, OutPlain, InStep, Framed, Steering, WriteLands
  PROVE  Consumed'
  <1>1. /\ pc = "write" /\ pc' = "written" /\ batch' = batch /\ UNCHANGED <<out, running, proc>>
        /\ (proc = "alive" => inq' = Append(inq, batch.rows))
    BY DEF WriteLands, process, model
  <1>2. ledger = <<>> /\ ~gaveup
    BY <1>1 DEF NoPending, Plain
  <1>3. out = <<>> /\ ~running /\ (proc = "alive" => inq = <<>>)
    BY <1>1, <1>2, Silent
  <1>4. ReplaysEaten'
    BY <1>1, <1>3, ReplaysEmptied
  <1>5. CASE proc = "alive"
    <2>1. inq' # <<>> /\ inq'[1] = batch.rows
      <3>1. inq' = <<batch.rows>>
        BY <1>1, <1>3, <1>5
      <3> QED
        BY <3>1
    <2> QED
      BY <1>1, <1>3, <1>4, <2>1 DEF Consumed, RowsEaten
  <1>6. CASE proc # "alive"
    <2>1. PICK S : S = batch.rows
      OBVIOUS
    <2>2. EatenAfter(0, S)' /\ S = batch'.rows
      BY <1>1, <1>3, <1>6, <2>1, EatenEmptied
    <2>3. EatenAfter(0, batch.rows)'
      BY <2>2 DEF EatenAfter
    <2> QED
      BY <1>1, <1>4, <2>3 DEF Consumed, RowsEaten
  <1> QED
    BY <1>5, <1>6

\* Nothing is among anything.
LEMMA EatenNothing == ASSUME NEW m PROVE EatenAfter(m, {}) /\ EatenAfter(m, {})'
  BY DEF EatenAfter

LEMMA BeginsConsumed ==
  ASSUME Types, Plain, BatchBegins, Consumed, ReadBegins PROVE Consumed'
  <1>1. proc # "none"
    BY DEF ReadBegins, Plain
  <1>2. /\ pc = "written" /\ pc' = "read" /\ batch' = batch
        /\ UNCHANGED <<out, inq, running, ate, proc>>
    BY <1>1 DEF ReadBegins, cli, model, process
  <1>3. batch.merged = {}
    BY <1>2 DEF BatchBegins
  <1>4. EatenAfter(0, batch.merged)'
    BY <1>2, <1>3 DEF EatenAfter
  <1>5. ReplaysEaten'
    BY <1>2, ReplaysSame DEF Consumed
  <1>6. RowsEaten'
    BY <1>2 DEF Consumed, RowsEaten, IsResult, EatenAfter
  <1> QED
    BY <1>2, <1>4, <1>5, <1>6 DEF Consumed

LEMMA FollowonConsumed == ASSUME Types, Consumed, SettleFollowon PROVE Consumed'
  <1>1. /\ pc' = "read" /\ batch'.rows = {} /\ batch'.merged = {} /\ UNCHANGED <<out, proc, ate>>
    BY DEF SettleFollowon, Batch, cli, model, process
  <1>2. EatenAfter(0, batch.merged)' /\ EatenAfter(0, batch.rows)'
    BY <1>1 DEF EatenAfter
  <1>3. ReplaysEaten'
    BY <1>1, ReplaysSame DEF Consumed
  <1> QED
    BY <1>1, <1>2, <1>3 DEF Consumed, RowsEaten

LEMMA SteerConsumed == ASSUME Types, Consumed, SteerWrite PROVE Consumed'
  <1>1. /\ pc = "read" /\ pc' = "read" /\ UNCHANGED <<out, proc, ate, running>> /\ inq' = Append(inq, steering)
    BY DEF SteerWrite, StillSteerable, Steerable, model, process
  <1>2. batch'.rows = batch.rows /\ batch'.merged = batch.merged
    BY DEF SteerWrite, Types, TurnTypes, Batches
  <1>3. inq # <<>> => inq' # <<>> /\ inq'[1] = inq[1]
    <2>1. inq \in Seq(SUBSET Rows)
      BY DEF Types, CliTypes
    <2>2. ASSUME inq # <<>> PROVE Len(inq') # 0 /\ inq'[1] = inq[1]
      <3>1. Len(inq) \in Nat /\ 1 \in 1..Len(inq)
        BY <2>1, <2>2, EmptySeq, LenProperties
      <3> QED
        BY <1>1, <2>1, <3>1
    <2>3. Len(<<>>) = 0
      OBVIOUS
    <2> QED
      BY <2>2, <2>3
  <1>4. EatenAfter(0, batch.merged)'
    BY <1>1, <1>2 DEF Consumed, EatenAfter, IsResult
  <1>5. ReplaysEaten'
    BY <1>1, ReplaysSame DEF Consumed
  <1>6. RowsEaten'
    <2>1. CASE EatenAfter(0, batch.rows)
      BY <1>1, <1>2, <2>1 DEF RowsEaten, IsResult, EatenAfter
    <2>2. CASE out = <<>> /\ ~running /\ inq # <<>> /\ inq[1] = batch.rows
      BY <1>1, <1>2, <1>3, <2>2 DEF RowsEaten
    <2> QED
      BY <1>1, <2>1, <2>2 DEF Consumed, RowsEaten
  <1> QED
    BY <1>1, <1>4, <1>5, <1>6 DEF Consumed

\* The reader takes a replay: what it stood for goes on being consumed in this turn.
LEMMA ReplayConsumed ==
  ASSUME Types, Steering, Plain, OutPlain, InStep, Consumed, ReadReplay PROVE Consumed'
  <1>1. /\ pc = "read" /\ pc' = "read" /\ UNCHANGED <<proc, ate, inq, running>>
    BY DEF ReadReplay, Reading, process, model
  <1>2. /\ out # <<>> /\ out' = Tail(out) /\ IsReplay(1) /\ ~IsResult(1)
    BY <1>1, Taking DEF IsReplay, IsResult
  <1>3. PICK n \in 1..Len(ledger) :
          /\ n = Len(out[1].texts) /\ \A i \in 1..n : ledger[i].rows = out[1].texts[i]
          /\ batch' = [batch EXCEPT !.awaiting = FALSE, !.merged = @ \cup SteerRows(n)]
    BY <1>1, Taking
  <1>4. /\ Len(out) \in Nat /\ Len(out) > 0 /\ Len(out') = Len(out) - 1
        /\ \A i \in 1..Len(out') : i + 1 \in 1..Len(out) /\ out'[i] = out[i + 1]
    BY <1>2, OutTail
  <1>5. ASSUME NEW m \in 1..Len(out), NEW S, EatenAfter(m, S) PROVE EatenAfter(m - 1, S)'
    BY <1>1, <1>2, <1>5, EatenTail
  <1>6. 1 \in 1..Len(out) /\ 1 - 1 = 0 /\ 0 \in 0..Len(out) /\ 0 < Len(out) /\ 0 + 1 = 1
    BY <1>4
  <1>7. ASSUME NEW S, EatenAfter(0, S) PROVE EatenAfter(0, S)'
    <2>1. EatenAfter(1, S)
      <3>1. EatenAfter(0 + 1, S)
        BY <1>2, <1>6, <1>7, EatenNext
      <3> QED
        BY <1>6, <3>1
    <2>2. EatenAfter(1 - 1, S)'
      BY <1>5, <1>6, <2>1
    <2> QED
      BY <1>6, <2>2
  <1>8. ReplaysEaten'
    <2> SUFFICES ASSUME NEW i \in 1..Len(out'), out'[i].t = "replay", NEW k \in 1..Len(out'[i].texts)
                 PROVE  EatenAfter(i, out[i].texts[k])'
      BY DEF ReplaysEaten, IsReplay
    <2>1. PICK S : S = out'[i].texts[k]
      OBVIOUS
    <2>2. i + 1 \in 1..Len(out) /\ out'[i] = out[i + 1] /\ i \in Nat
      BY <1>4
    <2>3. EatenAfter(i + 1, S)
      BY <2>1, <2>2 DEF Consumed, ReplaysEaten, IsReplay
    <2>4. EatenAfter((i + 1) - 1, S)' /\ (i + 1) - 1 = i
      BY <1>5, <2>2, <2>3
    <2>5. EatenAfter(i, S)'
      BY <2>4
    <2> QED
      BY <2>1, <2>5 DEF EatenAfter
  <1>9. EatenAfter(0, batch.merged)'
    <2>1. PICK M : M = batch.merged
      OBVIOUS
    <2>2. EatenAfter(0, M)'
      BY <1>1, <1>7, <2>1 DEF Consumed
    <2>3. ASSUME NEW i \in 1..n, NEW S, S = ledger[i].rows PROVE EatenAfter(0, S)'
      <3>1. EatenAfter(1, S)
        BY <1>2, <1>3, <1>6, <2>3 DEF Consumed, ReplaysEaten
      <3>2. EatenAfter(1 - 1, S)'
        BY <1>5, <1>6, <3>1
      <3> QED
        BY <1>6, <3>2
    <2>4. batch'.merged = M \cup SteerRows(n)
      <3>1. batch \in Batches
        BY DEF Types, TurnTypes
      <3> QED
        BY <1>3, <2>1, <3>1 DEF Batches
    <2>5. ASSUME NEW r \in batch'.merged PROVE EatenAfter(0, {r})'
      <3>1. CASE r \in M
        BY <2>2, <3>1 DEF EatenAfter
      <3>2. CASE r \in SteerRows(n)
        <4>1. PICK i \in 1..n : r \in ledger[i].rows
          BY <3>2 DEF SteerRows
        <4>2. PICK S : S = ledger[i].rows
          OBVIOUS
        <4>3. EatenAfter(0, S)' /\ r \in S
          BY <2>3, <4>1, <4>2
        <4> QED
          BY <4>3 DEF EatenAfter
      <3> QED
        BY <2>4, <2>5, <3>1, <3>2
    <2> QED
      BY <2>5 DEF EatenAfter
  <1>10. EatenAfter(0, batch.rows)'
    <2>1. PICK S : S = batch.rows
      OBVIOUS
    <2>2. EatenAfter(0, S)
      BY <1>1, <1>2, <2>1 DEF Consumed, RowsEaten
    <2>3. S = batch'.rows
      <3>1. batch \in Batches
        BY DEF Types, TurnTypes
      <3> QED
        BY <1>3, <2>1, <3>1 DEF Batches
    <2>4. EatenAfter(0, S)'
      BY <1>7, <2>2
    <2> QED
      BY <2>3, <2>4 DEF EatenAfter
  <1> QED
    BY <1>1, <1>8, <1>9, <1>10 DEF Consumed, RowsEaten

\* The reader takes the result: the rows of the turn are among those it names.
LEMMA ResultConsumed ==
  ASSUME Types, Steering, Plain, OutPlain, Consumed, ReadResult PROVE Consumed'
  <1>1. pc = "read" /\ UNCHANGED <<proc, ate>>
    BY DEF ReadResult, Reading, process, model
  <1>2. /\ out # <<>> /\ out' = Tail(out) /\ IsResult(1) /\ pc' = "finish"
        /\ batch'.ate = out[1].ate /\ batch'.rows = batch.rows /\ batch'.merged = batch.merged
    BY Ending
  <1>3. /\ Len(out) \in Nat /\ Len(out) > 0 /\ Len(out') = Len(out) - 1
        /\ \A i \in 1..Len(out') : i + 1 \in 1..Len(out) /\ out'[i] = out[i + 1]
    BY <1>2, OutTail
  <1>4. ReplaysEaten'
    <2> SUFFICES ASSUME NEW i \in 1..Len(out'), out'[i].t = "replay", NEW k \in 1..Len(out'[i].texts)
                 PROVE  EatenAfter(i, out[i].texts[k])'
      BY DEF ReplaysEaten, IsReplay
    <2>1. PICK S : S = out'[i].texts[k]
      OBVIOUS
    <2>2. i + 1 \in 1..Len(out) /\ out'[i] = out[i + 1] /\ i \in Nat
      BY <1>3
    <2>3. EatenAfter(i + 1, S)
      BY <2>1, <2>2 DEF Consumed, ReplaysEaten, IsReplay
    <2>4. EatenAfter((i + 1) - 1, S)' /\ (i + 1) - 1 = i
      BY <1>1, <1>2, <2>2, <2>3, EatenTail
    <2>5. EatenAfter(i, S)'
      BY <2>4
    <2> QED
      BY <2>1, <2>5 DEF EatenAfter
  <1>5. ASSUME NEW S, EatenAfter(0, S) PROVE S \subseteq out[1].ate
    <2>1. 1 \in (0 + 1)..Len(out) /\ \A j : j \notin (0 + 1)..(1 - 1)
      BY <1>3
    <2> QED
      BY <1>2, <1>5, <2>1 DEF EatenAfter
  <1>6. batch.merged \subseteq out[1].ate /\ batch.rows \subseteq out[1].ate
    BY <1>1, <1>2, <1>5 DEF Consumed, RowsEaten
  <1> QED
    BY <1>2, <1>4, <1>6 DEF Consumed, Answered

\* The CLI takes lines from its stdin: they are of the turn it is in.
LEMMA ConsumeConsumed ==
  ASSUME Types, Plain, Consumed, CliStart \/ CliMerge PROVE Consumed'
  <1>1. PICK n \in 1..Len(inq) : Consume(n)
    BY DEF CliStart, CliMerge
  <1>2. PICK e : e = Replay(SubSeq(inq, 1, n))
    OBVIOUS
  <1>3. /\ proc = "alive" /\ Len(inq) \in Nat /\ e \in Events /\ out' = Append(out, e) /\ ate \subseteq ate'
        /\ e.t = "replay" /\ Len(e.texts) = n
        /\ \A i \in 1..n : e.texts[i] = inq[i] /\ inq[i] \subseteq ate'
    BY <1>1, <1>2, Consuming DEF Replay
  <1>4. UNCHANGED <<proc, pc, batch>>
    BY <1>1 DEF Consume, process, turn
  <1>5. /\ Len(out) \in Nat /\ Len(out') = Len(out) + 1 /\ out'[Len(out) + 1] = e
        /\ \A i \in 1..Len(out) : out'[i] = out[i]
    BY <1>3, OutAppend
  <1>6. ASSUME NEW m \in 0..Len(out), NEW S, EatenAfter(m, S) PROVE EatenAfter(m, S)'
    BY <1>3, <1>4, <1>6, EatenReplay
  <1>7. ReplaysEaten'
    <2> SUFFICES ASSUME NEW i \in 1..Len(out'), out'[i].t = "replay", NEW k \in 1..Len(out'[i].texts)
                 PROVE  EatenAfter(i, out[i].texts[k])'
      BY DEF ReplaysEaten, IsReplay
    <2>1. PICK S : S = out'[i].texts[k]
      OBVIOUS
    <2>2. EatenAfter(i, S)'
      <3>1. CASE i \in 1..Len(out)
        <4>1. EatenAfter(i, S) /\ i \in 0..Len(out)
          BY <1>5, <2>1, <3>1 DEF Consumed, ReplaysEaten, IsReplay
        <4> QED
          BY <1>6, <4>1
      <3>2. CASE i = Len(out) + 1
        <4>1. S \subseteq ate'
          BY <1>3, <1>5, <2>1, <3>2
        <4>2. \A j : j \notin (i + 1)..Len(out')
          BY <1>5, <3>2
        <4> QED
          BY <4>1, <4>2 DEF EatenAfter
      <3> QED
        BY <1>5, <3>1, <3>2
    <2> QED
      BY <2>1, <2>2 DEF EatenAfter
  <1>8. 0 \in 0..Len(out)
    BY <1>5
  <1>9. ASSUME pc' = "read" PROVE EatenAfter(0, batch.merged)'
    <2>1. PICK S : S = batch.merged
      OBVIOUS
    <2>2. EatenAfter(0, S)' /\ S = batch'.merged
      BY <1>4, <1>6, <1>8, <1>9, <2>1 DEF Consumed
    <2> QED
      BY <2>2 DEF EatenAfter
  <1>10. ASSUME pc' \in {"written", "read"} PROVE RowsEaten'
    <2>1. PICK S : S = batch.rows
      OBVIOUS
    <2>2. CASE EatenAfter(0, S)
      <3>1. EatenAfter(0, S)' /\ S = batch'.rows
        BY <1>4, <1>6, <1>8, <2>1, <2>2
      <3> QED
        BY <3>1 DEF RowsEaten, EatenAfter
    <2>3. CASE out = <<>> /\ inq # <<>> /\ inq[1] = batch.rows
      <3>1. batch'.rows \subseteq ate'
        <4>1. 1 \in 1..n
          BY <1>3
        <4> QED
          BY <1>3, <1>4, <2>3, <4>1
      <3>2. \A i \in (0 + 1)..Len(out') : out'[i].t # "result"
        <4>1. Len(out) = 0
          BY <2>3
        <4>2. \A i \in (0 + 1)..Len(out') : i = Len(out) + 1
          BY <1>5, <4>1
        <4> QED
          BY <1>3, <1>5, <4>2
      <3> QED
        BY <3>1, <3>2 DEF RowsEaten, EatenAfter, IsResult
    <2> QED
      BY <1>4, <1>10, <2>1, <2>2, <2>3 DEF Consumed, RowsEaten
  <1>11. pc' = "finish" => batch'.result = "died" \/ Answered' \subseteq batch'.ate
    BY <1>4 DEF Consumed, Answered
  <1> QED
    BY <1>7, <1>9, <1>10, <1>11 DEF Consumed

\* The CLI ends its turn.
LEMMA EndConsumed == ASSUME Types, Plain, Consumed, CliResult PROVE Consumed'
  <1>1. PICK e \in Events : /\ proc = "alive" /\ running /\ ~running'
                            /\ e.t = "result" /\ e.ate = ate /\ out' = Append(out, e)
    BY Resulting
  <1>4. UNCHANGED <<proc, pc, batch>>
    BY DEF CliResult, process, turn
  <1>5. /\ Len(out) \in Nat /\ Len(out') = Len(out) + 1 /\ out'[Len(out) + 1] = e
        /\ \A i \in 1..Len(out) : out'[i] = out[i]
    BY <1>1, OutAppend
  <1>6. ASSUME NEW m \in 0..Len(out), NEW S, EatenAfter(m, S) PROVE EatenAfter(m, S)'
    BY <1>1, <1>6, EatenResult
  <1>7. ReplaysEaten'
    <2> SUFFICES ASSUME NEW i \in 1..Len(out'), out'[i].t = "replay", NEW k \in 1..Len(out'[i].texts)
                 PROVE  EatenAfter(i, out[i].texts[k])'
      BY DEF ReplaysEaten, IsReplay
    <2>1. PICK S : S = out'[i].texts[k]
      OBVIOUS
    <2>2. i \in 1..Len(out)
      <3>1. i # Len(out) + 1
        BY <1>1, <1>5
      <3> QED
        BY <1>5, <3>1
    <2>3. EatenAfter(i, S) /\ i \in 0..Len(out)
      BY <1>5, <2>1, <2>2 DEF Consumed, ReplaysEaten, IsReplay
    <2>4. EatenAfter(i, S)'
      BY <1>6, <2>3
    <2> QED
      BY <2>1, <2>4 DEF EatenAfter
  <1>8. 0 \in 0..Len(out)
    BY <1>5
  <1>9. ASSUME pc' = "read" PROVE EatenAfter(0, batch.merged)'
    <2>1. PICK S : S = batch.merged
      OBVIOUS
    <2>2. EatenAfter(0, S)' /\ S = batch'.merged
      BY <1>4, <1>6, <1>8, <1>9, <2>1 DEF Consumed
    <2> QED
      BY <2>2 DEF EatenAfter
  <1>10. ASSUME pc' \in {"written", "read"} PROVE RowsEaten'
    <2>1. PICK S : S = batch.rows
      OBVIOUS
    <2>2. EatenAfter(0, S)
      BY <1>1, <1>4, <1>10, <2>1 DEF Consumed, RowsEaten
    <2>3. EatenAfter(0, S)' /\ S = batch'.rows
      BY <1>4, <1>6, <1>8, <2>1, <2>2
    <2> QED
      BY <2>3 DEF RowsEaten, EatenAfter
  <1>11. pc' = "finish" => batch'.result = "died" \/ Answered' \subseteq batch'.ate
    BY <1>4 DEF Consumed, Answered
  <1> QED
    BY <1>7, <1>9, <1>10, <1>11 DEF Consumed

LEMMA NextConsumed ==
  ASSUME Types, BatchBegins, Steering, MaxSelf = 0, Unasked, Selfless, NoPending, Plain, OutPlain, InStep,
         Framed, Consumed, [Next]_vars
  PROVE  Consumed'
  <1>0. batch \in Batches
    BY DEF Types, TurnTypes
  <1>1. CASE Arrival \/ HoldWake \/ Redrain \/ SteerClaim \/ SteerGivenBack \/ Flush \/ UNCHANGED vars
    <2>1. UNCHANGED <<out, proc, inq, running, ate, pc, batch>>
      BY <1>1
      DEF Arrival, Enqueue, HoldWake, Redrain, SteerClaim, SteerGivenBack, Flush, vars, turn, process,
          cli, model
    <2> QED
      BY <2>1, ConsumedSame
  <1>2. CASE DrainDropped \/ DrainRuns \/ Claim \/ WriteFails \/ Finish \/ Count
    <2>1. out' = out
      BY <1>2, KeepsOut DEF OutKept
    <2>2. UNCHANGED <<proc, inq, running, ate>> /\ pc' \notin {"written", "read", "finish"}
      <3>1. ~bgseen
        BY DEF Selfless
      <3> QED
        BY <1>2, <3>1
        DEF DrainDropped, DrainRuns, DrainStart, Claim, WriteFails, Finish, Count, process, cli, model
    <2> QED
      BY <2>1, <2>2, ConsumedSame
  <1>3. CASE SettleSkips \/ SettleDone \/ Bounced \/ FollowonTimeout
    <2>1. out' = out
      BY <1>3, KeepsOut DEF OutKept
    <2>2. UNCHANGED <<proc, inq, running, ate>> /\ pc' \notin {"written", "read", "finish"}
      BY <1>3 DEF SettleSkips, SettleDone, LoopEnds, Bounced, FollowonTimeout, process, cli, model
    <2> QED
      BY <2>1, <2>2, ConsumedSame
  <1>4. CASE Bounce \/ Die
    <2>1. out' = out /\ proc' # "alive"
      BY <1>4 DEF Bounce, KillBegins, Die
    <2>2. pc' \notin {"written", "read", "finish"} \/ UNCHANGED <<pc, batch>>
      BY <1>4 DEF Bounce, Die, turn
    <2> QED
      BY <2>1, <2>2, ConsumedSame
  <1>5. CASE Start \/ KillEnds
    <2>1. out' = <<>>
      BY <1>5 DEF Start, KillEnds, NoPending, Plain, cli
    <2>2. pc' \notin {"written", "read", "finish"}
      BY <1>5 DEF Start, KillEnds, Plain, turn
    <2> QED
      BY <2>1, <2>2, ConsumedEmptied
  <1>6. CASE Watcher
    <2>1. pc' \notin {"written", "read", "finish"}
      BY <1>6 DEF Watcher, turn
    <2>2. out' = <<>> \/ (out' = out /\ proc' # "alive")
      BY <1>6 DEF Watcher
    <2> QED
      BY <2>1, <2>2, ConsumedEmptied, ConsumedSame
  <1>7. CASE ReadEOF
    <2>1. out' = <<>>
      BY <1>7, Absent DEF ReadEOF, cli
    <2>2. pc' = "finish" /\ batch'.result = "died"
      BY <1>0, <1>7 DEF ReadEOF, Ended, Plain, Batches
    <2> QED
      BY <2>1, <2>2, ReplaysEmptied DEF Consumed
  <1> QED
    BY <1>1, <1>2, <1>3, <1>4, <1>5, <1>6, <1>7, WriteConsumed, BeginsConsumed, FollowonConsumed,
       SteerConsumed, ReplayConsumed, ResultConsumed, ConsumeConsumed, EndConsumed, StepsSplit
    DEF OutKept, SteerTask

\* Where the loop is steered, no turn starts by itself and no operator does more than
\* flush the queue, a row is marked complete only if the CLI consumed it in the turn whose
\* result was read: through steering, lines that join a turn late, follow-on turns, bounces
\* of the process and its deaths.
THEOREM Consumption == Steering /\ MaxSelf = 0 /\ Unasked => (Spec => []CompleteConsumed)
  <1> SUFFICES ASSUME Steering, MaxSelf = 0, Unasked PROVE Spec => []CompleteConsumed
    OBVIOUS
  <1> DEFINE Inv == Selfless /\ NoPending /\ FlowInv
  <1>1. Init => Inv
    <2> SUFFICES ASSUME Init PROVE Inv
      OBVIOUS
    <2>1. Selfless /\ NoPending /\ Plain
      BY DEF Init, Selfless, NoneAnnounced, NoPending, Plain, Batch
    <2>2. out = <<>> /\ ledger = <<>> /\ inq = <<>> /\ ~running /\ pc = "free"
      BY DEF Init
    <2>3. Len(out) = 0 /\ Len(ledger) = 0 /\ Len(inq) = 0
      BY <2>2
    <2>4. OutPlain /\ PrimaryFirst /\ Framed /\ Consumed
      BY <2>2, <2>3 DEF OutPlain, PrimaryFirst, Framed, Consumed, ReplaysEaten
    <2>5. InStep
      <3> DEFINE p == [i \in {1} |-> 0]
      <3>1. Spots = {1} /\ p \in [{1} -> 0..Len(ledger)] /\ p[1] = 0
        BY <2>3 DEF Spots
      <3> HIDE DEF p
      <3>2. Stands(p)
        BY <2>3, <3>1 DEF Stands
      <3> QED
        BY <3>1, <3>2 DEF InStep
    <2> QED
      BY <2>1, <2>4, <2>5 DEF FlowInv
  <1>2. IInv /\ Inv /\ [Next]_vars => Inv'
    <2>1. Quiet
      BY DEF Quiet
    <2> QED
      BY <2>1, NextSelfless, NextPending, NextPlain, NextOutPlain, NextInStep, NextPrimaryFirst, NextFramed,
         NextConsumed DEF IInv, Kept, FlowInv
  <1>3. IInv /\ Inv => CompleteConsumed
    <2> SUFFICES ASSUME Inv, pc = "finish", Verdict = "complete" PROVE Answered \subseteq batch.ate
      BY DEF CompleteConsumed
    <2>1. batch.origin # "self" /\ (batch.result = "died" \/ Answered \subseteq batch.ate)
      BY DEF FlowInv, Plain, Consumed
    <2>2. batch.result # "died"
      BY <2>1 DEF Verdict
    <2> QED
      BY <2>1, <2>2
  <1> HIDE DEF Inv
  <1> QED
    BY <1>1, <1>2, <1>3, Inductive, PTL DEF Spec
=============================================================================
