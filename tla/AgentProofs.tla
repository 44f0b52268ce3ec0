----------------------------- MODULE AgentProofs -----------------------------
(***************************************************************************)
(* What holds of the components of the agent server for every number of    *)
(* shards, calls, requests, processes, deaths and restarts.  One section   *)
(* per component: its inductive invariant, that it holds at first and that *)
(* each step keeps it.  The last section carries the invariants over to    *)
(* the agent server as a whole.  The lemmas of work stealing and of        *)
(* sessions stand in Shards and Session.                                   *)
(*                                                                         *)
(* Two theorems have a hypothesis of their own, about what the walls and   *)
(* the operator may do: StealsAreRightHolds and SessionsCarryOverHolds.    *)
(***************************************************************************)
EXTENDS MCAgents, Integers, FiniteSetTheorems, SequenceTheorems, TLAPS

-----------------------------------------------------------------------------
(* Hive *)

\* The calls there are, and the requests that may still make one, within the bound; the
\* requests are counted, since two of them may be between the depths and the choice.
HiveTypes ==
  /\ hturn \in [HShards -> {NoTurn, PersonTurn} \cup {CallTurn(c) : c \in Calls}]
  /\ made \in Nat /\ IsFiniteSet(asking) /\ made + Cardinality(asking) <= MaxCalls
  /\ call = [c \in Calls |-> call[c]]
  /\ callRow \in [Calls -> {"none", "queued", "held", "inprogress", "complete", "crashed", "expired",
                            "cancelled", "abandoned"}]
  /\ replyRow \in [Calls -> {"none", "queued", "complete", "late", "stale"}]
  /\ body \in [Calls -> SUBSET {"answer", "error", "expired"}]
  /\ open \subseteq 1..made
  /\ age \in [Calls -> Nat]

\* What a call's rows say together: no reply while its row waits, one afterwards, and the
\* row that nobody has claimed is one a caller waits for or that has expired.
CallOk(c) ==
  /\ c > made => callRow[c] = "none" /\ replyRow[c] = "none" /\ body[c] = {}
  /\ callRow[c] \in Waiting => body[c] = {}
  /\ body[c] = {} \/ \E x : body[c] = {x}
  /\ callRow[c] = "queued" => replyRow[c] = "none" /\ (c \in open \/ age[c] >= 1)

\* A call runs in its callee only, and is not answered while it runs.
RunOk(s, c) ==
  hturn[s] = CallTurn(c) =>
    c \in 1..made /\ call[c].callee = s /\ callRow[c] \in {"inprogress", "crashed"} /\ body[c] = {}

HiveInv ==
  /\ HiveTypes
  /\ \A c \in Calls : CallOk(c)
  /\ \A s \in HShards, c \in Calls : RunOk(s, c)

LEMMA HiveStarts == ASSUME HiveAssumption PROVE HiveInit => HiveInv
<1> SUFFICES ASSUME HiveInit PROVE HiveInv
    OBVIOUS
<1>1. MaxCalls \in Nat  BY DEF HiveAssumption
<1>2. IsFiniteSet({}) /\ Cardinality({}) = 0  BY FS_EmptySet
<1>3. HiveTypes  BY <1>1, <1>2 DEF HiveInit, HiveTypes
<1>4. \A c \in Calls : CallOk(c)  BY DEF HiveInit, CallOk, Waiting
<1>5. \A s \in HShards, c \in Calls : RunOk(s, c)  BY DEF HiveInit, RunOk, NoTurn, CallTurn
<1> QED  BY <1>3, <1>4, <1>5 DEF HiveInv

\* The requests whose caller's turn is over are no more than they were.
LEMMA OrphansCount ==
  ASSUME NEW s, IsFiniteSet(asking)
  PROVE  IsFiniteSet(Orphaned(s)) /\ Cardinality(Orphaned(s)) \in Nat
         /\ Cardinality(Orphaned(s)) <= Cardinality(asking)
<1> DEFINE f(q) == IF q.caller = s THEN [q EXCEPT !.live = FALSE] ELSE q
<1>1. Orphaned(s) = {f(q) : q \in asking}  BY DEF Orphaned
<1>2. [q \in asking |-> f(q)] \in Surjection(asking, Orphaned(s))
    BY <1>1 DEF Surjection
<1>3. IsFiniteSet(Orphaned(s)) /\ Cardinality(Orphaned(s)) <= Cardinality(asking)
    BY <1>2, FS_Surjection
<1> QED  BY <1>3, FS_CardinalityType

LEMMA MadeBound ==
  ASSUME HiveAssumption, HiveTypes
  PROVE  Cardinality(asking) \in Nat /\ made \in 0..MaxCalls /\ 1..made \subseteq Calls
<1>1. MaxCalls \in Nat /\ made \in Nat  BY DEF HiveAssumption, HiveTypes
<1>2. Cardinality(asking) \in Nat  BY FS_CardinalityType DEF HiveTypes
<1>3. made <= MaxCalls  BY <1>1, <1>2 DEF HiveTypes
<1> QED  BY <1>1, <1>2, <1>3 DEF Calls
\* A step that makes no call, asks no more, and does to each call and turn what CallOk and
\* RunOk allow.
LEMMA HiveKept ==
  ASSUME HiveAssumption, HiveInv, made' = made, call' = call,
         IsFiniteSet(asking'), Cardinality(asking') \in Nat, Cardinality(asking') <= Cardinality(asking),
         hturn' \in [HShards -> {NoTurn, PersonTurn} \cup {CallTurn(c) : c \in Calls}],
         callRow' \in [Calls -> {"none", "queued", "held", "inprogress", "complete", "crashed", "expired",
                                 "cancelled", "abandoned"}],
         replyRow' \in [Calls -> {"none", "queued", "complete", "late", "stale"}],
         body' \in [Calls -> SUBSET {"answer", "error", "expired"}],
         open' \subseteq open, age' \in [Calls -> Nat],
         \A c \in Calls : CallOk(c)', \A s \in HShards, c \in Calls : RunOk(s, c)'
  PROVE  HiveInv'
<1>1. made + Cardinality(asking') <= MaxCalls
  <2>1. MaxCalls \in Nat /\ made \in Nat /\ Cardinality(asking) \in Nat
      BY MadeBound DEF HiveAssumption, HiveInv, HiveTypes
  <2> QED  BY <2>1 DEF HiveInv, HiveTypes
<1>2. HiveTypes'  BY <1>1 DEF HiveInv, HiveTypes
<1> QED  BY <1>2 DEF HiveInv

\* The requests stay as they are, or lose their client, or are gone.
LEMMA AskingKept ==
  ASSUME HiveAssumption, HiveInv, NEW s, asking' \in {asking, Orphaned(s), {}}
  PROVE  IsFiniteSet(asking') /\ Cardinality(asking') \in Nat /\ Cardinality(asking') <= Cardinality(asking)
<1>1. IsFiniteSet(asking) /\ Cardinality(asking) \in Nat  BY MadeBound DEF HiveInv, HiveTypes
<1>2. CASE asking' = asking  BY <1>1, <1>2
<1>3. CASE asking' = Orphaned(s)  BY <1>1, <1>3, OrphansCount
<1>4. CASE asking' = {}
  <2>1. IsFiniteSet(asking') /\ Cardinality(asking') = 0  BY <1>4, FS_EmptySet
  <2> QED  BY <1>1, <2>1
<1> QED  BY <1>2, <1>3, <1>4

LEMMA AskCallStep ==
  ASSUME HiveAssumption, HiveInv, NEW s \in HShards, NEW to, AskCall(s, to) PROVE HiveInv'
<1>1. IsFiniteSet(asking) /\ Cardinality(asking) \in Nat /\ made \in Nat /\ MaxCalls \in Nat
    BY MadeBound DEF HiveInv, HiveTypes, HiveAssumption
<1>2. made + Cardinality(asking) < MaxCalls  BY DEF AskCall
<1>3. PICK q : asking' = asking \cup {q}  BY DEF AskCall
<1>4. IsFiniteSet(asking') /\ Cardinality(asking') \in {Cardinality(asking), Cardinality(asking) + 1}
    BY <1>1, <1>3, FS_AddElement
<1>5. made + Cardinality(asking') <= MaxCalls  BY <1>1, <1>2, <1>4
<1>6. UNCHANGED <<hturn, made, call, callRow, replyRow, body, open, age>>  BY DEF AskCall
<1>7. HiveTypes'  BY <1>4, <1>5, <1>6 DEF HiveInv, HiveTypes
<1> QED  BY <1>6, <1>7 DEF HiveInv, CallOk, RunOk

LEMMA PickCalleeStep ==
  ASSUME HiveAssumption, HiveInv, NEW q \in asking, PickCallee(q) PROVE HiveInv'
<1>1. IsFiniteSet(asking) /\ Cardinality(asking) \in Nat /\ made \in Nat /\ MaxCalls \in Nat
      /\ made + Cardinality(asking) <= MaxCalls
    BY MadeBound DEF HiveInv, HiveTypes, HiveAssumption
<1>2. asking' = asking \ {q} /\ UNCHANGED <<hturn, replyRow, body, age>>  BY DEF PickCallee
<1>3. IsFiniteSet(asking') /\ Cardinality(asking') = Cardinality(asking) - 1 /\ Cardinality(asking') \in Nat
  <2>1. IsFiniteSet(asking') /\ Cardinality(asking') = Cardinality(asking) - 1
      BY <1>1, <1>2, FS_RemoveElement
  <2> QED  BY <2>1, FS_CardinalityType
<1>4. CASE UNCHANGED <<made, call, callRow, open, poll>>
  <2>1. Cardinality(asking') <= Cardinality(asking)  BY <1>1, <1>3
  <2>2. /\ \A c \in Calls : CallOk(c)'
        /\ \A s \in HShards, c \in Calls : RunOk(s, c)'
      BY <1>2, <1>4 DEF HiveInv, CallOk, RunOk
  <2> QED  BY <1>2, <1>3, <1>4, <2>1, <2>2, HiveKept DEF HiveInv, HiveTypes
<1>5. CASE \E c : OpensCall(q, c)
  <2>1. PICK c : OpensCall(q, c)  BY <1>5
  <2> DEFINE n == made + 1
  <2>2. n \in Calls /\ n \in Nat /\ n + Cardinality(asking') <= MaxCalls
      BY <1>1, <1>3 DEF Calls
  <2>3. /\ made' = n
        /\ call' = [call EXCEPT ![n] = [caller |-> q.caller, callee |-> c, depth |-> q.depth]]
        /\ callRow' = [callRow EXCEPT ![n] = "queued"]
        /\ open' = open \cup {n}
      BY <2>1 DEF OpensCall
  <2>4. 1..made' = 1..made \cup {n}  BY <1>1, <2>3
  <2> HIDE DEF n
  <2>5. HiveTypes'
    <3>1. open' \subseteq 1..made'  BY <2>3, <2>4 DEF HiveInv, HiveTypes
    <3>2. call' = [d \in Calls |-> call'[d]]  BY <2>3 DEF HiveInv, HiveTypes
    <3> QED  BY <1>2, <1>3, <2>2, <2>3, <3>1, <3>2 DEF HiveInv, HiveTypes
  <2>6. n > made  BY <1>1 DEF n
  <2>7. ASSUME NEW d \in Calls PROVE CallOk(d)'
    <3>1. CallOk(d)  BY DEF HiveInv
    <3>2. CASE d = n
        BY <1>2, <2>2, <2>3, <2>6, <3>1, <3>2 DEF CallOk, HiveInv, HiveTypes
    <3>3. CASE d # n
      <4>1. d > made' => d > made  BY <1>1, <2>3 DEF Calls, n
      <4>2. callRow'[d] = callRow[d] /\ (d \in open => d \in open')  BY <2>3, <3>3 DEF HiveInv, HiveTypes
      <4> QED  BY <1>2, <3>1, <4>1, <4>2 DEF CallOk
    <3> QED  BY <3>2, <3>3
  <2>8. ASSUME NEW s \in HShards, NEW d \in Calls PROVE RunOk(s, d)'
    <3>1. RunOk(s, d)  BY DEF HiveInv
    <3>2. n \notin 1..made  BY <1>1, <2>6
    <3>3. d \in 1..made => d # n  BY <3>2
    <3>4. d # n => call'[d] = call[d] /\ callRow'[d] = callRow[d]  BY <2>3 DEF HiveInv, HiveTypes
    <3> QED  BY <1>2, <2>4, <3>1, <3>3, <3>4 DEF RunOk
  <2> QED  BY <2>5, <2>7, <2>8 DEF HiveInv
<1> QED  BY <1>4, <1>5 DEF PickCallee

\* What expire does to a shard's queue, and to nothing else.
LEMMA ExpiredAre ==
  ASSUME NEW s, NEW c \in Expired(s), HiveAssumption, HiveInv
  PROVE  c \in Calls /\ c \in 1..made /\ callRow[c] \in Waiting /\ body[c] = {}
<1>1. c \in 1..made /\ callRow[c] \in Waiting  BY DEF Expired, QueuedCalls
<1>2. c \in Calls  BY <1>1, MadeBound DEF HiveInv
<1> QED  BY <1>1, <1>2 DEF HiveInv, CallOk
\* Expiring a queue's rows, and whatever a caller's poll takes with it, keeps every call.
LEMMA ExpireStep ==
  ASSUME HiveAssumption, HiveInv, NEW s, NEW d \in Calls,
         UNCHANGED <<made, age>>,
         callRow'[d] = IF d \in Expired(s) THEN "expired" ELSE callRow[d],
         body'[d] = IF d \in Expired(s) THEN body[d] \cup {"expired"} ELSE body[d],
         callRow[d] = "queued" /\ d \notin Expired(s) => replyRow'[d] = replyRow[d] /\ (d \in open => d \in open'),
         d > made => replyRow'[d] = "none"
  PROVE  CallOk(d)'
<1>1. CallOk(d)  BY DEF HiveInv
<1>2. CASE d \in Expired(s)
  <2>1. ~(d > made) /\ body[d] = {}
    <3>1. d \in 1..made /\ body[d] = {}  BY <1>2, ExpiredAre
    <3>2. made \in Nat  BY DEF HiveInv, HiveTypes
    <3> QED  BY <3>1, <3>2
  <2>2. callRow'[d] = "expired" /\ body'[d] = {"expired"}  BY <1>2, <2>1
  <2> QED  BY <2>1, <2>2 DEF CallOk, Waiting
<1>3. CASE d \notin Expired(s)
    BY <1>1, <1>3 DEF CallOk, Waiting
<1> QED  BY <1>2, <1>3

\* The typing of a table whose entries are set one by one.
LEMMA ExpireTypes ==
  ASSUME HiveAssumption, HiveInv, NEW s,
         callRow' = [d \in Calls |-> IF d \in Expired(s) THEN "expired" ELSE callRow[d]],
         body' = [d \in Calls |-> IF d \in Expired(s) THEN body[d] \cup {"expired"} ELSE body[d]]
  PROVE  /\ callRow' \in [Calls -> {"none", "queued", "held", "inprogress", "complete", "crashed", "expired",
                                    "cancelled", "abandoned"}]
         /\ body' \in [Calls -> SUBSET {"answer", "error", "expired"}]
BY DEF HiveInv, HiveTypes

\* A row that a turn has is not in any queue, so no expiry touches it.
LEMMA RunningIsNotExpired ==
  ASSUME HiveAssumption, HiveInv, NEW s, NEW t \in HShards, NEW c \in Calls, hturn[t] = CallTurn(c)
  PROVE  c \notin Expired(s)
<1>1. callRow[c] \notin Waiting  BY DEF HiveInv, RunOk, Waiting
<1> QED  BY <1>1 DEF Expired, QueuedCalls

LEMMA PollReplyStep ==
  ASSUME HiveAssumption, HiveInv, NEW c \in 1..made, PollReply(c) PROVE HiveInv'
<1> DEFINE s == call[c].callee
           replied == c \in Expired(s) \/ replyRow[c] \in {"queued", "complete"}
<1>1. /\ callRow' = [d \in Calls |-> IF d \in Expired(s) THEN "expired" ELSE callRow[d]]
      /\ body' = [d \in Calls |-> IF d \in Expired(s) THEN body[d] \cup {"expired"} ELSE body[d]]
      /\ replyRow' = [d \in Calls |-> IF d = c /\ replied THEN "complete"
                                      ELSE IF d \in Expired(s) THEN "queued" ELSE replyRow[d]]
      /\ open' = IF replied THEN open \ {c} ELSE open
      /\ UNCHANGED <<hturn, made, call, age, asking>>
    BY DEF PollReply
<1>2. c \in Calls /\ made \in Nat  BY MadeBound DEF HiveInv, HiveTypes
<1> HIDE DEF s
<1>3. ASSUME NEW d \in Calls PROVE CallOk(d)'
  <2>1. CallOk(d)  BY DEF HiveInv
  <2>2. callRow[d] = "queued" /\ d \notin Expired(s) => ~(d = c /\ replied)
      BY <2>1 DEF CallOk
  <2>3. callRow[d] = "queued" /\ d \notin Expired(s) => replyRow'[d] = replyRow[d] /\ (d \in open => d \in open')
      BY <1>1, <2>2
  <2>4. d > made => d # c /\ d \notin Expired(s) /\ replyRow[d] = "none"
    <3>1. d \in Expired(s) => d \in 1..made  BY ExpiredAre
    <3> QED  BY <1>2, <2>1, <3>1 DEF CallOk
  <2>5. d > made => replyRow'[d] = "none"  BY <1>1, <2>4
  <2> QED  BY <1>1, <2>3, <2>5, ExpireStep
<1>4. ASSUME NEW t \in HShards, NEW d \in Calls PROVE RunOk(t, d)'
  <2>1. RunOk(t, d)  BY DEF HiveInv
  <2>2. hturn[t] = CallTurn(d) => d \notin Expired(s)  BY RunningIsNotExpired
  <2> QED  BY <1>1, <2>1, <2>2 DEF RunOk
<1>5. replyRow' \in [Calls -> {"none", "queued", "complete", "late", "stale"}]
    BY <1>1 DEF HiveInv, HiveTypes
<1>6. open' \subseteq open  BY <1>1
<1>7. asking' \in {asking, Orphaned(s), {}}  BY <1>1
<1> HIDE DEF replied
<1> QED  BY <1>1, <1>3, <1>4, <1>5, <1>6, <1>7, ExpireTypes, AskingKept, HiveKept DEF HiveInv, HiveTypes

LEMMA BeginPersonStep ==
  ASSUME HiveAssumption, HiveInv, NEW s \in HShards, BeginPerson(s) PROVE HiveInv'
<1>1. /\ callRow' = [d \in Calls |-> IF d \in Expired(s) THEN "expired" ELSE callRow[d]]
      /\ body' = [d \in Calls |-> IF d \in Expired(s) THEN body[d] \cup {"expired"} ELSE body[d]]
      /\ replyRow' = [d \in Calls |-> IF d \in Expired(s) THEN "queued" ELSE replyRow[d]]
      /\ hturn' = [hturn EXCEPT ![s] = PersonTurn]
      /\ UNCHANGED <<made, call, open, age, asking>>
    BY DEF BeginPerson, AfterExpire
<1>2. made \in Nat  BY DEF HiveInv, HiveTypes
<1>3. ASSUME NEW d \in Calls PROVE CallOk(d)'
  <2>1. CallOk(d)  BY DEF HiveInv
  <2>2. d > made => d \notin Expired(s) /\ replyRow[d] = "none"
    <3>1. d \in Expired(s) => d \in 1..made  BY ExpiredAre
    <3> QED  BY <1>2, <2>1, <3>1 DEF CallOk
  <2>3. /\ d > made => replyRow'[d] = "none"
        /\ callRow[d] = "queued" /\ d \notin Expired(s) => replyRow'[d] = replyRow[d] /\ (d \in open => d \in open')
      BY <1>1, <2>2
  <2> QED  BY <1>1, <2>3, ExpireStep
<1>4. ASSUME NEW t \in HShards, NEW d \in Calls PROVE RunOk(t, d)'
  <2>1. RunOk(t, d)  BY DEF HiveInv
  <2>2. hturn[t] = CallTurn(d) => d \notin Expired(s)  BY RunningIsNotExpired
  <2>3. hturn'[t] = CallTurn(d) => hturn[t] = CallTurn(d)
      BY <1>1 DEF HiveInv, HiveTypes, PersonTurn, CallTurn
  <2> QED  BY <1>1, <2>1, <2>2, <2>3 DEF RunOk
<1>5. replyRow' \in [Calls -> {"none", "queued", "complete", "late", "stale"}]
    BY <1>1 DEF HiveInv, HiveTypes
<1>6. hturn' \in [HShards -> {NoTurn, PersonTurn} \cup {CallTurn(c) : c \in Calls}]
    BY <1>1 DEF HiveInv, HiveTypes
<1>7. asking' \in {asking, Orphaned(s), {}} /\ open' \subseteq open  BY <1>1
<1> QED  BY <1>1, <1>3, <1>4, <1>5, <1>6, <1>7, ExpireTypes, AskingKept, HiveKept DEF HiveInv, HiveTypes
LEMMA BeginCallStep ==
  ASSUME HiveAssumption, HiveInv, NEW s \in HShards, NEW c \in 1..made, BeginCall(s, c) PROVE HiveInv'
<1>1. /\ c \in QueuedCalls(s) \ Expired(s)
      /\ callRow' = [d \in Calls |-> IF d = c THEN "inprogress"
                                     ELSE IF d \in Expired(s) THEN "expired" ELSE callRow[d]]
      /\ body' = [d \in Calls |-> IF d \in Expired(s) THEN body[d] \cup {"expired"} ELSE body[d]]
      /\ replyRow' = [d \in Calls |-> IF d \in Expired(s) THEN "queued" ELSE replyRow[d]]
      /\ hturn' = [hturn EXCEPT ![s] = CallTurn(c)]
      /\ UNCHANGED <<made, call, open, age, asking>>
    BY DEF BeginCall
<1>2. made \in Nat /\ c \in Calls  BY MadeBound DEF HiveInv, HiveTypes
<1>3. callRow[c] \in Waiting /\ call[c].callee = s  BY <1>1 DEF QueuedCalls
<1>4. body[c] = {} /\ body'[c] = {}  BY <1>1, <1>2, <1>3 DEF HiveInv, CallOk
<1>5. ASSUME NEW d \in Calls PROVE CallOk(d)'
  <2>1. CallOk(d)  BY DEF HiveInv
  <2>2. CASE d = c
    <3>1. callRow'[d] = "inprogress" /\ ~(d > made)  BY <1>1, <1>2, <2>2
    <3> QED  BY <1>1, <1>4, <2>2, <3>1 DEF CallOk, Waiting
  <2>3. CASE d # c
    <3>1. d > made => d \notin Expired(s) /\ replyRow[d] = "none"
      <4>1. d \in Expired(s) => d \in 1..made  BY ExpiredAre
      <4> QED  BY <1>2, <2>1, <4>1 DEF CallOk
    <3>2. /\ d > made => replyRow'[d] = "none"
          /\ callRow[d] = "queued" /\ d \notin Expired(s) => replyRow'[d] = replyRow[d] /\ (d \in open => d \in open')
        BY <1>1, <3>1
    <3> QED  BY <1>1, <2>3, <3>2, ExpireStep
  <2> QED  BY <2>2, <2>3
<1>6. ASSUME NEW t \in HShards, NEW d \in Calls PROVE RunOk(t, d)'
  <2>1. RunOk(t, d)  BY DEF HiveInv
  <2>2. hturn[t] = CallTurn(d) => d \notin Expired(s)  BY RunningIsNotExpired
  <2>3. hturn[t] = CallTurn(d) => d # c  BY <1>3, <2>1 DEF RunOk, Waiting
  <2>4. CASE t = s
    <3>1. hturn'[t] = CallTurn(c)  BY <1>1, <2>4 DEF HiveInv, HiveTypes
    <3>2. hturn'[t] = CallTurn(d) => d = c  BY <3>1 DEF CallTurn
    <3> QED  BY <1>1, <1>2, <1>3, <1>4, <2>4, <3>2 DEF RunOk
  <2>5. CASE t # s
    <3>1. hturn'[t] = hturn[t]  BY <1>1, <2>5 DEF HiveInv, HiveTypes
    <3> QED  BY <1>1, <2>1, <2>2, <2>3, <3>1 DEF RunOk
  <2> QED  BY <2>4, <2>5
<1>7. /\ callRow' \in [Calls -> {"none", "queued", "held", "inprogress", "complete", "crashed", "expired",
                                 "cancelled", "abandoned"}]
      /\ replyRow' \in [Calls -> {"none", "queued", "complete", "late", "stale"}]
      /\ body' \in [Calls -> SUBSET {"answer", "error", "expired"}]
    BY <1>1 DEF HiveInv, HiveTypes
<1>8. hturn' \in [HShards -> {NoTurn, PersonTurn} \cup {CallTurn(d) : d \in Calls}]
    BY <1>1, <1>2 DEF HiveInv, HiveTypes
<1>9. asking' \in {asking, Orphaned(s), {}} /\ open' \subseteq open  BY <1>1
<1> QED  BY <1>1, <1>5, <1>6, <1>7, <1>8, <1>9, AskingKept, HiveKept DEF HiveInv, HiveTypes

\* A step in which some rows leave the queue for good, calls are forgotten with their rows,
\* turns end or go on, and nothing is answered.
LEMMA LeavingStep ==
  ASSUME HiveAssumption, HiveInv, NEW s, asking' \in {asking, Orphaned(s), {}},
         UNCHANGED <<made, call, body>>,
         callRow' \in [Calls -> {"none", "queued", "held", "inprogress", "complete", "crashed", "expired",
                                 "cancelled", "abandoned"}],
         replyRow' \in [Calls -> {"none", "queued", "complete", "late", "stale"}],
         open' \subseteq open, age' \in [Calls -> Nat],
         \A t \in HShards : hturn'[t] \in {hturn[t], NoTurn},
         hturn' = [t \in HShards |-> hturn'[t]],
         \A d \in Calls :
           /\ callRow'[d] # callRow[d] =>
                \/ callRow[d] \in Waiting /\ callRow'[d] \in {"cancelled", "abandoned"}
                \/ callRow[d] = "inprogress" /\ callRow'[d] = "crashed"
           /\ replyRow[d] = "none" => replyRow'[d] = "none"
           /\ callRow'[d] = "queued" /\ d \in open => d \in open' \/ age'[d] >= 1
           /\ age[d] >= 1 => age'[d] >= 1
  PROVE  HiveInv'
<1>1. ASSUME NEW d \in Calls PROVE CallOk(d)'
  <2>1. CallOk(d)  BY DEF HiveInv
  <2>2. d > made => callRow'[d] = "none"  BY <2>1 DEF CallOk, Waiting
  <2>3. callRow'[d] \in Waiting => callRow[d] = callRow'[d]  BY DEF Waiting
  <2>4. d > made' => callRow'[d] = "none" /\ replyRow'[d] = "none" /\ body'[d] = {}
      BY <2>1, <2>2 DEF CallOk
  <2>5. callRow'[d] \in Waiting => body'[d] = {}  BY <2>1, <2>3 DEF CallOk
  <2>6. callRow'[d] = "queued" => replyRow'[d] = "none" /\ (d \in open' \/ age'[d] >= 1)
    <3>1. callRow'[d] = "queued" => callRow[d] = "queued"  BY <2>3 DEF Waiting
    <3> QED  BY <2>1, <3>1 DEF CallOk
  <2> QED  BY <2>1, <2>4, <2>5, <2>6 DEF CallOk
<1>2. ASSUME NEW t \in HShards, NEW d \in Calls PROVE RunOk(t, d)'
  <2>1. RunOk(t, d)  BY DEF HiveInv
  <2>2. hturn'[t] = CallTurn(d) => hturn[t] = CallTurn(d)
      BY DEF NoTurn, CallTurn
  <2>3. callRow[d] \in {"inprogress", "crashed"} => callRow'[d] \in {"inprogress", "crashed"}
      BY DEF Waiting
  <2> QED  BY <2>1, <2>2, <2>3 DEF RunOk
<1>3. hturn' \in [HShards -> {NoTurn, PersonTurn} \cup {CallTurn(c) : c \in Calls}]
    BY DEF HiveInv, HiveTypes
<1>4. IsFiniteSet(asking') /\ Cardinality(asking') \in Nat /\ Cardinality(asking') <= Cardinality(asking)
    BY AskingKept
<1>5. body' \in [Calls -> SUBSET {"answer", "error", "expired"}]  BY DEF HiveInv, HiveTypes
<1> QED  BY <1>1, <1>2, <1>3, <1>4, <1>5, HiveKept

LEMMA CancelledIs ==
  ASSUME NEW S PROVE Cancelled(S) = [d \in Calls |-> IF d \in S /\ callRow[d] \in Waiting THEN "cancelled" ELSE callRow[d]]
BY DEF Cancelled

LEMMA PollCallStep ==
  ASSUME HiveAssumption, HiveInv, NEW c \in 1..made, PollCall(c) PROVE HiveInv'
<1>1. UNCHANGED <<hturn, made, call, replyRow, body, age, asking>>  BY DEF PollCall
<1>2. \/ callRow' = callRow /\ open' = open
      \/ callRow' = callRow /\ callRow[c] # "queued" /\ open' = open \ {c}
      \/ callRow' = callRow /\ c \notin open /\ open' = open \ {c}
      \/ callRow' = Cancelled({c}) /\ open' = open \ {c}
    BY DEF PollCall, PollEnds, Waiting
<1>3. callRow' \in [Calls -> {"none", "queued", "held", "inprogress", "complete", "crashed", "expired",
                              "cancelled", "abandoned"}]
    BY <1>2 DEF HiveInv, HiveTypes, Cancelled
<1>4. ASSUME NEW d \in Calls
      PROVE  /\ callRow'[d] # callRow[d] => callRow[d] \in Waiting /\ callRow'[d] = "cancelled"
             /\ callRow'[d] = "queued" /\ d \in open => d \in open'
    BY <1>2 DEF Cancelled, Waiting
<1>5. open' \subseteq open  BY <1>2
<1> QED  BY <1>1, <1>3, <1>4, <1>5, LeavingStep DEF HiveInv, HiveTypes

LEMMA CancelCallStep ==
  ASSUME HiveAssumption, HiveInv, NEW c \in 1..made, CancelCall(c) PROVE HiveInv'
<1>1. UNCHANGED <<hturn, made, call, replyRow, body, age, asking>> /\ callRow' = Cancelled({c})
      /\ open' = open \ {c}
    BY DEF CancelCall
<1>2. callRow' \in [Calls -> {"none", "queued", "held", "inprogress", "complete", "crashed", "expired",
                              "cancelled", "abandoned"}]
    BY <1>1 DEF HiveInv, HiveTypes, Cancelled
<1>3. ASSUME NEW d \in Calls
      PROVE  /\ callRow'[d] # callRow[d] => callRow[d] \in Waiting /\ callRow'[d] = "cancelled"
             /\ callRow'[d] = "queued" /\ d \in open => d \in open'
    BY <1>1 DEF Cancelled, Waiting
<1>4. open' \subseteq open  BY <1>1
<1> QED  BY <1>1, <1>2, <1>3, <1>4, LeavingStep DEF HiveInv, HiveTypes

LEMMA OlderStep ==
  ASSUME HiveAssumption, HiveInv, NEW c \in 1..made, Older(c) PROVE HiveInv'
<1>1. UNCHANGED <<hturn, made, call, callRow, replyRow, body, open, asking>> /\ age' = [age EXCEPT ![c] = age[c] + 1]
    BY DEF Older
<1>2. age' \in [Calls -> Nat]
  <2>1. age \in [Calls -> Nat]  BY DEF HiveInv, HiveTypes
  <2>2. c \in Calls => age[c] + 1 \in Nat  BY <2>1
  <2> QED  BY <1>1, <2>1, <2>2
<1>3. ASSUME NEW d \in Calls PROVE age[d] >= 1 => age'[d] >= 1
  <2>1. age[d] \in Nat  BY DEF HiveInv, HiveTypes
  <2>2. age'[d] \in {age[d], age[d] + 1}  BY <1>1 DEF HiveInv, HiveTypes
  <2> QED  BY <2>1, <2>2
<1> QED  BY <1>1, <1>2, <1>3, LeavingStep DEF HiveInv, HiveTypes
\* A turn of a call ends: the call it was has run nowhere else, and is not answered yet.
LEMMA TurnCall ==
  ASSUME HiveAssumption, HiveInv, NEW s \in HShards, hturn[s].kind = "call"
  PROVE  /\ hturn[s].call \in Calls /\ hturn[s].call \in 1..made
         /\ callRow[hturn[s].call] \in {"inprogress", "crashed"} /\ body[hturn[s].call] = {}
         /\ \A t \in HShards : hturn[t] = CallTurn(hturn[s].call) => t = s
<1>1. PICK c \in Calls : hturn[s] = CallTurn(c)
    BY DEF HiveInv, HiveTypes, NoTurn, PersonTurn
<1>2. hturn[s].call = c  BY <1>1 DEF CallTurn
<1>3. \A t \in HShards : RunOk(t, c)  BY DEF HiveInv
<1> QED  BY <1>1, <1>2, <1>3 DEF RunOk

LEMMA EndTurnStep ==
  ASSUME HiveAssumption, HiveInv, NEW s \in HShards, NEW outcome, EndTurn(s, outcome) PROVE HiveInv'
<1> DEFINE c == hturn[s].call
           base == IF hturn[s].kind = "call"
                   THEN [callRow EXCEPT ![c] = IF outcome = "answer" THEN "complete" ELSE "crashed"]
                   ELSE callRow
<1>1. /\ outcome \in {"answer", "error"}
      /\ callRow' = [d \in Calls |-> IF d \in CallsOf(s) /\ base[d] \in Waiting THEN "cancelled" ELSE base[d]]
      /\ open' = open \ CallsOf(s) /\ hturn' = [hturn EXCEPT ![s] = NoTurn] /\ asking' = Orphaned(s)
      /\ UNCHANGED <<made, call, age>>
    BY DEF EndTurn
<1>2. CASE hturn[s].kind # "call"
  <2>1. UNCHANGED <<body, replyRow>> /\ base = callRow  BY <1>2 DEF EndTurn
  <2>2. callRow' \in [Calls -> {"none", "queued", "held", "inprogress", "complete", "crashed", "expired",
                                "cancelled", "abandoned"}]
      BY <1>1, <2>1 DEF HiveInv, HiveTypes
  <2>3. ASSUME NEW d \in Calls
        PROVE  /\ callRow'[d] # callRow[d] => callRow[d] \in Waiting /\ callRow'[d] = "cancelled"
               /\ callRow'[d] = "queued" /\ d \in open => d \in open'
      BY <1>1, <2>1 DEF Waiting
  <2>4. open' \subseteq open  BY <1>1
  <2>5. /\ \A t \in HShards : hturn'[t] \in {hturn[t], NoTurn}
        /\ hturn' = [t \in HShards |-> hturn'[t]]
      BY <1>1 DEF HiveInv, HiveTypes
  <2>6. /\ asking' \in {asking, Orphaned(s), {}} /\ UNCHANGED <<made, call, body, replyRow, age>>
        /\ replyRow' \in [Calls -> {"none", "queued", "complete", "late", "stale"}] /\ age' \in [Calls -> Nat]
      BY <1>1, <2>1 DEF HiveInv, HiveTypes
  <2> HIDE DEF base
  <2> QED  BY <2>2, <2>3, <2>4, <2>5, <2>6, LeavingStep
<1>3. CASE hturn[s].kind = "call"
  <2>1. /\ c \in Calls /\ c \in 1..made /\ callRow[c] \in {"inprogress", "crashed"} /\ body[c] = {}
        /\ \A t \in HShards : hturn[t] = CallTurn(c) => t = s
      BY <1>3, TurnCall
  <2>2. /\ body' = [body EXCEPT ![c] = @ \cup {outcome}]
        /\ replyRow' = [replyRow EXCEPT ![c] = IF c \in open THEN "queued" ELSE "late"]
        /\ base = [callRow EXCEPT ![c] = IF outcome = "answer" THEN "complete" ELSE "crashed"]
      BY <1>3 DEF EndTurn
  <2>3. base[c] \in {"complete", "crashed"} /\ \A d \in Calls \ {c} : base[d] = callRow[d]
      BY <2>1, <2>2 DEF HiveInv, HiveTypes
  <2> HIDE DEF base, c
  <2>4. callRow'[c] \in {"complete", "crashed"}  BY <1>1, <2>1, <2>3 DEF Waiting
  <2>5. body'[c] = {outcome}  BY <2>1, <2>2 DEF HiveInv, HiveTypes
  <2>6. made \in Nat  BY DEF HiveInv, HiveTypes
  <2>7. ASSUME NEW d \in Calls PROVE CallOk(d)'
    <3>1. CallOk(d)  BY DEF HiveInv
    <3>2. CASE d = c
      <4>1. ~(d > made')  BY <1>1, <2>1, <2>6, <3>2
      <4> QED  BY <2>4, <2>5, <3>2, <4>1 DEF CallOk, Waiting
    <3>3. CASE d # c
      <4>1. /\ callRow'[d] \in {callRow[d], "cancelled"} /\ body'[d] = body[d] /\ replyRow'[d] = replyRow[d]
            /\ callRow'[d] = "cancelled" => callRow[d] \in Waiting \cup {"cancelled"}
            /\ d \in open /\ callRow'[d] = "queued" => d \in open'
          BY <1>1, <2>2, <2>3, <3>3 DEF Waiting, HiveInv, HiveTypes
      <4>2. d > made => callRow'[d] = "none"  BY <3>1, <4>1 DEF CallOk, Waiting
      <4> QED  BY <1>1, <3>1, <4>1, <4>2 DEF CallOk, Waiting
    <3> QED  BY <3>2, <3>3
  <2>8. ASSUME NEW t \in HShards, NEW d \in Calls PROVE RunOk(t, d)'
    <3>1. RunOk(t, d)  BY DEF HiveInv
    <3>2. hturn'[t] = CallTurn(d) => t # s /\ hturn[t] = CallTurn(d)
        BY <1>1 DEF HiveInv, HiveTypes, NoTurn, CallTurn
    <3>3. hturn'[t] = CallTurn(d) => d # c  BY <2>1, <3>2
    <3>4. d # c /\ callRow[d] \in {"inprogress", "crashed"} => callRow'[d] = callRow[d] /\ body'[d] = body[d]
        BY <1>1, <2>2, <2>3 DEF Waiting, HiveInv, HiveTypes
    <3> QED  BY <1>1, <3>1, <3>2, <3>3, <3>4 DEF RunOk
  <2>9. /\ callRow' \in [Calls -> {"none", "queued", "held", "inprogress", "complete", "crashed", "expired",
                                   "cancelled", "abandoned"}]
    <3>1. ASSUME NEW d \in Calls
          PROVE base[d] \in {"none", "queued", "held", "inprogress", "complete", "crashed", "expired",
                             "cancelled", "abandoned"}
        BY <2>3 DEF HiveInv, HiveTypes
    <3> QED  BY <1>1, <3>1
  <2>10. /\ replyRow' \in [Calls -> {"none", "queued", "complete", "late", "stale"}]
         /\ body' \in [Calls -> SUBSET {"answer", "error", "expired"}]
      BY <1>1, <2>1, <2>2 DEF HiveInv, HiveTypes
  <2>11. hturn' \in [HShards -> {NoTurn, PersonTurn} \cup {CallTurn(d) : d \in Calls}] /\ open' \subseteq open
      BY <1>1 DEF HiveInv, HiveTypes
  <2>12. IsFiniteSet(asking') /\ Cardinality(asking') \in Nat /\ Cardinality(asking') <= Cardinality(asking)
      BY <1>1, AskingKept
  <2> QED  BY <1>1, <2>7, <2>8, <2>9, <2>10, <2>11, <2>12, HiveKept DEF HiveInv, HiveTypes
<1> QED  BY <1>2, <1>3

LEMMA HoldTurnStep ==
  ASSUME HiveAssumption, HiveInv, NEW s \in HShards, HoldTurn(s) PROVE HiveInv'
<1> DEFINE c == hturn[s].call
<1>1. /\ callRow' = [callRow EXCEPT ![c] = "held"] /\ hturn' = [hturn EXCEPT ![s] = NoTurn]
      /\ asking' = Orphaned(s) /\ UNCHANGED <<made, call, replyRow, body, open, age>>
    BY DEF HoldTurn
<1>2. /\ c \in Calls /\ c \in 1..made /\ body[c] = {} /\ \A t \in HShards : hturn[t] = CallTurn(c) => t = s
    BY TurnCall DEF HoldTurn
<1> HIDE DEF c
<1>3. made \in Nat /\ ~(c > made)  BY <1>2 DEF HiveInv, HiveTypes
<1>4. ASSUME NEW d \in Calls PROVE CallOk(d)'
  <2>1. CallOk(d)  BY DEF HiveInv
  <2>2. CASE d = c
    <3>1. callRow'[d] = "held"  BY <1>1, <2>2 DEF HiveInv, HiveTypes
    <3> QED  BY <1>1, <1>2, <1>3, <2>2, <3>1 DEF CallOk
  <2>3. CASE d # c
    <3>1. callRow'[d] = callRow[d]  BY <1>1, <2>3 DEF HiveInv, HiveTypes
    <3> QED  BY <1>1, <2>1, <3>1 DEF CallOk
  <2> QED  BY <2>2, <2>3
<1>5. ASSUME NEW t \in HShards, NEW d \in Calls PROVE RunOk(t, d)'
  <2>1. RunOk(t, d)  BY DEF HiveInv
  <2>2. hturn'[t] = CallTurn(d) => t # s /\ hturn[t] = CallTurn(d)
      BY <1>1 DEF HiveInv, HiveTypes, NoTurn, CallTurn
  <2>3. hturn'[t] = CallTurn(d) => d # c  BY <1>2, <2>2
  <2>4. d # c => callRow'[d] = callRow[d]  BY <1>1 DEF HiveInv, HiveTypes
  <2> QED  BY <1>1, <2>1, <2>2, <2>3, <2>4 DEF RunOk
<1>6. callRow' \in [Calls -> {"none", "queued", "held", "inprogress", "complete", "crashed", "expired",
                              "cancelled", "abandoned"}]
    BY <1>1 DEF HiveInv, HiveTypes
<1>7. hturn' \in [HShards -> {NoTurn, PersonTurn} \cup {CallTurn(d) : d \in Calls}]
    BY <1>1 DEF HiveInv, HiveTypes
<1>8. IsFiniteSet(asking') /\ Cardinality(asking') \in Nat /\ Cardinality(asking') <= Cardinality(asking)
    BY <1>1, AskingKept
<1> QED  BY <1>1, <1>4, <1>5, <1>6, <1>7, <1>8, HiveKept DEF HiveInv, HiveTypes

LEMMA CrashStep ==
  ASSUME HiveAssumption, HiveInv, NEW s \in HShards, Crash(s) PROVE HiveInv'
<1>1. /\ callRow' = [d \in Calls |-> IF d \in 1..made /\ call[d].callee = s /\ callRow[d] = "inprogress"
                                     THEN "crashed" ELSE Cancelled(CallsOf(s))[d]]
      /\ open' = open \ CallsOf(s) /\ asking' = Orphaned(s)
      /\ UNCHANGED <<hturn, made, call, replyRow, body, age>>
    BY DEF Crash
<1>2. ASSUME NEW d \in Calls
      PROVE  Cancelled(CallsOf(s))[d] = IF d \in CallsOf(s) /\ callRow[d] \in Waiting THEN "cancelled" ELSE callRow[d]
    BY DEF Cancelled
<1>3. callRow' \in [Calls -> {"none", "queued", "held", "inprogress", "complete", "crashed", "expired",
                              "cancelled", "abandoned"}]
    BY <1>1, <1>2 DEF HiveInv, HiveTypes
<1>4. ASSUME NEW d \in Calls
      PROVE  /\ callRow'[d] # callRow[d] =>
                  \/ callRow[d] \in Waiting /\ callRow'[d] = "cancelled"
                  \/ callRow[d] = "inprogress" /\ callRow'[d] = "crashed"
             /\ callRow'[d] = "queued" /\ d \in open => d \in open'
    BY <1>1, <1>2 DEF Waiting
<1>5. open' \subseteq open  BY <1>1
<1> QED  BY <1>1, <1>3, <1>4, <1>5, LeavingStep DEF HiveInv, HiveTypes

LEMMA PruneReapStep ==
  ASSUME HiveAssumption, HiveInv, PruneReap PROVE HiveInv'
<1>1. /\ open' = {c \in open : age[c] < 2}
      /\ replyRow' = [c \in Calls |-> IF replyRow[c] = "queued" /\ age[c] = 2 THEN "stale" ELSE replyRow[c]]
      /\ UNCHANGED <<hturn, made, call, callRow, body, age, asking>>
    BY DEF PruneReap
<1>2. replyRow' \in [Calls -> {"none", "queued", "complete", "late", "stale"}]
    BY <1>1 DEF HiveInv, HiveTypes
<1>3. ASSUME NEW d \in Calls
      PROVE  (d \in open => d \in open' \/ age'[d] >= 1) /\ (replyRow[d] = "none" => replyRow'[d] = "none")
  <2>1. age[d] \in Nat  BY DEF HiveInv, HiveTypes
  <2> QED  BY <1>1, <2>1
<1>4. open' \subseteq open  BY <1>1
<1> QED  BY <1>1, <1>2, <1>3, <1>4, LeavingStep DEF HiveInv, HiveTypes

LEMMA HiveRestartStep ==
  ASSUME HiveAssumption, HiveInv, HiveRestart PROVE HiveInv'
<1>1. /\ callRow' = [c \in Calls |-> HiveSwept(callRow[c])]
      /\ replyRow' = [c \in Calls |-> IF replyRow[c] = "queued" THEN "stale" ELSE replyRow[c]]
      /\ open' = {} /\ asking' = {} /\ hturn' = [t \in HShards |-> NoTurn]
      /\ UNCHANGED <<made, call, body, age>>
    BY DEF HiveRestart
<1>2. callRow' \in [Calls -> {"none", "queued", "held", "inprogress", "complete", "crashed", "expired",
                              "cancelled", "abandoned"}]
    BY <1>1 DEF HiveInv, HiveTypes, HiveSwept
<1>3. replyRow' \in [Calls -> {"none", "queued", "complete", "late", "stale"}]
    BY <1>1 DEF HiveInv, HiveTypes
<1>4. ASSUME NEW d \in Calls
      PROVE  /\ callRow'[d] # callRow[d] =>
                  \/ callRow[d] \in Waiting /\ callRow'[d] = "abandoned"
                  \/ callRow[d] = "inprogress" /\ callRow'[d] = "crashed"
             /\ callRow'[d] # "queued" /\ (replyRow[d] = "none" => replyRow'[d] = "none")
    BY <1>1 DEF HiveSwept, Waiting
<1>5. open' \subseteq open  BY <1>1
<1> QED  BY <1>1, <1>2, <1>3, <1>4, <1>5, LeavingStep DEF HiveInv, HiveTypes

LEMMA HiveSteps ==
  ASSUME HiveAssumption, HiveInv, [HiveNext]_HiveVars PROVE HiveInv'
<1>1. ASSUME NEW s \in HShards, NEW to \in HShards \cup Agents, AskCall(s, to) PROVE HiveInv'
    BY <1>1, AskCallStep
<1>2. ASSUME NEW q \in asking, PickCallee(q) PROVE HiveInv'
    BY <1>2, PickCalleeStep
<1>3. ASSUME NEW c \in 1..made, PollReply(c) \/ PollCall(c) \/ CancelCall(c) \/ Older(c) PROVE HiveInv'
    BY <1>3, PollReplyStep, PollCallStep, CancelCallStep, OlderStep
<1>4. ASSUME NEW s \in HShards, BeginPerson(s) \/ HoldTurn(s) \/ Crash(s) PROVE HiveInv'
    BY <1>4, BeginPersonStep, HoldTurnStep, CrashStep
<1>5. ASSUME NEW s \in HShards, NEW c \in 1..made, BeginCall(s, c) PROVE HiveInv'
    BY <1>5, BeginCallStep
<1>6. ASSUME NEW s \in HShards, NEW o \in {"answer", "error"}, EndTurn(s, o) PROVE HiveInv'
    BY <1>6, EndTurnStep
<1>7. ASSUME UNCHANGED HiveVars \/ \E s \in HShards : Respawn(s) PROVE HiveInv'
  <2>1. UNCHANGED <<hturn, made, call, callRow, replyRow, body, open, age, asking>>
      BY <1>7 DEF HiveVars, Respawn
  <2> QED  BY <2>1 DEF HiveInv, HiveTypes, CallOk, RunOk
<1> QED
    BY <1>1, <1>2, <1>3, <1>4, <1>5, <1>6, <1>7, PruneReapStep, HiveRestartStep DEF HiveNext

\* For any shards, calls, depths, deaths, walls and restarts: a call is answered once at
\* most (expire, hive_on_turn_end and the crash path of lib/hive.py never both reply).
THEOREM OneReplyHolds == ASSUME HiveAssumption PROVE HiveSpec => []OneReply
<1>1. HiveInv => OneReply
  <2> SUFFICES ASSUME HiveInv, NEW c \in Calls PROVE Cardinality(body[c]) <= 1
      BY DEF OneReply
  <2>1. body[c] = {} \/ \E x : body[c] = {x}  BY DEF HiveInv, CallOk
  <2>2. CASE body[c] = {}
    <3>1. Cardinality(body[c]) = 0  BY <2>2, FS_EmptySet
    <3> QED  BY <3>1
  <2>3. CASE \E x : body[c] = {x}
    <3>1. Cardinality(body[c]) = 1  BY <2>3, FS_Singleton
    <3> QED  BY <3>1
  <2> QED  BY <2>1, <2>2, <2>3
<1> QED  BY <1>1, HiveStarts, HiveSteps, PTL DEF HiveSpec

\* For any shards, calls, depths, deaths, walls and restarts: a row that no shard has
\* claimed is of a call somebody waits for or that has expired (hive_cancel_call, prune
\* and hive_startup_sweep leave no other).
THEOREM QueuedIsWantedHolds == ASSUME HiveAssumption PROVE HiveSpec => []QueuedIsWanted
<1>1. HiveInv => QueuedIsWanted
  <2> SUFFICES ASSUME HiveInv, NEW c \in 1..made, callRow[c] = "queued", HiveAssumption
               PROVE  c \in open \/ age[c] >= 1
      BY DEF QueuedIsWanted
  <2>1. c \in Calls  BY MadeBound DEF HiveInv
  <2> QED  BY <2>1 DEF HiveInv, CallOk
<1> QED  BY <1>1, HiveStarts, HiveSteps, PTL DEF HiveSpec

\* A request of a shard to one, and a call of a shard to another.
AskOk(q) ==
  \E d, n :
    q \in [caller : HShards, to : HShards \cup Agents, depth : {d}, depths : {n}, live : BOOLEAN]
Calling(c) == call[c].caller \in HShards /\ call[c].callee \in HShards

WaitInv ==
  /\ HiveInv
  /\ \A q \in asking : AskOk(q)
  /\ \A c \in 1..made : Calling(c)
  /\ NoWaitCycle

LEMMA WaitersAre == ASSUME WaitInv, NEW s PROVE WaitsFor(s) \subseteq HShards
<1>1. \A c \in open : call[c].callee \in HShards  BY DEF WaitInv, HiveInv, HiveTypes, Calling
<1> QED  BY <1>1 DEF WaitsFor

\* What the search has seen is the least set that holds its start and is closed.
LEMMA ReachableIs ==
  ASSUME WaitInv, NEW S \in SUBSET HShards
  PROVE  /\ S \subseteq Reachable(S) /\ Reachable(S) \subseteq HShards /\ Closed(Reachable(S))
         /\ \A C \in SUBSET HShards : S \subseteq C /\ Closed(C) => Reachable(S) \subseteq C
<1>1. S \subseteq Reachable(S) /\ Reachable(S) \subseteq HShards  BY DEF Reachable
<1>2. \A C \in SUBSET HShards : S \subseteq C /\ Closed(C) => Reachable(S) \subseteq C  BY DEF Reachable
<1>3. ASSUME NEW x \in Reachable(S), NEW y \in WaitsFor(x) PROVE y \in Reachable(S)
  <2>1. y \in HShards  BY WaitersAre
  <2>2. ASSUME NEW C \in SUBSET HShards, S \subseteq C, Closed(C) PROVE y \in C
    <3>1. x \in C  BY <2>2 DEF Reachable
    <3> QED  BY <2>2, <3>1 DEF Closed
  <2> QED  BY <2>1, <2>2 DEF Reachable
<1>4. Closed(Reachable(S))  BY <1>3 DEF Closed
<1> QED  BY <1>1, <1>2, <1>4

\* A graph has no cycle where each shard is outside of a closed set that holds what it waits for.
LEMMA NoCycleWhere ==
  ASSUME \A s \in HShards : \E C \in SUBSET HShards :
           s \notin C /\ WaitsFor(s)' \subseteq C /\ \A x \in C : WaitsFor(x)' \subseteq C
  PROVE  NoWaitCycle'
<1> SUFFICES ASSUME NEW s \in HShards PROVE s \notin Reachable(WaitsFor(s))'
    BY DEF NoWaitCycle
<1>1. PICK C \in SUBSET HShards :
        s \notin C /\ WaitsFor(s)' \subseteq C /\ \A x \in C : WaitsFor(x)' \subseteq C
    OBVIOUS
<1>2. Closed(C)'  BY <1>1 DEF Closed
<1> QED  BY <1>1, <1>2 DEF Reachable

\* Calls that are answered, cancelled or forgotten make no cycle.
LEMMA LessWaiting ==
  ASSUME WaitInv, call' = call, open' \subseteq open PROVE NoWaitCycle'
<1>1. ASSUME NEW s PROVE WaitsFor(s)' \subseteq WaitsFor(s)  BY DEF WaitsFor
<1>2. ASSUME NEW s \in HShards
      PROVE  \E C \in SUBSET HShards :
               s \notin C /\ WaitsFor(s)' \subseteq C /\ \A x \in C : WaitsFor(x)' \subseteq C
  <2>1. PICK C : C = Reachable(WaitsFor(s))  OBVIOUS
  <2>2. WaitsFor(s) \in SUBSET HShards  BY WaitersAre
  <2>3. WaitsFor(s) \subseteq C /\ C \in SUBSET HShards /\ Closed(C)  BY <2>1, <2>2, ReachableIs
  <2>4. s \notin C  BY <2>1 DEF WaitInv, NoWaitCycle
  <2>5. \A x \in C : WaitsFor(x)' \subseteq C  BY <1>1, <2>3 DEF Closed
  <2>6. WaitsFor(s)' \subseteq C  BY <1>1, <2>3
  <2> QED  BY <2>3, <2>4, <2>5, <2>6
<1> QED  BY <1>2, NoCycleWhere

\* Nor does a new call, if the callee does not wait, through others, for the caller.
LEMMA NewCallIsSafe ==
  ASSUME WaitInv, NEW a \in HShards, NEW b \in HShards, ~WouldDeadlock(a, b),
         \A s \in HShards : WaitsFor(s)' = IF s = a THEN WaitsFor(s) \cup {b} ELSE WaitsFor(s)
  PROVE  NoWaitCycle'
<1>1. PICK B : B = Reachable({b})  OBVIOUS
<1>2. b \in B /\ B \in SUBSET HShards /\ Closed(B)  BY <1>1, ReachableIs
<1>3. a \notin B  BY <1>1 DEF WouldDeadlock
<1>4. ASSUME NEW s \in HShards
      PROVE  \E C \in SUBSET HShards :
               s \notin C /\ WaitsFor(s)' \subseteq C /\ \A x \in C : WaitsFor(x)' \subseteq C
  <2>1. PICK D : D = Reachable(WaitsFor(s))  OBVIOUS
  <2>2. WaitsFor(s) \in SUBSET HShards  BY WaitersAre
  <2>3. WaitsFor(s) \subseteq D /\ D \in SUBSET HShards /\ Closed(D)  BY <2>1, <2>2, ReachableIs
  <2>4. s \notin D  BY <2>1 DEF WaitInv, NoWaitCycle
  <2>5. CASE s # a /\ a \notin D
    <3>1. WaitsFor(s)' \subseteq D  BY <2>3, <2>5
    <3>2. \A x \in D : WaitsFor(x)' \subseteq D  BY <2>3, <2>5 DEF Closed
    <3> QED  BY <2>3, <2>4, <3>1, <3>2
  <2>6. CASE s = a \/ a \in D
    <3>1. s \notin B
      <4>1. CASE s = a  BY <1>3, <4>1
      <4>2. CASE a \in D /\ s \in B
        <5>1. WaitsFor(s) \subseteq B  BY <1>2, <4>2 DEF Closed
        <5>2. D \subseteq B  BY <1>2, <2>1, <2>2, <5>1, ReachableIs
        <5> QED  BY <1>3, <4>2, <5>2
      <4> QED  BY <2>6, <4>1, <4>2
    <3>2. \A x \in D \cup B : WaitsFor(x) \subseteq D \cup B  BY <1>2, <2>3 DEF Closed
    <3>3. \A x \in D \cup B : WaitsFor(x)' \subseteq D \cup B  BY <1>2, <2>3, <3>2
    <3>4. WaitsFor(s)' \subseteq D \cup B  BY <1>2, <2>3
    <3>5. D \cup B \in SUBSET HShards /\ s \notin D \cup B  BY <1>2, <2>3, <2>4, <3>1
    <3> QED  BY <3>3, <3>4, <3>5
  <2> QED  BY <2>5, <2>6
<1> QED  BY <1>4, NoCycleWhere

LEMMA WaitStarts == ASSUME HiveAssumption PROVE HiveInit => WaitInv
<1> SUFFICES ASSUME HiveInit PROVE WaitInv  OBVIOUS
<1>1. made = 0 /\ open = {} /\ asking = {}  BY DEF HiveInit
<1>2. \A s : WaitsFor(s) = {}  BY <1>1 DEF WaitsFor
<1>3. ASSUME NEW s \in HShards PROVE s \notin Reachable(WaitsFor(s))
  <2>1. Closed({})  BY DEF Closed
  <2> QED  BY <1>2, <2>1 DEF Reachable
<1> QED  BY <1>1, <1>3, HiveStarts DEF WaitInv, NoWaitCycle

\* The requests that have lost their client are requests still.
LEMMA OrphansAreOk == ASSUME NEW s, \A q \in asking : AskOk(q) PROVE \A q \in Orphaned(s) : AskOk(q)
<1> SUFFICES ASSUME NEW q \in asking PROVE AskOk(IF q.caller = s THEN [q EXCEPT !.live = FALSE] ELSE q)
    BY DEF Orphaned
<1>1. PICK d, n :
        q \in [caller : HShards, to : HShards \cup Agents, depth : {d}, depths : {n}, live : BOOLEAN]
    BY DEF AskOk
<1>2. [q EXCEPT !.live = FALSE]
        \in [caller : HShards, to : HShards \cup Agents, depth : {d}, depths : {n}, live : BOOLEAN]
    BY <1>1
<1> QED  BY <1>1, <1>2 DEF AskOk

\* The steps that make no call.
LEMMA WaitKept ==
  ASSUME HiveAssumption, WaitInv, HiveInv', made' = made, call' = call, open' \subseteq open,
         \A q \in asking' : AskOk(q)
  PROVE  WaitInv'
<1>1. NoWaitCycle'  BY LessWaiting
<1>2. \A c \in 1..made' : Calling(c)'  BY DEF WaitInv, Calling
<1>3. \A q \in asking' : AskOk(q)'  BY DEF AskOk
<1> QED  BY <1>1, <1>2, <1>3 DEF WaitInv

LEMMA PickCalleeWaits ==
  ASSUME HiveAssumption, WaitInv, HiveInv', NEW q \in asking, PickCallee(q) PROVE WaitInv'
<1>1. \A r \in asking' : AskOk(r)  BY DEF PickCallee, WaitInv
<1>2. CASE UNCHANGED <<made, call, callRow, open, poll>>
    BY <1>1, <1>2, WaitKept
<1>3. ASSUME NEW stopped \in SUBSET MayPause, NEW c \in Picked(q.to, q.caller, q.depths, stopped), OpensCall(q, c)
      PROVE WaitInv'
  <2>1. q.caller \in HShards /\ q.to \in HShards \cup Agents  BY DEF WaitInv, AskOk
  <2>2. PICK a \in HShards, to \in HShards \cup Agents : q.caller = a /\ q.to = to  BY <2>1
  <2>3. c \in Candidates(to) /\ ~WouldDeadlock(a, c)  BY <1>3, <2>2 DEF Picked
  <2>4. c \in HShards  BY <2>3 DEF Candidates
  <2>5. made \in Nat /\ made + 1 \in Calls
    <3>1. IsFiniteSet(asking) /\ made \in Nat /\ MaxCalls \in Nat /\ made + Cardinality(asking) <= MaxCalls
        BY DEF WaitInv, HiveInv, HiveTypes, HiveAssumption
    <3>2. Cardinality(asking) \in Nat /\ Cardinality(asking) # 0  BY <3>1, FS_EmptySet, FS_CardinalityType
    <3> QED  BY <3>1, <3>2 DEF Calls
  <2>6. /\ made' = made + 1 /\ open' = open \cup {made + 1}
        /\ call' = [call EXCEPT ![made + 1] = [caller |-> a, callee |-> c, depth |-> q.depth]]
      BY <1>3, <2>2 DEF OpensCall
  <2>7. call'[made + 1] = [caller |-> a, callee |-> c, depth |-> q.depth]
        /\ \A e \in 1..made : call'[e] = call[e]
    <3>1. 1..made \subseteq Calls  BY MadeBound DEF WaitInv, HiveInv
    <3>2. \A e \in 1..made : e # made + 1  BY <2>5
    <3>3. call = [e \in Calls |-> call[e]]  BY DEF WaitInv, HiveInv, HiveTypes
    <3> QED  BY <2>5, <2>6, <3>1, <3>2, <3>3
  <2>8. open \subseteq 1..made /\ 1..made' = 1..made \cup {made + 1}
    <3>1. 1..(made + 1) = 1..made \cup {made + 1}  BY <2>5
    <3> QED  BY <2>6, <3>1 DEF WaitInv, HiveInv, HiveTypes
  <2>9. \A e \in 1..made' : Calling(e)'
    <3>1. \A e \in 1..made : Calling(e)'  BY <2>7 DEF WaitInv, Calling
    <3>2. PICK m : m = made + 1  OBVIOUS
    <3>3. Calling(m)'  BY <2>4, <2>7, <3>2 DEF Calling
    <3>4. 1..made' = 1..made \cup {m}  BY <2>8, <3>2
    <3>5. ASSUME NEW e \in 1..made' PROVE Calling(e)'
      <4>1. e \in 1..made \/ e = m  BY <3>4
      <4> QED  BY <3>1, <3>3, <4>1
    <3> QED  BY <3>5
  <2>10. ASSUME NEW s \in HShards
         PROVE  WaitsFor(s)' = IF s = a THEN WaitsFor(s) \cup {c} ELSE WaitsFor(s)
    <3>1. PICK m : m = made + 1  OBVIOUS
    <3>2. open' = open \cup {m} /\ call'[m].caller = a /\ call'[m].callee = c  BY <2>6, <2>7, <3>1
    <3>3. \A e \in open : call'[e] = call[e]  BY <2>7, <2>8
    <3>4. {e \in open' : call'[e].caller = s} = {e \in open : call[e].caller = s} \cup (IF s = a THEN {m} ELSE {})
        BY <3>2, <3>3
    <3> QED  BY <3>2, <3>3, <3>4 DEF WaitsFor
  <2>11. NoWaitCycle'  BY <2>3, <2>4, <2>10, NewCallIsSafe
  <2>12. \A r \in asking' : AskOk(r)'  BY <1>1 DEF AskOk
  <2> QED  BY <2>9, <2>11, <2>12 DEF WaitInv
<1> QED  BY <1>2, <1>3 DEF PickCallee

LEMMA WaitSteps ==
  ASSUME HiveAssumption, WaitInv, [HiveNext]_HiveVars PROVE WaitInv'
<1>h. HiveInv'  BY HiveSteps DEF WaitInv
<1>1. ASSUME NEW s \in HShards, NEW to \in HShards \cup Agents, AskCall(s, to) PROVE WaitInv'
  <2>1. PICK d, n : d = NextDepth(s) /\ n = Depths  OBVIOUS
  <2>4. AskOk([caller |-> s, to |-> to, depth |-> d, depths |-> n, live |-> TRUE])  BY DEF AskOk
  <2>2. \A q \in asking' : AskOk(q)  BY <1>1, <2>1, <2>4 DEF AskCall, WaitInv
  <2>3. UNCHANGED <<made, call, open>>  BY <1>1 DEF AskCall
  <2> QED  BY <1>h, <2>2, <2>3, WaitKept
<1>2. ASSUME NEW q \in asking, PickCallee(q) PROVE WaitInv'
    BY <1>h, <1>2, PickCalleeWaits
<1>3. ASSUME NEW c \in 1..made, PollReply(c) \/ PollCall(c) \/ CancelCall(c) \/ Older(c) PROVE WaitInv'
  <2>1. UNCHANGED <<made, call, asking>>  BY <1>3 DEF PollReply, PollCall, CancelCall, Older
  <2>2. open' \subseteq open
      BY <1>3 DEF PollReply, PollCall, PollEnds, CancelCall, Older
  <2> QED  BY <1>h, <2>1, <2>2, WaitKept DEF WaitInv
<1>4. ASSUME NEW s \in HShards, BeginPerson(s) \/ Respawn(s) \/ \E c \in 1..made : BeginCall(s, c)
      PROVE WaitInv'
  <2>1. UNCHANGED <<made, call, open, asking>>  BY <1>4 DEF BeginPerson, Respawn, BeginCall
  <2> QED  BY <1>h, <2>1, WaitKept DEF WaitInv
<1>5. ASSUME NEW s \in HShards,
             HoldTurn(s) \/ Crash(s) \/ \E o \in {"answer", "error"} : EndTurn(s, o)
      PROVE WaitInv'
  <2>1. made' = made /\ call' = call /\ asking' = Orphaned(s) /\ open' \subseteq open
      BY <1>5 DEF HoldTurn, Crash, EndTurn
  <2>2. \A q \in asking' : AskOk(q)  BY <2>1, OrphansAreOk DEF WaitInv
  <2> QED  BY <1>h, <2>1, <2>2, WaitKept
<1>6. ASSUME PruneReap \/ HiveRestart \/ UNCHANGED HiveVars PROVE WaitInv'
  <2>1. made' = made /\ call' = call /\ open' \subseteq open /\ asking' \subseteq asking
      BY <1>6 DEF PruneReap, HiveRestart, HiveVars
  <2>2. \A q \in asking' : AskOk(q)  BY <2>1 DEF WaitInv
  <2> QED  BY <1>h, <2>1, <2>2, WaitKept
<1> QED  BY <1>1, <1>2, <1>3, <1>4, <1>5, <1>6 DEF HiveNext

\* For any shards, calls, depths, deaths, walls and restarts: no shard waits, through open
\* calls, for itself (would_deadlock in pick_callee refuses the call that would close a cycle).
THEOREM NoWaitCycleHolds == ASSUME HiveAssumption PROVE HiveSpec => []NoWaitCycle
<1>1. WaitInv => NoWaitCycle  BY DEF WaitInv
<1> QED  BY <1>1, WaitStarts, WaitSteps, PTL DEF HiveSpec

-----------------------------------------------------------------------------
(* Recovery *)

(* The proofs.  The invariant follows a reply from its turn to the sweep: a turn that is   *)
(* not over has no row, or the one it posted in this era under key 1; a complete turn that *)
(* has rows has one under key 1, none from before its end; one that has none is still to   *)
(* be swept from its first row on.                                                         *)

ObxRow == [turn : Turns, key : 1..BatchRows, era : Nat,
           status : {"pending", "delivered", "dead", "discarded"}]

RecoveryTypes ==
  /\ phase \in [Turns -> {"none", "running", "posted", "complete", "crashed"}]
  /\ seenId \in [Turns -> SUBSET (1..BatchRows)]
  /\ endEra \in [Turns -> Nat] /\ era \in Nat
  /\ obx \in Seq(ObxRow)
  /\ direct \in [Turns -> {0, 1}] /\ result \in [Turns -> BOOLEAN]
  /\ booting \in BOOLEAN

OnlyItsPost ==
  \A t \in Turns :
    /\ phase[t] \in {"none", "running"} => Rows(t) = {}
    /\ phase[t] = "posted" =>
         /\ \A i \in Rows(t) : obx[i].key = 1 /\ obx[i].era = era /\ \A j \in Rows(t) : i = j
         /\ Rows(t) = {} => (result[t] <=> direct[t] = 1)

FirstKeyFirst ==
  \A t \in Turns : phase[t] = "complete" =>
    /\ endEra[t] <= era /\ \A i \in Rows(t) : endEra[t] <= obx[i].era
    /\ Rows(t) # {} => \E i \in Rows(t) : obx[i].key = 1
    /\ Rows(t) = {} => seenId[t] = {} \/ (direct[t] = 1 /\ seenId[t] = 1..BatchRows)

SweptInOrder ==
  /\ \A q \in sweep : /\ q \in Turns \X (1..BatchRows) /\ phase[q[1]] = "complete"
                      /\ Rows(q[1]) = {} => <<q[1], 1>> \in sweep
  /\ posting # <<>> => booting /\ posting \in sweep /\ Rows(posting[1]) # {}
  /\ booting \/ sweep = {}

StillToSweep ==
  \A t \in Turns : booting /\ phase[t] = "complete" /\ Rows(t) = {} /\ direct[t] = 0 =>
                     <<t, 1>> \in sweep

RecoveryInv ==
  /\ RecoveryTypes /\ OnlyItsPost /\ FirstKeyFirst /\ OnceInOutbox
  /\ SweptInOrder /\ StillToSweep

\* What a new outbox row does to the rows of each turn.
LEMMA RowsGrow ==
  ASSUME NEW x \in ObxRow, obx \in Seq(ObxRow), obx' = Append(obx, x)
  PROVE  /\ obx' \in Seq(ObxRow)
         /\ \A t : t # x.turn => Rows(t)' = Rows(t)
         /\ Rows(x.turn)' = Rows(x.turn) \cup {Len(obx) + 1}
         /\ \A t : \A i \in Rows(t) : obx'[i] = obx[i]
         /\ obx'[Len(obx) + 1] = x
         /\ \A t : Len(obx) + 1 \notin Rows(t)
<1>1. Len(obx) \in Nat /\ obx' \in Seq(ObxRow) /\ Len(obx') = Len(obx) + 1
    OBVIOUS
<1>2. \A i \in 1..Len(obx) : obx'[i] = obx[i]  OBVIOUS
<1>3. obx'[Len(obx) + 1] = x  OBVIOUS
<1> QED  BY <1>1, <1>2, <1>3 DEF Rows

\* A row that changes its status stays where it is.
LEMMA RowsStay ==
  ASSUME NEW i \in 1..Len(obx), NEW end \in {"delivered", "dead", "discarded"},
         obx \in Seq(ObxRow), obx' = [obx EXCEPT ![i].status = end],
         obx[i].status # "discarded"
  PROVE  /\ obx' \in Seq(ObxRow)
         /\ \A t : Rows(t)' = Rows(t)
         /\ \A j \in 1..Len(obx) : /\ obx'[j].key = obx[j].key /\ obx'[j].era = obx[j].era
                                   /\ obx'[j].status # "discarded" => obx[j].status # "discarded"
<1>1. obx[i] \in ObxRow /\ obx' = [obx EXCEPT ![i] = [obx[i] EXCEPT !.status = end]]
    OBVIOUS
<1>2. [obx[i] EXCEPT !.status = end] \in ObxRow  BY <1>1 DEF ObxRow
<1>3. obx' \in Seq(ObxRow) /\ Len(obx') = Len(obx)  BY <1>1, <1>2
<1>4. \A j \in 1..Len(obx) :
         obx[j] \in ObxRow /\ obx'[j] = IF j = i THEN [obx[i] EXCEPT !.status = end] ELSE obx[j]
    BY <1>1
<1>5. \A j \in 1..Len(obx) : /\ obx'[j].key = obx[j].key /\ obx'[j].era = obx[j].era
                             /\ obx'[j].turn = obx[j].turn
                             /\ obx'[j].status # "discarded" => obx[j].status # "discarded"
    BY <1>1, <1>4 DEF ObxRow
<1> QED  BY <1>3, <1>5 DEF Rows

LEMMA RecoveryStarts == ASSUME RecoveryAssumption PROVE RecoveryInit => RecoveryInv
<1> SUFFICES ASSUME RecoveryInit PROVE RecoveryInv
    OBVIOUS
<1>1. \A t : Rows(t) = {}  BY DEF RecoveryInit, Rows
<1>2. RecoveryTypes
  <2>1. obx \in Seq(ObxRow)  BY DEF RecoveryInit
  <2> QED  BY <2>1 DEF RecoveryInit, RecoveryTypes
<1> QED
    BY <1>1, <1>2 DEF RecoveryInit, RecoveryInv, OnlyItsPost, FirstKeyFirst, OnceInOutbox, OwnRow,
                      SweptInOrder, StillToSweep

\* A step that leaves the outbox's rows where they are and only changes their status.
LEMMA StatusStep ==
  ASSUME RecoveryAssumption, RecoveryInv,
         NEW i \in 1..Len(obx), NEW end \in {"delivered", "dead", "discarded"},
         obx' = [obx EXCEPT ![i].status = end], obx[i].status # "discarded",
         UNCHANGED <<phase, seenId, endEra, direct, result, sweep, posting, booting, era>>
  PROVE  RecoveryInv'
<1> USE DEF RecoveryInv
<1>1. obx \in Seq(ObxRow)  BY DEF RecoveryTypes
<1>2. /\ obx' \in Seq(ObxRow)
      /\ \A t : Rows(t)' = Rows(t)
      /\ \A j \in 1..Len(obx) : /\ obx'[j].key = obx[j].key /\ obx'[j].era = obx[j].era
                                /\ obx'[j].status # "discarded" => obx[j].status # "discarded"
    BY <1>1, RowsStay
<1>3. \A t : Rows(t) \subseteq 1..Len(obx)  BY DEF Rows
<1>4. RecoveryTypes'  BY <1>2 DEF RecoveryTypes
<1>5. OnlyItsPost'  BY <1>2, <1>3 DEF OnlyItsPost
<1>6. FirstKeyFirst'  BY <1>2, <1>3 DEF FirstKeyFirst
<1>7. OnceInOutbox'
  <2>1. \A t \in Turns : OwnRow(t)' = OwnRow(t) /\ OwnRow(t) \subseteq 1..Len(obx)
      BY <1>2, <1>3 DEF OwnRow
  <2> QED  BY <1>2, <2>1 DEF OnceInOutbox
<1>8. (SweptInOrder /\ StillToSweep)'  BY <1>2 DEF SweptInOrder, StillToSweep
<1> QED  BY <1>4, <1>5, <1>6, <1>7, <1>8

\* What the sweep appends for a row it found no trace of.
LEMMA SweepPosts ==
  ASSUME RecoveryAssumption, RecoveryInv, NEW t \in Turns, NEW r \in 1..BatchRows,
         SweepRow(t, r), Matched(t, r) = {}
  PROVE  RecoveryInv'
<1> USE DEF RecoveryInv
<1>1. /\ booting /\ <<t, r>> \in sweep /\ SweepOrder(<<t, r>>)
      /\ posting' = <<t, r>>
      /\ UNCHANGED <<seenId, sweep, phase, endEra, direct, result, booting, era>>
    BY DEF SweepRow
<1>2. PICK end \in {"pending", "delivered"} : obx' = Append(obx, Reply(t, r, end))
    BY DEF SweepRow
<1> DEFINE x == Reply(t, r, end)
           n == Len(obx) + 1
<1>3. era \in Nat /\ obx \in Seq(ObxRow) /\ endEra[t] \in Nat /\ Len(obx) \in Nat
    BY DEF RecoveryTypes
<1>4. x \in ObxRow /\ x.turn = t /\ x.key = r /\ x.era = era  BY <1>3 DEF Reply, ObxRow
<1>5. /\ obx' \in Seq(ObxRow)
      /\ \A u : u # t => Rows(u)' = Rows(u)
      /\ Rows(t)' = Rows(t) \cup {n}
      /\ \A u : \A i \in Rows(u) : obx'[i] = obx[i]
      /\ obx'[n] = x
      /\ \A u : n \notin Rows(u)
  <2>1. obx' = Append(obx, x)  BY <1>2
  <2> HIDE DEF x
  <2> QED  BY <1>3, <1>4, <2>1, RowsGrow
<1> HIDE DEF x, n
<1>6. phase[t] = "complete"
  <2>1. phase[(<<t, r>>)[1]] = "complete"  BY <1>1 DEF SweptInOrder
  <2> QED  BY <2>1
<1>7. ByKey(t, r) = {} /\ Near(t, endEra[t]) = {}  BY DEF Matched
<1>8. \A i \in Rows(t) : obx[i].key # r  BY <1>7 DEF ByKey, Rows
<1>9. \A i \in Rows(t) : obx[i].era = endEra[t] => obx[i].status = "discarded"
    BY <1>7 DEF Near, Rows
<1>10. Rows(t) = {} => r = 1
  <2> SUFFICES ASSUME Rows(t) = {} PROVE r = 1
      OBVIOUS
  <2>1. <<t, 1>> \in sweep
    <3>1. Rows((<<t, r>>)[1]) = {} => <<(<<t, r>>)[1], 1>> \in sweep  BY <1>1 DEF SweptInOrder
    <3> QED  BY <3>1
  <2>2. <<t, 1>> = <<t, r>> \/ t < t \/ (t = t /\ r < 1)  BY <1>1, <2>1 DEF SweepOrder
  <2>3. t \in Nat /\ r \in Nat /\ r >= 1  BY DEF RecoveryAssumption
  <2> QED  BY <2>2, <2>3
<1>11. RecoveryTypes'  BY <1>1, <1>5 DEF RecoveryTypes
<1>12. OnlyItsPost'
  <2> SUFFICES ASSUME NEW u \in Turns
               PROVE  (/\ phase[u] \in {"none", "running"} => Rows(u) = {}
                       /\ phase[u] = "posted" =>
                            /\ \A i \in Rows(u) : obx[i].key = 1 /\ obx[i].era = era /\ \A j \in Rows(u) : i = j
                            /\ Rows(u) = {} => (result[u] <=> direct[u] = 1))'
      BY DEF OnlyItsPost
  <2>1. CASE u = t  BY <1>1, <1>6, <2>1
  <2>2. CASE u # t
    <3>1. Rows(u)' = Rows(u) /\ \A i \in Rows(u) : obx'[i] = obx[i]  BY <1>5, <2>2
    <3> QED  BY <1>1, <3>1 DEF OnlyItsPost
  <2> QED  BY <2>1, <2>2
<1>13. FirstKeyFirst'
  <2> SUFFICES ASSUME NEW u \in Turns, phase[u] = "complete"
               PROVE  (/\ endEra[u] <= era /\ \A i \in Rows(u) : endEra[u] <= obx[i].era
                       /\ Rows(u) # {} => \E i \in Rows(u) : obx[i].key = 1
                       /\ Rows(u) = {} => seenId[u] = {} \/ (direct[u] = 1 /\ seenId[u] = 1..BatchRows))'
      BY <1>1 DEF FirstKeyFirst
  <2>1. CASE u = t
    <3>1. /\ endEra[t] <= era /\ \A i \in Rows(t) : endEra[t] <= obx[i].era
          /\ Rows(t) # {} => \E i \in Rows(t) : obx[i].key = 1
        BY <1>6 DEF FirstKeyFirst
    <3>2. \A i \in Rows(t)' : endEra[t] <= obx'[i].era
        BY <1>4, <1>5, <3>1
    <3>3. \E i \in Rows(t)' : obx'[i].key = 1
        BY <1>4, <1>5, <1>10, <3>1
    <3> QED  BY <1>1, <2>1, <3>1, <3>2, <3>3
  <2>2. CASE u # t
    <3>1. Rows(u)' = Rows(u) /\ \A i \in Rows(u) : obx'[i] = obx[i]  BY <1>5, <2>2
    <3> QED  BY <1>1, <3>1 DEF FirstKeyFirst
  <2> QED  BY <2>1, <2>2
<1>14. OnceInOutbox'
  <2> SUFFICES ASSUME NEW u \in Turns, phase[u] = "complete",
                      NEW k \in OwnRow(u)', obx'[k].status # "discarded"
               PROVE  \A i, j \in Rows(u)' : i = j
      BY <1>1 DEF OnceInOutbox
  <2>1. k \in Rows(u)' /\ obx'[k].key = 1 /\ obx'[k].era <= endEra[u]  BY <1>1 DEF OwnRow
  <2>2. CASE u = t
    <3>1. k \notin Rows(t)
      <4> SUFFICES ASSUME k \in Rows(t) PROVE FALSE
          OBVIOUS
      <4>1. obx'[k] = obx[k]  BY <1>5
      <4>2. obx[k].era \in Nat
        <5>1. obx[k] \in ObxRow  BY <1>3 DEF Rows
        <5> QED  BY <5>1 DEF ObxRow
      <4>3. endEra[t] <= obx[k].era  BY <1>6 DEF FirstKeyFirst
      <4>4. obx[k].era = endEra[t]  BY <1>3, <2>1, <2>2, <4>1, <4>2, <4>3
      <4> QED  BY <1>9, <2>2, <4>1, <4>4
    <3>2. k = n /\ r = 1  BY <1>4, <1>5, <2>1, <2>2, <3>1
    <3>3. Rows(t) = {}
      <4>1. Rows(t) # {} => \E i \in Rows(t) : obx[i].key = 1  BY <1>6 DEF FirstKeyFirst
      <4> QED  BY <1>8, <3>2, <4>1
    <3> QED  BY <1>5, <2>2, <3>3
  <2>3. CASE u # t
    <3>1. Rows(u)' = Rows(u) /\ \A i \in Rows(u) : obx'[i] = obx[i]  BY <1>5, <2>3
    <3>2. k \in OwnRow(u) /\ obx[k].status # "discarded"  BY <1>1, <2>1, <3>1 DEF OwnRow
    <3> QED  BY <3>1, <3>2 DEF OnceInOutbox
  <2> QED  BY <2>2, <2>3
<1>15. SweptInOrder'
  <2>1. \A u : Rows(u)' = {} => Rows(u) = {}  BY <1>5
  <2>2. posting'[1] = t /\ Rows(t)' # {}  BY <1>1, <1>5
  <2> QED  BY <1>1, <2>1, <2>2 DEF SweptInOrder
<1>16. StillToSweep'
  <2>1. \A u : Rows(u)' = {} => Rows(u) = {}  BY <1>5
  <2> QED  BY <1>1, <2>1 DEF StillToSweep
<1> QED  BY <1>11, <1>12, <1>13, <1>14, <1>15, <1>16

\* A turn's own post.
LEMMA TurnPosts ==
  ASSUME RecoveryAssumption, RecoveryInv, NEW t \in Turns, PostReply(t) PROVE RecoveryInv'
<1> USE DEF RecoveryInv
<1>1. /\ ~booting /\ phase[t] = "running" /\ phase' = [phase EXCEPT ![t] = "posted"]
      /\ UNCHANGED <<seenId, endEra, sweep, posting, booting, era>>
    BY DEF PostReply
<1>2. Rows(t) = {}  BY <1>1 DEF OnlyItsPost
<1>3. \A u : phase[u] = "complete" /\ u \in Turns => u # t  BY <1>1
<1>4. sweep = {} /\ posting = <<>>  BY <1>1 DEF SweptInOrder
<1>5. CASE UNCHANGED obx /\ \E ok \in BOOLEAN : /\ direct' = [direct EXCEPT ![t] = IF ok THEN 1 ELSE 0]
                                               /\ result' = [result EXCEPT ![t] = ok]
  <2>1. PICK ok \in BOOLEAN : /\ direct' = [direct EXCEPT ![t] = IF ok THEN 1 ELSE 0]
                              /\ result' = [result EXCEPT ![t] = ok]
      BY <1>5
  <2>2. \A u : Rows(u)' = Rows(u)  BY <1>5 DEF Rows
  <2>3. RecoveryTypes'  BY <1>1, <1>5, <2>1 DEF RecoveryTypes
  <2>4. result'[t] <=> direct'[t] = 1  BY <2>1 DEF RecoveryTypes
  <2>5. OnlyItsPost'
      BY <1>1, <1>2, <1>5, <2>1, <2>2, <2>4 DEF OnlyItsPost, RecoveryTypes
  <2>6. FirstKeyFirst'  BY <1>1, <1>5, <2>1, <2>2 DEF FirstKeyFirst, RecoveryTypes
  <2>7. OnceInOutbox'
    <3>1. \A u : OwnRow(u)' = OwnRow(u)  BY <1>1, <1>5, <2>2 DEF OwnRow
    <3> QED  BY <1>1, <1>5, <2>2, <3>1 DEF OnceInOutbox, RecoveryTypes
  <2>8. (SweptInOrder /\ StillToSweep)'
      BY <1>1, <1>4, <2>2 DEF SweptInOrder, StillToSweep
  <2> QED  BY <2>3, <2>5, <2>6, <2>7, <2>8
<1>6. CASE \E ok \in BOOLEAN :
             /\ obx' = Append(obx, Reply(t, 1, IF ok THEN "delivered" ELSE "pending"))
             /\ result' = [result EXCEPT ![t] = ok]
             /\ UNCHANGED <<direct, broken>>
  <2>1. PICK ok \in BOOLEAN :
             /\ obx' = Append(obx, Reply(t, 1, IF ok THEN "delivered" ELSE "pending"))
             /\ result' = [result EXCEPT ![t] = ok]
             /\ UNCHANGED <<direct, broken>>
      BY <1>6
  <2> DEFINE x == Reply(t, 1, IF ok THEN "delivered" ELSE "pending")
             n == Len(obx) + 1
  <2>2. era \in Nat /\ obx \in Seq(ObxRow) /\ BatchRows >= 1 /\ BatchRows \in Nat
      BY DEF RecoveryTypes, RecoveryAssumption
  <2>3. x \in ObxRow /\ x.turn = t /\ x.key = 1 /\ x.era = era  BY <2>2 DEF Reply, ObxRow
  <2>4. /\ obx' \in Seq(ObxRow)
        /\ \A u : u # t => Rows(u)' = Rows(u)
        /\ Rows(t)' = Rows(t) \cup {n}
        /\ \A u : \A i \in Rows(u) : obx'[i] = obx[i]
        /\ obx'[n] = x
    <3>1. obx' = Append(obx, x)  BY <2>1
    <3> HIDE DEF x
    <3> QED  BY <2>2, <2>3, <3>1, RowsGrow
  <2> HIDE DEF x, n
  <2>5. Rows(t)' = {n} /\ obx'[n].key = 1 /\ obx'[n].era = era  BY <1>2, <2>3, <2>4
  <2>6. RecoveryTypes'  BY <1>1, <2>1, <2>4 DEF RecoveryTypes
  <2>7. phase'[t] = "posted" /\ \A u \in Turns : u # t => phase'[u] = phase[u] /\ result'[u] = result[u]
      BY <1>1, <2>1 DEF RecoveryTypes
  <2>8. \A u : u # t => Rows(u)' = Rows(u) /\ \A i \in Rows(u) : obx'[i] = obx[i]  BY <2>4
  <2>9. OnlyItsPost'
    <3> SUFFICES ASSUME NEW u \in Turns
                 PROVE  (/\ phase[u] \in {"none", "running"} => Rows(u) = {}
                         /\ phase[u] = "posted" =>
                              /\ \A i \in Rows(u) : obx[i].key = 1 /\ obx[i].era = era /\ \A j \in Rows(u) : i = j
                              /\ Rows(u) = {} => (result[u] <=> direct[u] = 1))'
        BY DEF OnlyItsPost
    <3>1. CASE u = t
      <4>1. phase'[u] = "posted" /\ Rows(u)' = {n}  BY <2>5, <2>7, <3>1
      <4>2. \A i \in Rows(u)' : /\ obx'[i].key = 1 /\ obx'[i].era = era'
                               /\ \A j \in Rows(u)' : i = j
          BY <1>1, <2>5, <4>1
      <4> QED  BY <4>1, <4>2
    <3>2. CASE u # t
      <4>1. phase'[u] = phase[u] /\ result'[u] = result[u] /\ direct'[u] = direct[u] /\ era' = era
          BY <1>1, <2>1, <2>7, <3>2
      <4>2. Rows(u)' = Rows(u) /\ \A i \in Rows(u) : obx'[i] = obx[i]  BY <2>8, <3>2
      <4> QED  BY <4>1, <4>2 DEF OnlyItsPost
    <3> QED  BY <3>1, <3>2
  <2>10. FirstKeyFirst'
    <3> SUFFICES ASSUME NEW u \in Turns, phase'[u] = "complete"
                 PROVE  (/\ endEra[u] <= era /\ \A i \in Rows(u) : endEra[u] <= obx[i].era
                         /\ Rows(u) # {} => \E i \in Rows(u) : obx[i].key = 1
                         /\ Rows(u) = {} => seenId[u] = {} \/ (direct[u] = 1 /\ seenId[u] = 1..BatchRows))'
        BY DEF FirstKeyFirst
    <3>1. u # t /\ phase[u] = "complete"  BY <2>7
    <3>2. /\ direct'[u] = direct[u] /\ era' = era /\ endEra'[u] = endEra[u] /\ seenId'[u] = seenId[u]
        BY <1>1, <2>1
    <3>3. Rows(u)' = Rows(u) /\ \A i \in Rows(u) : obx'[i] = obx[i]  BY <2>8, <3>1
    <3> QED  BY <3>1, <3>2, <3>3 DEF FirstKeyFirst
  <2>11. OnceInOutbox'
    <3> SUFFICES ASSUME NEW u \in Turns, phase'[u] = "complete",
                        NEW k \in OwnRow(u)', obx'[k].status # "discarded"
                 PROVE  \A i, j \in Rows(u)' : i = j
        BY DEF OnceInOutbox
    <3>1. u # t /\ phase[u] = "complete"  BY <2>7
    <3>2. k \in OwnRow(u) /\ obx[k].status # "discarded"  BY <1>1, <2>8, <3>1 DEF OwnRow
    <3> QED  BY <2>8, <3>1, <3>2 DEF OnceInOutbox
  <2>12. (SweptInOrder /\ StillToSweep)'
      BY <1>1, <1>4 DEF SweptInOrder, StillToSweep
  <2> QED  BY <2>6, <2>9, <2>10, <2>11, <2>12
<1> QED  BY <1>5, <1>6 DEF PostReply

LEMMA RecoverySteps ==
  ASSUME RecoveryAssumption, RecoveryInv, [RecoveryNext]_RecoveryVars PROVE RecoveryInv'
<1> USE DEF RecoveryInv
<1> DEFINE RowsKeep == UNCHANGED obx
<1>0. RowsKeep => \A u : Rows(u)' = Rows(u)  BY DEF Rows
<1>1. ASSUME NEW t \in Turns, BeginTurn(t) PROVE RecoveryInv'
  <2>1. /\ phase[t] = "none" /\ phase' = [phase EXCEPT ![t] = "running"]
        /\ UNCHANGED <<seenId, endEra, obx, direct, result, sweep, posting, booting, era>>
      BY <1>1 DEF BeginTurn
  <2>2. \A u : Rows(u)' = Rows(u)  BY <1>0, <2>1
  <2>3. \A u \in Turns : (phase'[u] \in {"complete", "posted"} => phase'[u] = phase[u])
                         /\ (phase'[u] \in {"none", "running"} => phase[u] \in {"none", "running"})
                         /\ (phase[u] = "complete" => phase'[u] = "complete")
      BY <2>1 DEF RecoveryTypes
  <2>4. RecoveryTypes'  BY <2>1 DEF RecoveryTypes
  <2>5. (OnlyItsPost /\ FirstKeyFirst)'  BY <2>1, <2>2, <2>3 DEF OnlyItsPost, FirstKeyFirst
  <2>6. OnceInOutbox'
    <3>1. \A u : OwnRow(u)' = OwnRow(u)  BY <2>1, <2>2 DEF OwnRow
    <3> QED  BY <2>1, <2>2, <2>3, <3>1 DEF OnceInOutbox
  <2>7. (SweptInOrder /\ StillToSweep)'  BY <2>1, <2>2, <2>3 DEF SweptInOrder, StillToSweep
  <2> QED  BY <2>4, <2>5, <2>6, <2>7
<1>2. ASSUME NEW t \in Turns, PostReply(t) PROVE RecoveryInv'
    BY <1>2, TurnPosts
<1>3. ASSUME NEW t \in Turns, MarkComplete(t) PROVE RecoveryInv'
  <2>1. /\ ~booting /\ phase[t] = "posted" /\ phase' = [phase EXCEPT ![t] = "complete"]
        /\ endEra' = [endEra EXCEPT ![t] = era]
        /\ seenId' = [seenId EXCEPT ![t] = IF result[t] THEN 1..BatchRows ELSE {}]
        /\ UNCHANGED <<obx, direct, result, sweep, posting, booting, era>>
      BY <1>3 DEF MarkComplete, KnownIds
  <2>2. \A u : Rows(u)' = Rows(u)  BY <1>0, <2>1
  <2>3. /\ \A i \in Rows(t) : obx[i].key = 1 /\ obx[i].era = era /\ \A j \in Rows(t) : i = j
        /\ Rows(t) = {} => (result[t] <=> direct[t] = 1)
      BY <2>1 DEF OnlyItsPost
  <2>4. /\ endEra'[t] = era /\ seenId'[t] = IF result[t] THEN 1..BatchRows ELSE {}
        /\ phase'[t] = "complete" /\ era \in Nat
        /\ \A u \in Turns : u # t => /\ endEra'[u] = endEra[u] /\ seenId'[u] = seenId[u]
                                     /\ phase'[u] = phase[u]
      BY <2>1 DEF RecoveryTypes
  <2>5. RecoveryTypes'  BY <2>1 DEF RecoveryTypes
  <2>6. OnlyItsPost'  BY <2>1, <2>2, <2>4 DEF OnlyItsPost
  <2>7. FirstKeyFirst'
    <3> SUFFICES ASSUME NEW u \in Turns, phase'[u] = "complete"
                 PROVE  (/\ endEra[u] <= era /\ \A i \in Rows(u) : endEra[u] <= obx[i].era
                         /\ Rows(u) # {} => \E i \in Rows(u) : obx[i].key = 1
                         /\ Rows(u) = {} => seenId[u] = {} \/ (direct[u] = 1 /\ seenId[u] = 1..BatchRows))'
        BY DEF FirstKeyFirst
    <3>1. CASE u = t  BY <2>1, <2>2, <2>3, <2>4, <3>1
    <3>2. CASE u # t  BY <2>1, <2>2, <2>4, <3>2 DEF FirstKeyFirst
    <3> QED  BY <3>1, <3>2
  <2>8. OnceInOutbox'
    <3> SUFFICES ASSUME NEW u \in Turns, phase'[u] = "complete",
                        NEW k \in OwnRow(u)', obx'[k].status # "discarded"
                 PROVE  \A i, j \in Rows(u)' : i = j
        BY DEF OnceInOutbox
    <3>1. CASE u = t  BY <2>2, <2>3, <3>1
    <3>2. CASE u # t
      <4>1. OwnRow(u)' = OwnRow(u)  BY <2>1, <2>2, <2>4, <3>2 DEF OwnRow
      <4> QED  BY <2>1, <2>2, <2>4, <3>2, <4>1 DEF OnceInOutbox
    <3> QED  BY <3>1, <3>2
  <2>9. (SweptInOrder /\ StillToSweep)'  BY <2>1, <2>2 DEF SweptInOrder, StillToSweep
  <2> QED  BY <2>5, <2>6, <2>7, <2>8, <2>9
<1>4. ASSUME NEW i \in 1..Len(obx), OperatorDiscards(i) \/ \E end \in {"delivered", "dead"} : Settle(i, end)
      PROVE  RecoveryInv'
  <2>1. PICK end \in {"delivered", "dead", "discarded"} : obx' = [obx EXCEPT ![i].status = end]
      BY <1>4 DEF OperatorDiscards, Settle
  <2>2. /\ obx[i].status # "discarded"
        /\ UNCHANGED <<phase, seenId, endEra, direct, result, sweep, posting, booting, era>>
      BY <1>4 DEF OperatorDiscards, Settle
  <2> QED  BY <2>1, <2>2, StatusStep
<1>5. ASSUME NextEra PROVE RecoveryInv'
  <2>1. /\ \A t \in Turns : phase[t] # "posted"
        /\ era' = era + 1
        /\ UNCHANGED <<phase, seenId, endEra, obx, direct, result, sweep, posting, booting>>
      BY <1>5 DEF NextEra
  <2>2. \A u : Rows(u)' = Rows(u)  BY <1>0, <2>1
  <2>3. RecoveryTypes'  BY <2>1 DEF RecoveryTypes
  <2>4. \A u \in Turns : endEra[u] \in Nat /\ era \in Nat  BY DEF RecoveryTypes
  <2>5. OnlyItsPost'  BY <2>1, <2>2 DEF OnlyItsPost
  <2>6. FirstKeyFirst'
    <3> SUFFICES ASSUME NEW u \in Turns, phase[u] = "complete"
                 PROVE  (/\ endEra[u] <= era /\ \A i \in Rows(u) : endEra[u] <= obx[i].era
                         /\ Rows(u) # {} => \E i \in Rows(u) : obx[i].key = 1
                         /\ Rows(u) = {} => seenId[u] = {} \/ (direct[u] = 1 /\ seenId[u] = 1..BatchRows))'
        BY <2>1 DEF FirstKeyFirst
    <3>1. endEra'[u] <= era'
      <4>1. endEra[u] <= era  BY DEF FirstKeyFirst
      <4> QED  BY <2>1, <2>4, <4>1
    <3> QED  BY <2>1, <2>2, <3>1 DEF FirstKeyFirst
  <2>7. OnceInOutbox'
    <3>1. \A u : OwnRow(u)' = OwnRow(u)  BY <2>1, <2>2 DEF OwnRow
    <3> QED  BY <2>1, <2>2, <3>1 DEF OnceInOutbox
  <2>8. (SweptInOrder /\ StillToSweep)'  BY <2>1, <2>2 DEF SweptInOrder, StillToSweep
  <2> QED  BY <2>3, <2>5, <2>6, <2>7, <2>8
<1>6. ASSUME Boot PROVE RecoveryInv'
  <2>1. /\ phase' = [t \in Turns |-> IF phase[t] \in {"running", "posted"} THEN "crashed" ELSE phase[t]]
        /\ sweep' = {q \in Turns \X (1..BatchRows) : phase[q[1]] = "complete" /\ q[2] \notin seenId[q[1]]}
        /\ posting' = <<>> /\ booting' = TRUE
        /\ UNCHANGED <<seenId, endEra, obx, direct, result, era>>
      BY <1>6 DEF Boot
  <2>2. \A u : Rows(u)' = Rows(u)  BY <1>0, <2>1
  <2>3. \A u \in Turns : /\ phase'[u] = "complete" <=> phase[u] = "complete"
                         /\ phase'[u] # "posted" /\ phase'[u] # "running"
                         /\ phase'[u] = "none" => phase[u] = "none"
      BY <2>1
  <2>4. RecoveryTypes'  BY <2>1 DEF RecoveryTypes
  <2>5. (OnlyItsPost /\ FirstKeyFirst)'  BY <2>1, <2>2, <2>3 DEF OnlyItsPost, FirstKeyFirst
  <2>6. OnceInOutbox'
    <3>1. \A u : OwnRow(u)' = OwnRow(u)  BY <2>1, <2>2 DEF OwnRow
    <3> QED  BY <2>1, <2>2, <2>3, <3>1 DEF OnceInOutbox
  <2>7. 1 \in 1..BatchRows  BY DEF RecoveryAssumption
  <2>8. ASSUME NEW u \in Turns, phase[u] = "complete", seenId[u] = {} PROVE <<u, 1>> \in sweep'
      BY <2>1, <2>7, <2>8
  <2>9. StillToSweep'
    <3> SUFFICES ASSUME NEW u \in Turns, phase[u] = "complete", Rows(u) = {}, direct[u] = 0
                 PROVE  <<u, 1>> \in sweep'
        BY <2>1, <2>2, <2>3 DEF StillToSweep
    <3>1. seenId[u] = {}  BY DEF FirstKeyFirst
    <3> QED  BY <2>8, <3>1
  <2>10. SweptInOrder'
    <3>1. ASSUME NEW q \in sweep', Rows(q[1]) = {} PROVE <<q[1], 1>> \in sweep'
      <4>1. q[1] \in Turns /\ q[2] \in 1..BatchRows /\ phase[q[1]] = "complete" /\ q[2] \notin seenId[q[1]]
          BY <2>1
      <4>2. seenId[q[1]] = {}  BY <3>1, <4>1 DEF FirstKeyFirst
      <4> QED  BY <2>8, <4>1, <4>2
    <3>2. \A q \in sweep' : q \in Turns \X (1..BatchRows) /\ phase'[q[1]] = "complete"
        BY <2>1, <2>3
    <3> QED  BY <2>1, <2>2, <3>1, <3>2 DEF SweptInOrder
  <2> QED  BY <2>4, <2>5, <2>6, <2>9, <2>10
<1>7. ASSUME NEW t \in Turns, NEW r \in 1..BatchRows, SweepRow(t, r) PROVE RecoveryInv'
  <2>1. CASE Matched(t, r) = {}  BY <1>7, <2>1, SweepPosts
  <2>2. CASE Matched(t, r) # {}
    <3>1. /\ booting /\ posting = <<>> /\ sweep' = sweep \ {<<t, r>>}
          /\ UNCHANGED <<obx, posting, phase, endEra, direct, result, booting, era>>
          /\ \E S \in SUBSET (1..BatchRows) : seenId' = [seenId EXCEPT ![t] = S]
        BY <1>7, <2>2 DEF SweepRow, RecoveryTypes
    <3>2. Rows(t) # {}  BY <2>2 DEF Matched, ByKey, Near, Rows
    <3>3. \A u : Rows(u)' = Rows(u)  BY <1>0, <3>1
    <3>4. \A u \in Turns : u # t => seenId'[u] = seenId[u]  BY <3>1 DEF RecoveryTypes
    <3>5. RecoveryTypes'  BY <3>1 DEF RecoveryTypes
    <3>6. OnlyItsPost'  BY <3>1, <3>3 DEF OnlyItsPost
    <3>7. FirstKeyFirst'  BY <3>1, <3>2, <3>3, <3>4 DEF FirstKeyFirst
    <3>8. OnceInOutbox'
      <4>1. \A u : OwnRow(u)' = OwnRow(u)  BY <3>1, <3>3 DEF OwnRow
      <4> QED  BY <3>1, <3>3, <4>1 DEF OnceInOutbox
    <3>9. \A u : Rows(u) = {} /\ <<u, 1>> \in sweep => <<u, 1>> \in sweep'
        BY <3>1, <3>2
    <3>10. (SweptInOrder /\ StillToSweep)'
        BY <3>1, <3>3, <3>9 DEF SweptInOrder, StillToSweep
    <3> QED  BY <3>5, <3>6, <3>7, <3>8, <3>10
  <2> QED  BY <2>1, <2>2
<1>8. ASSUME SweepRecord PROVE RecoveryInv'
  <2>1. /\ booting /\ posting \in sweep /\ Rows(posting[1]) # {}
        /\ sweep' = sweep \ {posting} /\ posting' = <<>>
        /\ UNCHANGED <<phase, endEra, obx, direct, result, booting, era>>
      BY <1>8 DEF SweepRecord, SweptInOrder
  <2>2. PICK t \in Turns, r \in 1..BatchRows : posting = <<t, r>>
    <3>1. posting \in Turns \X (1..BatchRows)  BY <2>1 DEF SweptInOrder
    <3> QED  BY <3>1
  <2>3. Rows(t) # {}  BY <2>1, <2>2
  <2>4. \E S \in SUBSET (1..BatchRows) : seenId' = [seenId EXCEPT ![t] = S]
    <3>1. posting[1] = t /\ posting[2] = r /\ posting # <<>>  BY <2>2
    <3>2. seenId' = [seenId EXCEPT ![t] = IF obx[Len(obx)].status = "delivered" THEN @ \cup {r} ELSE @]
        BY <1>8, <3>1 DEF SweepRecord
    <3> QED  BY <3>2 DEF RecoveryTypes
  <2>5. \A u : Rows(u)' = Rows(u)  BY <1>0, <2>1
  <2>6. \A u \in Turns : u # t => seenId'[u] = seenId[u]  BY <2>4 DEF RecoveryTypes
  <2>7. RecoveryTypes'  BY <2>1, <2>4 DEF RecoveryTypes
  <2>8. OnlyItsPost'  BY <2>1, <2>5 DEF OnlyItsPost
  <2>9. FirstKeyFirst'  BY <2>1, <2>3, <2>5, <2>6 DEF FirstKeyFirst
  <2>10. OnceInOutbox'
    <3>1. \A u : OwnRow(u)' = OwnRow(u)  BY <2>1, <2>5 DEF OwnRow
    <3> QED  BY <2>1, <2>5, <3>1 DEF OnceInOutbox
  <2>11. \A u : Rows(u) = {} /\ <<u, 1>> \in sweep => <<u, 1>> \in sweep'
      BY <2>1, <2>2, <2>3
  <2>12. (SweptInOrder /\ StillToSweep)'
      BY <2>1, <2>5, <2>11 DEF SweptInOrder, StillToSweep
  <2> QED  BY <2>7, <2>8, <2>9, <2>10, <2>12
<1>9. ASSUME SweepEnds PROVE RecoveryInv'
  <2>1. /\ sweep = {} /\ posting = <<>> /\ booting' = FALSE
        /\ UNCHANGED <<phase, seenId, endEra, obx, direct, result, sweep, posting, era>>
      BY <1>9 DEF SweepEnds
  <2>2. \A u : Rows(u)' = Rows(u)  BY <1>0, <2>1
  <2>3. RecoveryTypes'  BY <2>1 DEF RecoveryTypes
  <2>4. (OnlyItsPost /\ FirstKeyFirst)'  BY <2>1, <2>2 DEF OnlyItsPost, FirstKeyFirst
  <2>5. OnceInOutbox'
    <3>1. \A u : OwnRow(u)' = OwnRow(u)  BY <2>1, <2>2 DEF OwnRow
    <3> QED  BY <2>1, <2>2, <3>1 DEF OnceInOutbox
  <2>6. (SweptInOrder /\ StillToSweep)'  BY <2>1, <2>2 DEF SweptInOrder, StillToSweep
  <2> QED  BY <2>3, <2>4, <2>5, <2>6
<1>10. ASSUME UNCHANGED RecoveryVars PROVE RecoveryInv'
  <2>1. UNCHANGED <<phase, seenId, endEra, obx, direct, result, sweep, posting, booting, era>>
      BY <1>10 DEF RecoveryVars
  <2>2. \A u : Rows(u)' = Rows(u)  BY <1>0, <2>1
  <2>3. RecoveryTypes'  BY <2>1 DEF RecoveryTypes
  <2>4. (OnlyItsPost /\ FirstKeyFirst)'  BY <2>1, <2>2 DEF OnlyItsPost, FirstKeyFirst
  <2>5. OnceInOutbox'
    <3>1. \A u : OwnRow(u)' = OwnRow(u)  BY <2>1, <2>2 DEF OwnRow
    <3> QED  BY <2>1, <2>2, <3>1 DEF OnceInOutbox
  <2>6. (SweptInOrder /\ StillToSweep)'  BY <2>1, <2>2 DEF SweptInOrder, StillToSweep
  <2> QED  BY <2>3, <2>4, <2>5, <2>6
<1> QED
    BY <1>1, <1>2, <1>3, <1>4, <1>5, <1>6, <1>7, <1>8, <1>9, <1>10 DEF RecoveryNext

\* For any turns, batches, crashes and broken stores: a reply its turn left to the outbox is
\* not given to it again by a boot (crash_recovery with find_by_queue_id, find_for_reply).
THEOREM OnceInOutboxHolds == ASSUME RecoveryAssumption PROVE RecoverySpec => []OnceInOutbox
<1>1. RecoveryInv => OnceInOutbox  BY DEF RecoveryInv
<1> QED  BY <1>1, RecoveryStarts, RecoverySteps, PTL DEF RecoverySpec

\* For any turns, batches, crashes and broken stores: when the sweep of a boot has looked at
\* every row, each complete reply is in the outbox or was posted directly (crash_recovery).
THEOREM NoReplyLostHolds == ASSUME RecoveryAssumption PROVE RecoverySpec => []NoReplyLost
<1>1. RecoveryInv => NoReplyLost
  <2> SUFFICES ASSUME RecoveryInv, booting, sweep = {}, NEW t \in Turns, phase[t] = "complete",
                      Rows(t) = {}
               PROVE  direct[t] > 0
      BY DEF NoReplyLost
  <2>1. direct[t] # 0  BY DEF RecoveryInv, StillToSweep
  <2>2. direct[t] \in {0, 1}  BY DEF RecoveryInv, RecoveryTypes
  <2> QED  BY <2>1, <2>2
<1> QED  BY <1>1, RecoveryStarts, RecoverySteps, PTL DEF RecoverySpec

-----------------------------------------------------------------------------
(* Switches *)

SwitchTypes ==
    /\ want \in Nat \ {0}
    /\ switchProc \in [SwitchShards -> Nat]
    /\ switchTurn \in [SwitchShards -> {"none", "running", "read", "closing"}]
    /\ step \in [SwitchShards -> [Doers -> {"none", "killing", "killed", "spawning"}]]
    /\ read \in [SwitchShards -> [Doers -> Nat]]
    /\ todo \in [Handlers -> SUBSET SwitchShards]

\* A followup's respawn holds the drains back from the hook to its end.
FollowOk(s) ==
    /\ step[s]["followup"] # "none" => s \in respawning /\ switchTurn[s] = "none" /\ s \notin follow
    /\ s \in follow => s \in respawning /\ switchTurn[s] # "none"

\* A change waits for a turn that will still fire its hooks, or has missed them.
PendingOk(s) ==
    /\ s \in pending => s \in missed \/ switchTurn[s] \in {"running", "read"}
    /\ s \in switchBusy /\ switchProc[s] # 0 => switchTurn[s] # "none"

\* A shard that does not run with the latest change has somebody who sees to it, and a
\* spawn on its way has read that change.
UsedOk(s) ==
    /\ switchProc[s] = 0 => \E d \in Doers : step[s][d] \in {"killed", "spawning"}
    /\ \A d \in Doers : step[s][d] = "spawning" =>
         read[s][d] # 0 /\ (s \notin switchRaced => read[s][d] = want)
    /\ \/ s \in switchRaced \/ switchProc[s] = want \/ s \in pending \/ s \in follow
       \/ \E d \in Doers : step[s][d] # "none"
       \/ \E h \in Handlers : s \in todo[h]

SwitchInv ==
    /\ SwitchTypes
    /\ \A s \in SwitchShards : FollowOk(s) /\ PendingOk(s) /\ UsedOk(s)

LEMMA SwitchStarts == ASSUME SwitchAssumption PROVE SwitchInit => SwitchInv
BY DEF SwitchInit, SwitchInv, SwitchTypes, FollowOk, PendingOk, UsedOk, Doers

LEMMA SwitchSteps ==
  ASSUME SwitchAssumption, SwitchInv, [SwitchNext]_SwitchVars PROVE SwitchInv'
<1> USE DEF SwitchInv, SwitchTypes
<1>d. "followup" \in Doers /\ "watcher" \in Doers /\ "followup" \notin Handlers /\ Handlers \subseteq Doers
      /\ "watcher" \notin Handlers
    BY DEF Doers, SwitchAssumption
<1>1. ASSUME NEW h \in Handlers, SetOverride(h) PROVE SwitchInv'
  <2>1. SwitchTypes'  BY <1>1 DEF SetOverride
  <2>2. ASSUME NEW s \in SwitchShards PROVE FollowOk(s)' /\ PendingOk(s)'
      BY <1>1 DEF SetOverride, FollowOk, PendingOk
  <2>3. ASSUME NEW s \in SwitchShards PROVE UsedOk(s)'
    <3>1. s \in todo'[h]  BY <1>1 DEF SetOverride
    <3>2. s \notin switchRaced' => \A d \in Doers : step[s][d] # "spawning"
        BY <1>1 DEF SetOverride, Spawning
    <3> QED  BY <1>1, <3>1, <3>2 DEF SetOverride, UsedOk
  <2> QED  BY <2>1, <2>2, <2>3
<1>2. ASSUME NEW h \in Handlers, NEW s \in SwitchShards, Look(h, s) PROVE SwitchInv'
  <2>1. SwitchTypes'  BY <1>2, <1>d DEF Look
  <2>2. ASSUME NEW t \in SwitchShards PROVE FollowOk(t)' /\ PendingOk(t)'
    <3>1. step'[t]["followup"] = step[t]["followup"]  BY <1>2, <1>d DEF Look
    <3>2. FollowOk(t)'  BY <1>2, <3>1 DEF Look, FollowOk
    <3>3. PendingOk(t)'  BY <1>2 DEF Look, PendingOk, InTurn
    <3> QED  BY <3>2, <3>3
  <2>3. ASSUME NEW t \in SwitchShards PROVE UsedOk(t)'
    <3>1. CASE t # s
      <4>1. step'[t] = step[t]  BY <1>2, <3>1 DEF Look
      <4>2. \A g \in Handlers : t \in todo[g] <=> t \in todo'[g]  BY <1>2, <3>1 DEF Look
      <4>3. UsedOk(t)  OBVIOUS
      <4> QED  BY <1>2, <4>1, <4>2, <4>3 DEF Look, UsedOk
    <3>2. CASE t = s /\ SwitchIdle(s)
      <4>1. step' = [step EXCEPT ![s][h] = "killing"] /\ step[s][h] = "none"  BY <1>2, <3>2 DEF Look
      <4>2. /\ step'[s][h] = "killing"
            /\ \A d \in Doers : d # h => step'[s][d] = step[s][d]
          BY <4>1, <1>d
      <4>3. \A d \in Doers : step'[s][d] = "spawning" => step[s][d] = "spawning"
          BY <4>2
      <4> QED  BY <1>2, <3>2, <4>2, <4>3, <1>d DEF Look, UsedOk, SwitchIdle
    <3>3. CASE t = s /\ ~SwitchIdle(s)
      <4>1. step' = step  BY <1>2, <3>3 DEF Look
      <4>2. s \in pending' \/ \E d \in Doers : step[s][d] # "none"
          BY <1>2, <3>3 DEF Look, UsedOk, SwitchIdle, InTurn
      <4> QED  BY <1>2, <3>3, <4>1, <4>2 DEF Look, UsedOk
    <3> QED  BY <3>1, <3>2, <3>3
  <2> QED  BY <2>1, <2>2, <2>3
<1>3. ASSUME NEW s \in SwitchShards, NEW d \in Doers,
             KillEnds(s, d) \/ SpawnReads(s, d) \/ SpawnLands(s, d) \/ (Die(s) /\ d = "watcher")
      PROVE SwitchInv'
  <2> DEFINE to == IF KillEnds(s, d) \/ Die(s) THEN "killed"
                   ELSE IF SpawnReads(s, d) THEN "spawning" ELSE "none"
  <2>1. step' = [step EXCEPT ![s][d] = to] /\ UNCHANGED <<todo, switchTurn, follow, pending, missed, switchRaced, want>>
      BY <1>3 DEF KillEnds, SpawnReads, SpawnLands, Die
  <2>2. SwitchTypes'
    <3>1. /\ to \in {"none", "killed", "spawning"}
          /\ read' \in [SwitchShards -> [Doers -> Nat]]
          /\ switchProc' \in [SwitchShards -> Nat]
      <4>1. CASE KillEnds(s, d) \/ Die(s)  BY <4>1 DEF KillEnds, Die
      <4>2. CASE SpawnReads(s, d)
        <5>1. [read[s] EXCEPT ![d] = want] \in [Doers -> Nat]  OBVIOUS
        <5> QED  BY <4>2, <5>1 DEF SpawnReads
      <4>3. CASE SpawnLands(s, d)
        <5>1. [read[s] EXCEPT ![d] = 0] \in [Doers -> Nat] /\ read[s][d] \in Nat  OBVIOUS
        <5> QED  BY <4>3, <5>1 DEF SpawnLands
      <4> QED  BY <1>3, <4>1, <4>2, <4>3
    <3> HIDE DEF to
    <3>2. step' \in [SwitchShards -> [Doers -> {"none", "killing", "killed", "spawning"}]]
      <4>1. [step[s] EXCEPT ![d] = to] \in [Doers -> {"none", "killing", "killed", "spawning"}]
          BY <3>1
      <4> QED  BY <2>1, <4>1
    <3> QED  BY <2>1, <3>1, <3>2
  <2>3. ASSUME NEW t \in SwitchShards PROVE FollowOk(t)' /\ PendingOk(t)'
    <3>1. FollowOk(t) /\ PendingOk(t)  OBVIOUS
    <3>2. PendingOk(t)'
      <4>1. switchProc'[t] # 0 /\ t \in switchBusy' => switchProc[t] # 0 /\ t \in switchBusy
          BY <1>3 DEF KillEnds, SpawnReads, SpawnLands, Die
      <4> QED  BY <2>1, <3>1, <4>1 DEF PendingOk
    <3>3. FollowOk(t)'
      <4>1. step'[t]["followup"] # "none" => step[t]["followup"] # "none"
        <5>1. CASE t = s /\ d = "followup"  BY <1>3, <1>d, <5>1 DEF KillEnds, SpawnReads, SpawnLands
        <5>2. CASE t # s \/ d # "followup"
          <6> HIDE DEF to
          <6>1. step'[t]["followup"] = step[t]["followup"]  BY <2>1, <1>d, <5>2
          <6> QED  BY <6>1
        <5> QED  BY <5>1, <5>2
      <4>2. step'[t]["followup"] # "none" => (t \in respawning => t \in respawning')
          BY <1>3, <1>d DEF KillEnds, SpawnReads, SpawnLands, Die
      <4>3. t \in follow => t \in respawning'
          BY <1>3, <1>d, <3>1 DEF KillEnds, SpawnReads, SpawnLands, Die, FollowOk
      <4> QED  BY <2>1, <3>1, <4>1, <4>2, <4>3 DEF FollowOk
    <3> QED  BY <3>2, <3>3
  <2>4. ASSUME NEW t \in SwitchShards PROVE UsedOk(t)'
    <3>0. UsedOk(t)  OBVIOUS
    <3>1. CASE t # s
        BY <1>3, <3>0, <3>1 DEF KillEnds, SpawnReads, SpawnLands, Die, UsedOk
    <3>2. CASE t = s /\ (KillEnds(s, d) \/ Die(s))
      <4>0. to = "killed"  BY <3>2
      <4>1. step'[s][d] = "killed" /\ \A e \in Doers : e # d => step'[s][e] = step[s][e]
          BY <2>1, <4>0
      <4>2. read' = read /\ switchProc'[s] = 0  BY <1>3, <3>2 DEF KillEnds, Die
      <4> QED  BY <2>1, <3>0, <3>2, <4>1, <4>2 DEF UsedOk
    <3>3. CASE t = s /\ SpawnReads(s, d)
      <4>1. step'[s][d] = "spawning" /\ \A e \in Doers : e # d => step'[s][e] = step[s][e]
          BY <1>3, <3>3 DEF SpawnReads
      <4>2. read'[s][d] = want /\ \A e \in Doers : e # d => read'[s][e] = read[s][e]
          BY <1>3, <3>3 DEF SpawnReads
      <4> QED  BY <2>1, <3>0, <3>3, <4>1, <4>2 DEF UsedOk
    <3>4. CASE t = s /\ SpawnLands(s, d)
      <4>1. step'[s][d] = "none" /\ \A e \in Doers : e # d => step'[s][e] = step[s][e]
          BY <1>3, <3>4 DEF SpawnLands
      <4>2. \A e \in Doers : e # d => read'[s][e] = read[s][e]
          BY <1>3, <3>4 DEF SpawnLands
      <4>3. switchProc'[s] = read[s][d] /\ step[s][d] = "spawning"  BY <3>4 DEF SpawnLands
      <4> QED  BY <2>1, <3>0, <3>4, <4>1, <4>2, <4>3 DEF UsedOk
    <3> QED  BY <1>3, <3>1, <3>2, <3>3, <3>4
  <2> QED  BY <2>2, <2>3, <2>4
<1>4. ASSUME NEW s \in SwitchShards,
             \/ SwitchTurnBegins(s) \/ HookFires(s) \/ NoHook(s) \/ SettlesOne(s)
             \/ \E more \in BOOLEAN : ResultRead(s, more)
      PROVE SwitchInv'
  <2> USE DEF SwitchTurnBegins, HookFires, NoHook, SettlesOne, ResultRead, Undeferred, Hooked, Deferred
  <2>1. SwitchTypes'  BY <1>4
  <2>2. ASSUME NEW t \in SwitchShards PROVE FollowOk(t)' /\ PendingOk(t)' /\ UsedOk(t)'
    <3>1. FollowOk(t) /\ PendingOk(t) /\ UsedOk(t)  OBVIOUS
    <3>2. FollowOk(t)'  BY <1>4, <3>1 DEF FollowOk
    <3>3. PendingOk(t)'  BY <1>4, <3>1 DEF PendingOk
    <3>4. UsedOk(t)'  BY <1>4, <3>1 DEF UsedOk
    <3> QED  BY <3>2, <3>3, <3>4
  <2> QED  BY <2>1, <2>2
<1>5. ASSUME NEW s \in SwitchShards, LoopEnds(s) PROVE SwitchInv'
  <2>1. SwitchTypes'  BY <1>5, <1>d DEF LoopEnds
  <2>2. ASSUME NEW t \in SwitchShards PROVE FollowOk(t)' /\ PendingOk(t)' /\ UsedOk(t)'
    <3>1. FollowOk(t) /\ PendingOk(t) /\ UsedOk(t)  OBVIOUS
    <3>2. \A e \in Doers : e # "followup" \/ s # t \/ s \notin follow => step'[t][e] = step[t][e]
        BY <1>5 DEF LoopEnds
    <3>3. t = s /\ s \in follow => step'[t]["followup"] = "killing"
        BY <1>5, <1>d DEF LoopEnds
    <3>4. FollowOk(t)'  BY <1>5, <3>1, <3>2, <3>3, <1>d DEF LoopEnds, FollowOk
    <3>5. PendingOk(t)'  BY <1>5, <3>1 DEF LoopEnds, PendingOk
    <3>6. \A e \in Doers : step[t][e] # "none" /\ ~(e = "followup" /\ t = s /\ s \in follow) => step'[t][e] # "none"
        BY <3>2
    <3>7. switchProc' = switchProc /\ read' = read /\ want' = want /\ todo' = todo /\ switchRaced' = switchRaced
          /\ pending' = pending /\ follow' = follow \ {s}
        BY <1>5 DEF LoopEnds
    <3>8. CASE t = s /\ s \in follow
      <4>1. step[s]["followup"] = "none"  BY <3>1, <3>8 DEF FollowOk
      <4>2. \A e \in Doers : step'[t][e] \in {"killed", "spawning"} <=> step[t][e] \in {"killed", "spawning"}
          BY <3>2, <3>3, <3>8, <4>1
      <4>3. \A e \in Doers : step'[t][e] = "spawning" => step[t][e] = "spawning"
          BY <3>2, <3>3, <3>8
      <4>4. \E e \in Doers : step'[t][e] # "none"  BY <3>3, <3>8, <1>d
      <4>5. switchProc'[t] = 0 => \E e \in Doers : step'[t][e] \in {"killed", "spawning"}
          BY <3>1, <3>7, <4>2 DEF UsedOk
      <4>6. \A e \in Doers : step'[t][e] = "spawning" =>
              read'[t][e] # 0 /\ (t \notin switchRaced' => read'[t][e] = want')
          BY <3>1, <3>7, <4>3 DEF UsedOk
      <4> QED  BY <3>4, <3>5, <4>4, <4>5, <4>6 DEF UsedOk
    <3>9. CASE ~(t = s /\ s \in follow)
      <4>1. \A e \in Doers : step'[t][e] = step[t][e]  BY <3>2, <3>9
      <4>2. t \in follow => t \in follow'  BY <3>7, <3>9
      <4>3. switchProc'[t] = 0 => \E e \in Doers : step'[t][e] \in {"killed", "spawning"}
          BY <3>1, <3>7, <4>1 DEF UsedOk
      <4>4. (\E e \in Doers : step[t][e] # "none") => \E e \in Doers : step'[t][e] # "none"  BY <4>1
      <4>5. \A e \in Doers : step'[t][e] = "spawning" =>
              read'[t][e] # 0 /\ (t \notin switchRaced' => read'[t][e] = want')
          BY <3>1, <3>7, <4>1 DEF UsedOk
      <4>6. \/ t \in switchRaced' \/ switchProc'[t] = want' \/ t \in pending' \/ t \in follow'
            \/ \E e \in Doers : step'[t][e] # "none"
            \/ \E h \in Handlers : t \in todo'[h]
          BY <3>1, <3>7, <4>2, <4>4 DEF UsedOk
      <4> QED  BY <3>4, <3>5, <4>3, <4>5, <4>6 DEF UsedOk
    <3> QED  BY <3>4, <3>5, <3>8, <3>9
  <2> QED  BY <2>1, <2>2
<1>6. CASE UNCHANGED SwitchVars
    BY <1>6 DEF SwitchVars, FollowOk, PendingOk, UsedOk
<1> QED  BY <1>1, <1>2, <1>3, <1>4, <1>5, <1>6, <1>d DEF SwitchNext

LEMMA SwitchSafe == SwitchInv => AppliedIsUsed /\ RespawnIsAlone /\ DeferredLands
<1> SUFFICES ASSUME SwitchInv PROVE AppliedIsUsed /\ RespawnIsAlone /\ DeferredLands  OBVIOUS
<1>1. AppliedIsUsed  BY DEF SwitchInv, UsedOk, AppliedIsUsed, SwitchAtRest
<1>2. RespawnIsAlone  BY DEF SwitchInv, FollowOk, RespawnIsAlone
<1>3. DeferredLands  BY DEF SwitchInv, PendingOk, DeferredLands, SwitchAtRest
<1> QED  BY <1>1, <1>2, <1>3

-----------------------------------------------------------------------------
(* Members *)

RequestType == [at : {"free", "removes", "forgets", "starts", "spawning"},
                removed : SUBSET AgentIds, added : SUBSET AgentIds,
                now : AgentIds \cup {"none"}, want : AgentIds \cup {"none"}]

MembersTypes ==
    /\ file \subseteq AgentIds
    /\ writer \in [adds : AgentIds \cup {"none"}, read : SUBSET AgentIds]
    /\ writer.adds = "none" => writer = NoWriter
    /\ specs \subseteq AgentIds
    /\ memberProcs \in [AgentIds -> Int]
    /\ request \in [Requests -> RequestType]
    /\ queued \in [AgentIds -> Nat]
    /\ membersTurn \in [AgentIds -> {"none", "waits", "reads", "died"}]
    /\ orphans \in [AgentIds -> Nat]

Sole == \A r, q \in Requests : request[r] # Free /\ request[q] # Free => r = q

\* What a request has still to do agrees with the configuration it was given.
RequestOk(q) ==
    /\ q.at = "free" => q = Free
    /\ q.removed \cap specs = {}
    /\ q.added \subseteq specs /\ q.added \cap membersTracked = {}
    /\ q.want \in specs \cup {"none"} /\ q.want \notin q.added
    /\ q.at \in {"starts", "spawning"} => q.removed = {}
    /\ q.at = "forgets" => q.now \notin specs /\ q.now \notin membersTracked
    /\ q.at = "spawning" => /\ q.now \in specs /\ q.now \notin membersTracked
                            /\ q.now \notin q.added /\ q.now # q.want

Leaving(a) == \E r \in Requests :
    a \in request[r].removed \/ (request[r].at = "forgets" /\ request[r].now = a)
Coming(a) == \E r \in Requests :
    \/ a \in request[r].added \/ request[r].want = a
    \/ request[r].at = "spawning" /\ request[r].now = a

ShardOk(a) ==
    /\ memberProcs[a] = IF a \in membersTracked THEN 1 ELSE 0
    /\ a \in membersTracked => a \notin failed /\ (a \in specs \/ \E r \in Requests : a \in request[r].removed)
    /\ a \in specs \ failed => a \in membersTracked \/ Coming(a)
    /\ a \notin specs /\ (queued[a] > 0 \/ membersTurn[a] = "waits") => a \in lateRows \/ Leaving(a)

MembersInv ==
    /\ MembersTypes
    /\ ~membersRaced => Sole /\ (\A r \in Requests : RequestOk(request[r])) /\ \A a \in AgentIds : ShardOk(a)

\* A step of the one request there is, which leaves it as q.
OneMoves(r, q) == Sole' /\ request'[r] = q /\ (\A p \in Requests \ {r} : RequestOk(request[p])')
Moves(r, q, a) ==
    /\ Leaving(a) <=> a \in request[r].removed \/ (request[r].at = "forgets" /\ request[r].now = a)
    /\ Leaving(a)' <=> a \in q.removed \/ (q.at = "forgets" /\ q.now = a)
    /\ Coming(a) <=> \/ a \in request[r].added \/ request[r].want = a
                     \/ request[r].at = "spawning" /\ request[r].now = a
    /\ Coming(a)' <=> a \in q.added \/ q.want = a \/ (q.at = "spawning" /\ q.now = a)
    /\ (\E p \in Requests : a \in request[p].removed) => a \in request[r].removed
    /\ a \in q.removed => \E p \in Requests : a \in request'[p].removed

LEMMA FreeIs == ASSUME MembersAssumption PROVE
  /\ Free \in RequestType /\ Free.at = "free" /\ Free.removed = {} /\ Free.added = {}
  /\ Free.now = "none" /\ Free.want = "none"
BY DEF Free, RequestType

LEMMA MembersStart == ASSUME MembersAssumption PROVE MembersInit => MembersInv
<1> SUFFICES ASSUME MembersInit PROVE MembersInv  OBVIOUS
<1> USE DEF MembersInit
<1>1. MembersTypes  BY FreeIs DEF MembersTypes, MembersAssumption, NoWriter
<1>2. Sole /\ \A r \in Requests : RequestOk(request[r])
  <2>1. RequestOk(Free)  BY FreeIs DEF RequestOk
  <2>2. \A r \in Requests : request[r] = Free  OBVIOUS
  <2> QED  BY <2>1, <2>2 DEF Sole
<1>3. ASSUME NEW a \in AgentIds PROVE ShardOk(a)
  <2>1. /\ memberProcs[a] = IF a \in membersTracked THEN 1 ELSE 0
        /\ queued[a] = 0 /\ membersTurn[a] = "none"
        /\ membersTracked = specs /\ failed = {}
      OBVIOUS
  <2> QED  BY <2>1 DEF ShardOk
<1> QED  BY <1>1, <1>2, <1>3 DEF MembersInv

LEMMA MembersTyped ==
  ASSUME MembersAssumption, MembersTypes, [MembersNext]_MembersVars PROVE MembersTypes'
<1> USE DEF MembersTypes, files, shards, memberRows
<1> USE FreeIs
<1>1. ASSUME NEW F \in SUBSET AgentIds, OperatorEdits(F) PROVE MembersTypes'
    BY <1>1 DEF OperatorEdits
<1>2. ASSUME NEW a \in AgentIds, WriterReads(a) PROVE MembersTypes'
    BY <1>2 DEF WriterReads, MembersAssumption
<1>3. CASE WriterReplaces
    BY <1>3 DEF WriterReplaces, NoWriter, MembersAssumption
<1>4. ASSUME NEW r \in Requests, NEW q \in RequestType, NEW new \in SUBSET AgentIds, specs' = new,
             Proceeds(r, q), UNCHANGED <<files, memberProcs, memberRows>>
      PROVE MembersTypes'
  <2>1. [q EXCEPT !.at = IF q.removed = {} THEN "starts" ELSE "removes"] \in RequestType
      BY DEF RequestType
  <2> QED  BY <1>4, <2>1 DEF Proceeds
<1>5. ASSUME NEW r \in Requests, NEW a \in AgentIds, Register(r, a) PROVE MembersTypes'
  <2> DEFINE new == IF file = {} THEN specs ELSE file
             added == new \ OldSpecs(new)
             q == [Free EXCEPT !.removed = OldSpecs(new) \ new, !.added = added,
                               !.want = IF a \in added THEN "none" ELSE a]
  <2>1. new \in SUBSET AgentIds /\ q \in RequestType  BY DEF OldSpecs, RequestType, Free
  <2>2. UNCHANGED <<files, memberProcs, memberRows>>  BY <1>5 DEF Register
  <2>3. \/ specs' = specs /\ request' = request
        \/ specs' = new /\ (request' = request \/ Proceeds(r, q))
      BY <1>5 DEF Register
  <2> HIDE DEF new, q
  <2> QED  BY <1>4, <2>1, <2>2, <2>3
<1>6. ASSUME NEW r \in Requests, NEW a \in AgentIds, Reload(r, a) PROVE MembersTypes'
  <2> DEFINE q == [Free EXCEPT !.removed = specs \ file, !.added = file \ specs]
  <2>1. q \in RequestType  BY DEF RequestType, Free
  <2>2. UNCHANGED <<files, memberProcs, memberRows>>  BY <1>6 DEF Reload
  <2>3. (specs' = specs /\ request' = request) \/ (specs' = file /\ Proceeds(r, q))
      BY <1>6 DEF Reload
  <2> HIDE DEF q
  <2> QED  BY <1>4, <2>1, <2>2, <2>3
<1>7. ASSUME NEW r \in Requests, NEW a \in AgentIds, RemoveKills(r, a) PROVE MembersTypes'
  <2>1. [request[r] EXCEPT !.at = "forgets", !.now = a, !.removed = @ \ {a}] \in RequestType
      BY DEF RequestType
  <2>2. request' = [request EXCEPT ![r] = [request[r] EXCEPT !.at = "forgets", !.now = a, !.removed = @ \ {a}]]
      BY <1>7, Zenon DEF RemoveKills
  <2>3. request' \in [Requests -> RequestType]  BY <2>1, <2>2
  <2> QED  BY <1>7, <2>3 DEF RemoveKills
<1>8. ASSUME NEW r \in Requests, RemoveForgets(r) PROVE MembersTypes'
  <2>1. [request[r] EXCEPT !.at = IF request[r].removed = {} THEN "starts" ELSE "removes"] \in RequestType
      BY DEF RequestType
  <2>2. request' \in [Requests -> RequestType]  BY <1>8, <2>1 DEF RemoveForgets, Proceeds
  <2>3. /\ UNCHANGED <<file, writer, specs, memberProcs>>
        /\ queued' \in [AgentIds -> Nat]
        /\ orphans' \in [AgentIds -> Nat]
        /\ membersTurn' \in [AgentIds -> {"none", "waits", "reads", "died"}]
    <3> DEFINE a == request[r].now
    <3>1. /\ UNCHANGED <<file, writer, specs, memberProcs>>
          /\ queued' = [queued EXCEPT ![a] = 0]
          /\ orphans' = orphans \/ orphans' = [orphans EXCEPT ![a] = @ + 1]
          /\ membersTurn' = [membersTurn EXCEPT ![a] = "none"]
        BY <1>8 DEF RemoveForgets, RowsSkipped
    <3> HIDE DEF a
    <3>2. [orphans EXCEPT ![a] = @ + 1] \in [AgentIds -> Nat]
      <4>1. CASE a \in AgentIds  BY <4>1
      <4>2. CASE a \notin AgentIds  BY <4>2
      <4> QED  BY <4>1, <4>2
    <3> QED  BY <3>1, <3>2
  <2> QED  BY <2>2, <2>3
<1>9. ASSUME NEW r \in Requests, NEW a \in AgentIds, StartBegins(r, a) PROVE MembersTypes'
  <2> DEFINE q == [request[r] EXCEPT !.at = "spawning", !.now = a, !.added = @ \ {a},
                                     !.want = IF a = @ THEN "none" ELSE @]
  <2>1. q \in RequestType  BY DEF RequestType
  <2>2. request' = [request EXCEPT ![r] = q]  BY <1>9 DEF StartBegins
  <2>3. UNCHANGED <<file, writer, specs, memberProcs, queued, membersTurn, orphans>>
      BY <1>9 DEF StartBegins
  <2> HIDE DEF q
  <2> QED  BY <2>1, <2>2, <2>3
<1>10. ASSUME NEW r \in Requests, StartEnds(r) \/ StartRaises(r) \/ Answered(r) PROVE MembersTypes'
  <2>1. [request[r] EXCEPT !.at = "starts", !.now = "none"] \in RequestType  BY DEF RequestType
  <2>2. request' \in [Requests -> RequestType]
      BY <1>10, <2>1 DEF StartEnds, StartRaises, Answered
  <2> QED  BY <1>10, <2>2 DEF StartEnds, StartRaises, Answered
<1>11. ASSUME NEW a \in AgentIds,
              \/ RowArrives(a) \/ TurnClaims(a) \/ TurnWrites(a)
              \/ TurnGivesUp(a) \/ TurnEnds(a) \/ OrphanEnds(a)
       PROVE MembersTypes'
    BY <1>11 DEF RowArrives, TurnClaims, TurnWrites, TurnGivesUp, TurnEnds, OrphanEnds
<1>12. CASE UNCHANGED MembersVars  BY <1>12 DEF MembersVars
<1> QED  BY <1>1, <1>2, <1>3, <1>5, <1>6, <1>7, <1>8, <1>9, <1>10, <1>11, <1>12 DEF MembersNext

LEMMA MembersSteps ==
  ASSUME MembersAssumption, MembersInv, [MembersNext]_MembersVars PROVE MembersInv'
<1> SUFFICES ASSUME ~membersRaced' PROVE Sole' /\ (\A r \in Requests : RequestOk(request[r])') /\ \A a \in AgentIds : ShardOk(a)'
    BY MembersTyped DEF MembersInv
<1>t. MembersTypes /\ MembersTypes'  BY MembersTyped DEF MembersInv
<1>r. membersRaced => membersRaced'
    BY DEF MembersNext, MembersVars, OperatorEdits, WriterReads, WriterReplaces, Register, Reload,
           RemoveKills, RemoveForgets, StartBegins, StartEnds, StartRaises, Answered, RowArrives,
           TurnClaims, TurnWrites, TurnGivesUp, TurnEnds, OrphanEnds, memberRows, shards, files
<1>i. Sole /\ (\A r \in Requests : RequestOk(request[r])) /\ \A a \in AgentIds : ShardOk(a)
    BY <1>r DEF MembersInv
<1> DEFINE Goal == Sole' /\ (\A r \in Requests : RequestOk(request[r])') /\ \A a \in AgentIds : ShardOk(a)'
<1>1. ASSUME UNCHANGED <<specs, membersTracked, memberProcs, request, queued, membersTurn, failed, lateRows>>
      PROVE Goal
  <2>1. \A a \in AgentIds : Leaving(a)' = Leaving(a) /\ Coming(a)' = Coming(a)  BY <1>1 DEF Leaving, Coming
  <2>2. Sole'  BY <1>1, <1>i DEF Sole
  <2>3. \A r \in Requests : RequestOk(request[r])'  BY <1>1, <1>i DEF RequestOk
  <2>4. \A a \in AgentIds : ShardOk(a)'  BY <1>1, <1>i, <2>1 DEF ShardOk
  <2> QED  BY <2>2, <2>3, <2>4
<1>2. ASSUME \/ \E F \in SUBSET AgentIds : OperatorEdits(F)
             \/ \E a \in AgentIds : WriterReads(a)
             \/ WriterReplaces \/ UNCHANGED MembersVars
      PROVE Goal
    BY <1>1, <1>2 DEF OperatorEdits, WriterReads, WriterReplaces, MembersVars, shards, memberRows
<1>3. ASSUME NEW a \in AgentIds,
             \/ RowArrives(a) \/ TurnClaims(a) \/ TurnWrites(a)
             \/ TurnGivesUp(a) \/ TurnEnds(a) \/ OrphanEnds(a)
      PROVE Goal
  <2> USE DEF RowArrives, TurnClaims, TurnWrites, TurnGivesUp, TurnEnds, OrphanEnds, files, shards
  <2>1. UNCHANGED <<specs, membersTracked, memberProcs, request, failed>>  BY <1>3
  <2>2. \A b \in AgentIds : Leaving(b)' = Leaving(b) /\ Coming(b)' = Coming(b)  BY <2>1 DEF Leaving, Coming
  <2>3. Sole'  BY <2>1, <1>i DEF Sole
  <2>4. \A r \in Requests : RequestOk(request[r])'  BY <2>1, <1>i DEF RequestOk
  <2>5. ASSUME NEW b \in AgentIds PROVE ShardOk(b)'
    <3>1. lateRows \subseteq lateRows'  BY <1>3
    <3>2. ShardOk(b)  BY <1>i
    <3>3. b \notin specs /\ (queued'[b] > 0 \/ membersTurn'[b] = "waits") =>
            (queued[b] > 0 \/ membersTurn[b] = "waits") \/ b \in lateRows'
        BY <1>3, <1>t DEF MembersTypes
    <3> QED  BY <2>1, <2>2, <3>1, <3>2, <3>3 DEF ShardOk
  <2> QED  BY <2>3, <2>4, <2>5
\* A request arrives, alone.
<1>4. ASSUME NEW r \in Requests, NEW q \in RequestType, NEW new \in SUBSET AgentIds,
             ~Answering, specs' = new, Proceeds(r, q), UNCHANGED <<membersTracked, memberProcs, memberRows, failed>>,
             q.removed = specs \ new, q.added = new \ specs, q.want \in {"none"} \cup (new \cap specs),
             q.at = "free"
      PROVE Goal
  <2>1. \A p \in Requests : request[p] = Free  BY <1>4 DEF Answering
  <2> DEFINE stage == IF q.removed = {} THEN "starts" ELSE "removes"
  <2>2. /\ request'[r] = [q EXCEPT !.at = stage]
        /\ \A p \in Requests : p # r => request'[p] = Free
      BY <1>4, <1>t, <2>1 DEF Proceeds, MembersTypes
  <2>3. /\ request'[r].at = stage /\ request'[r].removed = specs \ new /\ request'[r].added = new \ specs
        /\ request'[r].want = q.want
      BY <1>4, <2>2 DEF RequestType
  <2>4. Sole'  BY <2>2 DEF Sole
  <2>0. ASSUME NEW a \in AgentIds PROVE (a \in membersTracked => a \in specs) /\ ~Leaving(a) /\ ~Coming(a)
    <3>1. \A p \in Requests : request[p].removed = {} /\ request[p].added = {} /\ request[p].at = "free" /\ request[p].want = "none"
        BY <2>1, FreeIs
    <3>2. ~Leaving(a) /\ ~Coming(a)  BY <3>1 DEF Leaving, Coming, MembersAssumption
    <3> QED  BY <1>i, <3>1, <3>2 DEF ShardOk
  <2>5. ASSUME NEW p \in Requests PROVE RequestOk(request[p])'
    <3>1. CASE p # r
      <4>1. request'[p] = Free  BY <2>2, <3>1
      <4> QED  BY <4>1, FreeIs DEF RequestOk
    <3>2. CASE p = r
      <4>1. stage \in {"starts", "removes"} /\ (stage = "starts" => q.removed = {})  OBVIOUS
      <4>2. membersTracked \cap (new \ specs) = {}  BY <2>0
      <4> HIDE DEF stage
      <4> QED  BY <1>4, <2>3, <3>2, <4>1, <4>2 DEF RequestOk, MembersAssumption
    <3> QED  BY <3>1, <3>2
  <2>6. ASSUME NEW a \in AgentIds PROVE ShardOk(a)'
    <3>1. ShardOk(a)  BY <1>i
    <3>2. a \in specs \ new => Leaving(a)' /\ \E p \in Requests : a \in request'[p].removed  BY <2>3 DEF Leaving
    <3>3. a \in new \ specs => Coming(a)'  BY <2>3 DEF Coming
    <3>4. UNCHANGED <<queued, membersTurn, lateRows>>  BY <1>4 DEF memberRows
    <3> QED  BY <1>4, <2>0, <3>1, <3>2, <3>3, <3>4 DEF ShardOk
  <2> QED  BY <2>4, <2>5, <2>6
<1>5. ASSUME NEW r \in Requests, NEW a \in AgentIds, Register(r, a) PROVE Goal
  <2> DEFINE new == IF file = {} THEN specs ELSE file
             added == new \ OldSpecs(new)
             q == [Free EXCEPT !.removed = OldSpecs(new) \ new, !.added = added,
                               !.want = IF a \in added THEN "none" ELSE a]
  <2>1. CASE specs' = specs /\ request' = request
      BY <1>1, <1>5, <2>1 DEF Register, memberRows
  <2>2. CASE ~(specs' = specs /\ request' = request)
    <3>1. a \notin membersTracked /\ specs' = new /\ ~Answering /\ a \in new /\ Proceeds(r, q)
        BY <1>5, <2>2 DEF Register
    <3>2. /\ q.removed = specs \ new /\ q.added = new \ specs /\ q.at = "free"
          /\ q.want = IF a \in added THEN "none" ELSE a
          /\ q \in RequestType /\ new \in SUBSET AgentIds
        BY <1>t, FreeIs DEF OldSpecs, RequestType, MembersTypes
    <3>3. q.want \in {"none"} \cup (new \cap specs)  BY <3>1, <3>2 DEF OldSpecs
    <3>4. UNCHANGED <<membersTracked, memberProcs, memberRows, failed>>  BY <1>5 DEF Register
    <3> HIDE DEF new, added, q
    <3> QED  BY <1>4, <3>1, <3>2, <3>3, <3>4
  <2> QED  BY <2>1, <2>2
<1>6. ASSUME NEW r \in Requests, NEW a \in AgentIds, Reload(r, a) PROVE Goal
  <2> DEFINE q == [Free EXCEPT !.removed = specs \ file, !.added = file \ specs]
  <2>1. CASE file = {}
      BY <1>1, <1>6, <2>1 DEF Reload, memberRows
  <2>2. CASE file # {}
    <3>1. specs' = file /\ ~Answering /\ Proceeds(r, q)  BY <1>6, <2>2 DEF Reload
    <3>2. /\ q.removed = specs \ file /\ q.added = file \ specs /\ q.at = "free" /\ q.want = "none"
          /\ q \in RequestType /\ file \in SUBSET AgentIds
        BY <1>t, FreeIs DEF RequestType, MembersTypes
    <3>4. UNCHANGED <<membersTracked, memberProcs, memberRows, failed>>  BY <1>6 DEF Reload
    <3> HIDE DEF q
    <3> QED  BY <1>4, <3>1, <3>2, <3>4
  <2> QED  BY <2>1, <2>2
\* The one request that runs takes a step of its own.
<1>s. ASSUME NEW r \in Requests, request[r].at # "free", NEW q \in RequestType, request' = [request EXCEPT ![r] = q]
      PROVE OneMoves(r, q) /\ \A a \in AgentIds : Moves(r, q, a)
  <2>1. \A p \in Requests : p # r => request[p] = Free  BY <1>s, <1>i, FreeIs DEF Sole
  <2>2. request'[r] = q /\ \A p \in Requests : p # r => request'[p] = Free
      BY <1>s, <1>t, <2>1 DEF MembersTypes
  <2>3. Sole'  BY <2>2 DEF Sole
  <2>4. ASSUME NEW p \in Requests \ {r} PROVE RequestOk(request[p])'
    <3>1. request'[p] = Free  BY <2>2
    <3> QED  BY <3>1, FreeIs DEF RequestOk
  <2>5. ASSUME NEW p \in Requests, p # r
        PROVE /\ request[p].removed = {} /\ request[p].added = {} /\ request[p].at = "free" /\ request[p].want = "none"
              /\ request'[p].removed = {} /\ request'[p].added = {} /\ request'[p].at = "free" /\ request'[p].want = "none"
      BY <2>1, <2>2, <2>5, FreeIs
  <2>6. ASSUME NEW a \in AgentIds PROVE a # "none"  BY DEF MembersAssumption
  <2>7. ASSUME NEW a \in AgentIds
        PROVE /\ Leaving(a) <=> a \in request[r].removed \/ (request[r].at = "forgets" /\ request[r].now = a)
              /\ Leaving(a)' <=> a \in q.removed \/ (q.at = "forgets" /\ q.now = a)
    <3>1. Leaving(a) => a \in request[r].removed \/ (request[r].at = "forgets" /\ request[r].now = a)
        BY <2>5 DEF Leaving
    <3>2. Leaving(a)' => a \in q.removed \/ (q.at = "forgets" /\ q.now = a)  BY <2>2, <2>5 DEF Leaving
    <3> QED  BY <2>2, <3>1, <3>2 DEF Leaving
  <2>8. ASSUME NEW a \in AgentIds
        PROVE /\ Coming(a) <=> \/ a \in request[r].added \/ request[r].want = a
                               \/ request[r].at = "spawning" /\ request[r].now = a
              /\ Coming(a)' <=> a \in q.added \/ q.want = a \/ (q.at = "spawning" /\ q.now = a)
    <3>1. Coming(a) => \/ a \in request[r].added \/ request[r].want = a
                       \/ request[r].at = "spawning" /\ request[r].now = a
        BY <2>5, <2>6 DEF Coming
    <3>2. Coming(a)' => a \in q.added \/ q.want = a \/ (q.at = "spawning" /\ q.now = a)
        BY <2>2, <2>5, <2>6 DEF Coming
    <3> QED  BY <2>2, <3>1, <3>2 DEF Coming
  <2>9. ASSUME NEW a \in AgentIds
        PROVE /\ (\E p \in Requests : a \in request[p].removed) => a \in request[r].removed
              /\ a \in q.removed => \E p \in Requests : a \in request'[p].removed
      BY <2>2, <2>5
  <2>10. OneMoves(r, q)  BY <2>2, <2>3, <2>4 DEF OneMoves
  <2>11. \A a \in AgentIds : Moves(r, q, a)  BY <2>7, <2>8, <2>9 DEF Moves
  <2> QED  BY <2>10, <2>11
<1>7. ASSUME NEW r \in Requests, NEW a \in AgentIds, RemoveKills(r, a) PROVE Goal
  <2> DEFINE q == [request[r] EXCEPT !.at = "forgets", !.now = a, !.removed = @ \ {a}]
  <2>0. request[r] \in RequestType /\ RequestOk(request[r])  BY <1>t, <1>i DEF MembersTypes
  <2>1. /\ q \in RequestType /\ q.at = "forgets" /\ q.now = a /\ q.removed = request[r].removed \ {a}
        /\ q.added = request[r].added /\ q.want = request[r].want
      BY <2>0 DEF RequestType
  <2>2. /\ request' = [request EXCEPT ![r] = q] /\ request[r].at = "removes" /\ a \in request[r].removed
      BY <1>7, Zenon DEF RemoveKills
  <2>3. /\ UNCHANGED <<specs, queued, failed, lateRows>>
        /\ membersTracked' = membersTracked \ {a}
        /\ memberProcs' = IF a \in membersTracked THEN [memberProcs EXCEPT ![a] = @ - 1] ELSE memberProcs
        /\ \A b \in AgentIds : membersTurn'[b] = "waits" => membersTurn[b] = "waits"
      BY <1>7, <1>t DEF RemoveKills, MembersTypes
  <2> HIDE DEF q
  <2>s. OneMoves(r, q) /\ \A b \in AgentIds : Moves(r, q, b)  BY <1>s, <2>1, <2>2
  <2>4. RequestOk(request[r])'
      BY <2>s, <2>0, <2>1, <2>2, <2>3 DEF RequestOk, OneMoves
  <2>5. ASSUME NEW b \in AgentIds PROVE ShardOk(b)'
    <3>1. ShardOk(b)  BY <1>i
    <3>2. a \notin specs  BY <2>0, <2>2 DEF RequestOk
    <3>3. memberProcs'[b] = IF b \in membersTracked' THEN 1 ELSE 0
        BY <1>t, <2>3, <3>1 DEF MembersTypes, ShardOk
    <3>4. /\ Leaving(b) => Leaving(b)'
          /\ Coming(b) => Coming(b)'
          /\ b # a /\ (\E p \in Requests : b \in request[p].removed) => \E p \in Requests : b \in request'[p].removed
        BY <2>s, <2>1, <2>2 DEF Moves
    <3>5. b \in membersTracked' => b \notin failed' /\ (b \in specs' \/ \E p \in Requests : b \in request'[p].removed)
        BY <2>3, <3>1, <3>4 DEF ShardOk
    <3>6. b \in specs' \ failed' => b \in membersTracked' \/ Coming(b)'
        BY <2>3, <3>1, <3>2, <3>4 DEF ShardOk
    <3>7. b \notin specs' /\ (queued'[b] > 0 \/ membersTurn'[b] = "waits") => b \in lateRows' \/ Leaving(b)'
        BY <2>3, <3>1, <3>4 DEF ShardOk
    <3> QED  BY <3>3, <3>5, <3>6, <3>7 DEF ShardOk
  <2>g. Sole' /\ \A p \in Requests : RequestOk(request[p])'  BY <2>s, <2>4 DEF OneMoves
  <2> QED  BY <2>g, <2>5
<1>8. ASSUME NEW r \in Requests, RemoveForgets(r) PROVE Goal
  <2> DEFINE a == request[r].now
             q == [request[r] EXCEPT !.at = IF request[r].removed = {} THEN "starts" ELSE "removes"]
  <2>0. request[r] \in RequestType /\ RequestOk(request[r])  BY <1>t, <1>i DEF MembersTypes
  <2>1. /\ q \in RequestType /\ q.at \in {"starts", "removes"} /\ q.now = a
        /\ q.at = "starts" => request[r].removed = {}
        /\ q.removed = request[r].removed /\ q.added = request[r].added /\ q.want = request[r].want
      BY <2>0 DEF RequestType
  <2>2. request' = [request EXCEPT ![r] = q] /\ request[r].at = "forgets"
      BY <1>8, Zenon DEF RemoveForgets, Proceeds
  <2>3. /\ UNCHANGED <<specs, membersTracked, memberProcs, lateRows>>
        /\ queued' = [queued EXCEPT ![a] = 0] /\ membersTurn' = [membersTurn EXCEPT ![a] = "none"]
        /\ failed' = failed \ {a}
      BY <1>8 DEF RemoveForgets, RowsSkipped
  <2>4. a \notin specs /\ a \notin membersTracked  BY <2>0, <2>2 DEF RequestOk
  <2> HIDE DEF q, a
  <2>s. OneMoves(r, q) /\ \A b \in AgentIds : Moves(r, q, b)  BY <1>s, <2>1, <2>2
  <2>5. RequestOk(request[r])'
      BY <2>s, <2>0, <2>1, <2>2, <2>3 DEF RequestOk, OneMoves
  <2>6. ASSUME NEW b \in AgentIds PROVE ShardOk(b)'
    <3>1. ShardOk(b)  BY <1>i
    <3>4. /\ b # a => (Leaving(b) => Leaving(b)')
          /\ Coming(b) => Coming(b)'
          /\ (\E p \in Requests : b \in request[p].removed) => \E p \in Requests : b \in request'[p].removed
        BY <2>s, <2>1, <2>2 DEF a, Moves
    <3>5. b = a => queued'[b] = 0 /\ membersTurn'[b] = "none"  BY <1>t, <2>3 DEF MembersTypes
    <3>6. b # a => queued'[b] = queued[b] /\ membersTurn'[b] = membersTurn[b]  BY <1>t, <2>3 DEF MembersTypes
    <3> QED  BY <2>3, <2>4, <3>1, <3>4, <3>5, <3>6 DEF ShardOk
  <2>g. Sole' /\ \A p \in Requests : RequestOk(request[p])'  BY <2>s, <2>5 DEF OneMoves
  <2> QED  BY <2>g, <2>6
<1>9. ASSUME NEW r \in Requests, NEW a \in AgentIds, StartBegins(r, a) PROVE Goal
  <2> DEFINE q == [request[r] EXCEPT !.at = "spawning", !.now = a, !.added = @ \ {a},
                                     !.want = IF a = @ THEN "none" ELSE @]
  <2>0. request[r] \in RequestType /\ RequestOk(request[r])  BY <1>t, <1>i DEF MembersTypes
  <2>1. /\ q \in RequestType /\ q.at = "spawning" /\ q.now = a /\ q.removed = request[r].removed
        /\ q.added = request[r].added \ {a}
        /\ q.want = IF a = request[r].want THEN "none" ELSE request[r].want
      BY <2>0 DEF RequestType
  <2>2. request' = [request EXCEPT ![r] = q] /\ request[r].at = "starts"
      BY <1>9, Zenon DEF StartBegins
  <2>3. UNCHANGED <<specs, membersTracked, memberProcs, queued, membersTurn, lateRows, failed>>
      BY <1>9 DEF StartBegins, memberRows
  <2>4. a \in specs /\ a \notin membersTracked
    <3>1. a \in NextStart(request[r])  BY <1>9 DEF StartBegins
    <3> QED  BY <2>0, <3>1 DEF RequestOk, NextStart, MembersAssumption
  <2> HIDE DEF q
  <2>s. OneMoves(r, q) /\ \A b \in AgentIds : Moves(r, q, b)  BY <1>s, <2>1, <2>2
  <2>5. RequestOk(request[r])'
    <3>1. request'[r] = q  BY <2>s DEF OneMoves
    <3>6. request[r].want \in specs \cup {"none"} /\ request[r].want \notin request[r].added
        BY <2>0 DEF RequestOk
    <3>7. "none" # a /\ "none" \notin request[r].added
        BY <2>0 DEF MembersAssumption, RequestType
    <3>2. q.want # a /\ q.want \in specs \cup {"none"} /\ q.want \notin q.added
        BY <2>1, <3>6, <3>7
    <3>3. q.added \subseteq specs /\ q.added \cap membersTracked = {}  BY <2>0, <2>1 DEF RequestOk
    <3>4. a \notin q.added  BY <2>1
    <3>5. q.removed = {}  BY <2>0, <2>1, <2>2 DEF RequestOk
    <3> QED  BY <2>1, <2>3, <2>4, <3>1, <3>2, <3>3, <3>4, <3>5 DEF RequestOk
  <2>6. ASSUME NEW b \in AgentIds PROVE ShardOk(b)'
    <3>1. ShardOk(b)  BY <1>i
    <3>4. /\ Leaving(b) => Leaving(b)'
          /\ Coming(b) => Coming(b)'
          /\ (\E p \in Requests : b \in request[p].removed) => \E p \in Requests : b \in request'[p].removed
        BY <2>s, <2>1, <2>2 DEF Moves
    <3> QED  BY <2>3, <3>1, <3>4 DEF ShardOk
  <2>g. Sole' /\ \A p \in Requests : RequestOk(request[p])'  BY <2>s, <2>5 DEF OneMoves
  <2> QED  BY <2>g, <2>6
<1>10. ASSUME NEW r \in Requests, StartEnds(r) \/ StartRaises(r) PROVE Goal
  <2> DEFINE a == request[r].now
             q == [request[r] EXCEPT !.at = "starts", !.now = "none"]
  <2>0. request[r] \in RequestType /\ RequestOk(request[r])  BY <1>t, <1>i DEF MembersTypes
  <2>1. /\ q \in RequestType /\ q.at = "starts" /\ q.removed = request[r].removed
        /\ q.added = request[r].added /\ q.want = request[r].want
      BY <2>0 DEF RequestType
  <2>2. request' = [request EXCEPT ![r] = q] /\ request[r].at = "spawning"
      BY <1>10, Zenon DEF StartEnds, StartRaises
  <2>3. a \in specs /\ a \notin membersTracked /\ a \notin request[r].added /\ a \in AgentIds
      BY <1>t, <2>0, <2>2 DEF RequestOk, MembersTypes
  <2>4. /\ UNCHANGED <<specs, queued, membersTurn, lateRows>>
        /\ \/ /\ membersTracked' = membersTracked \cup {a} /\ failed' = failed \ {a}
              /\ memberProcs' = [memberProcs EXCEPT ![a] = @ + 1]
           \/ UNCHANGED <<membersTracked, memberProcs>> /\ failed' = failed \cup {a}
      BY <1>10, <2>3 DEF StartEnds, StartRaises, memberRows, shards
  <2> HIDE DEF q, a
  <2>s. OneMoves(r, q) /\ \A b \in AgentIds : Moves(r, q, b)  BY <1>s, <2>1, <2>2
  <2>5. RequestOk(request[r])'
    <3>1. membersTracked' \cap request[r].added = {}  BY <2>0, <2>3, <2>4 DEF RequestOk
    <3> QED  BY <2>s, <2>0, <2>1, <2>2, <2>4, <3>1 DEF RequestOk, OneMoves
  <2>6. ASSUME NEW b \in AgentIds PROVE ShardOk(b)'
    <3>1. ShardOk(b)  BY <1>i
    <3>4. /\ Leaving(b) => Leaving(b)'
          /\ b # a => (Coming(b) => Coming(b)')
          /\ (\E p \in Requests : b \in request[p].removed) => \E p \in Requests : b \in request'[p].removed
        BY <2>s, <2>1, <2>2 DEF a, Moves
    <3>5. memberProcs'[b] = IF b \in membersTracked' THEN 1 ELSE 0
        BY <1>t, <2>3, <2>4, <3>1 DEF MembersTypes, ShardOk
    <3> QED  BY <2>3, <2>4, <3>1, <3>4, <3>5 DEF ShardOk
  <2>g. Sole' /\ \A p \in Requests : RequestOk(request[p])'  BY <2>s, <2>5 DEF OneMoves
  <2> QED  BY <2>g, <2>6
<1>11. ASSUME NEW r \in Requests, Answered(r) PROVE Goal
  <2>0. request[r] \in RequestType /\ RequestOk(request[r])  BY <1>t, <1>i DEF MembersTypes
  <2>1. request' = [request EXCEPT ![r] = Free] /\ request[r].at = "starts" /\ request[r].removed = {}
      BY <1>11, <2>0 DEF Answered, RequestOk
  <2>s. OneMoves(r, Free) /\ \A b \in AgentIds : Moves(r, Free, b)  BY <1>s, <2>1, FreeIs
  <2>2. UNCHANGED <<specs, membersTracked, memberProcs, queued, membersTurn, lateRows, failed>>
      BY <1>11 DEF Answered, memberRows, shards
  <2>3. request[r].added = {} /\ (request[r].want = "none" \/ request[r].want \in membersTracked)
      BY <1>11 DEF Answered, NextStart
  <2>5. RequestOk(request[r])'
    <3>1. request'[r] = Free  BY <1>t, <2>1 DEF MembersTypes
    <3> QED  BY <3>1, FreeIs DEF RequestOk
  <2>6. ASSUME NEW b \in AgentIds PROVE ShardOk(b)'
    <3>1. ShardOk(b)  BY <1>i
    <3>2. ~Leaving(b) /\ (Coming(b) => b \in membersTracked) /\ ~ \E p \in Requests : b \in request[p].removed
        BY <2>s, <2>1, <2>3, FreeIs DEF MembersAssumption, Moves
    <3> QED  BY <2>2, <3>1, <3>2 DEF ShardOk
  <2>g. Sole' /\ \A p \in Requests : RequestOk(request[p])'  BY <2>s, <2>5 DEF OneMoves
  <2> QED  BY <2>g, <2>6
<1> QED  BY <1>2, <1>3, <1>5, <1>6, <1>7, <1>8, <1>9, <1>10, <1>11 DEF MembersNext

LEMMA MembersSafe == ASSUME MembersAssumption PROVE MembersInv => ProcessPerShard /\ NoRowForNobody
<1> SUFFICES ASSUME MembersInv, ~Answering, ~membersRaced, NEW a \in AgentIds
             PROVE /\ memberProcs[a] = IF a \in specs \ failed THEN 1 ELSE 0
                   /\ a \notin specs /\ queued[a] > 0 => a \in lateRows
    BY DEF ProcessPerShard, NoRowForNobody
<1>1. \A r \in Requests : request[r].removed = {} /\ request[r].added = {} /\ request[r].at = "free" /\ request[r].want = "none"
    BY FreeIs DEF Answering
<1>2. ~Leaving(a) /\ ~Coming(a)  BY <1>1 DEF Leaving, Coming, MembersAssumption
<1> QED  BY <1>1, <1>2 DEF MembersInv, ShardOk

-----------------------------------------------------------------------------
(* Reaper *)

ProcessType == [start : Nat, parent : Nat, ours : BOOLEAN, stubborn : BOOLEAN]
Workers == {"kill", "orphans"}
WorkType == [at : {"idle", "root", "found", "terms", "kills"},
             snap : SUBSET (Pids \X Nat), termed : SUBSET (Pids \X Nat)]

ReapTypes ==
    /\ processes \in [Pids -> ProcessType]
    /\ births \in Nat
    /\ root \in Pids \cup {0}
    /\ work \in [Workers -> WorkType]
    /\ was \in SUBSET (Pids \X Nat)

\* Only what an agent started has a parent, and the root is one without.
ProcessesOk ==
    /\ \A p \in Pids : /\ processes[p].start <= births
                       /\ processes[p].parent # 0 => processes[p].ours
    /\ root # 0 => /\ processes[root].start > 0
                   /\ processes[root].ours /\ processes[root].parent = 0

\* A pair of a snapshot names a process of the past, which is an agent's if it still runs.
Known(k) == k[2] > 0 /\ k[2] <= births
SnapOk(w) == \A k \in work[w].snap \cup work[w].termed :
                Known(k) /\ (Same(k) => processes[k[1]].ours)

WorkOk ==
    /\ \A w \in Workers : SnapOk(w) /\ (work[w].at \notin {"terms", "kills"} => work[w].termed = {})
    /\ work["kill"].at = "idle" <=> work["kill"] = Idle
    /\ work["kill"].at # "found"
    /\ work["kill"].at = "root" => root # 0
    /\ work["kill"].at \in {"terms", "kills"} => root = 0
    /\ work["orphans"].at = "found" => work["orphans"].snap # {}
    /\ root # 0 => \A k \in work["orphans"].snap \cup work["orphans"].termed : Same(k) => k[1] # root

\* What is left of the tree the kill began with is still to be signalled.
Pending(q, k) ==
    \/ q.at = "root" /\ k \in q.snap
    \/ q.at = "terms" /\ k \in q.snap \cup q.termed
    \/ q.at = "kills" /\ k \in q.termed
WasOk == \A k \in was : Known(k) /\ (Same(k) => Pending(work["kill"], k))

ReapInv == ReapTypes /\ ProcessesOk /\ WorkOk /\ WasOk /\ hit = {}

\* The processes change: one is born, or one ends, or none.
Changes ==
    \/ \E p \in Pids, q \in Nat, o, s \in BOOLEAN : Born(p, q, o, s) /\ (q # 0 => o)
    \/ \E p \in Pids : processes' = Without({p}) /\ births' = births
    \/ UNCHANGED <<processes, births>>

\* What went before stays known, and no process takes the place of one that was.
PastKept ==
    /\ processes' \in [Pids -> ProcessType] /\ births' \in Nat
    /\ \A p \in Pids : /\ processes'[p].start <= births'
                       /\ processes'[p].parent # 0 => processes'[p].ours
    /\ \A k \in Pids \X Nat : Known(k) =>
          Known(k)' /\ (Same(k)' => Same(k) /\ (processes'[k[1]].ours <=> processes[k[1]].ours))

LEMMA ChangesKeep ==
  ASSUME ReapAssumption, ReapTypes, ProcessesOk, Changes
  PROVE  PastKept
<1> USE DEF ReapTypes, ProcessesOk, ProcessType
<1>1. ASSUME NEW p \in Pids, NEW q \in Nat, NEW o \in BOOLEAN, NEW s \in BOOLEAN,
             Born(p, q, o, s), q # 0 => o
      PROVE  PastKept
  <2> DEFINE new == [start |-> births + 1, parent |-> q, ours |-> o, stubborn |-> s]
  <2>1. new \in ProcessType /\ new.start = births + 1 /\ new.parent = q /\ new.ours = o  OBVIOUS
  <2>2. births' = births + 1 /\ processes' = [processes EXCEPT ![p] = new]  BY <1>1 DEF Born
  <2> HIDE DEF new
  <2>3. processes' \in [Pids -> ProcessType]  BY <2>1, <2>2
  <2>4. \A x \in Pids : processes'[x] = IF x = p THEN new ELSE processes[x]  BY <2>2
  <2>5. \A x \in Pids : processes'[x].start <= births' /\ (processes'[x].parent # 0 => processes'[x].ours)
      BY <1>1, <2>1, <2>2, <2>4
  <2>6. ASSUME NEW k \in Pids \X Nat, Known(k)
        PROVE Known(k)' /\ (Same(k)' => Same(k) /\ (processes'[k[1]].ours <=> processes[k[1]].ours))
      BY <2>1, <2>2, <2>4, <2>6 DEF Known, Same
  <2> QED  BY <2>2, <2>3, <2>5, <2>6 DEF PastKept
<1>2. ASSUME NEW p \in Pids, processes' = Without({p}), births' = births
      PROVE  PastKept
  <2>1. Gone \in ProcessType /\ Gone.start = 0 /\ Gone.parent = 0  BY DEF Gone
  <2>2. ASSUME NEW x \in Pids
        PROVE /\ [processes[x] EXCEPT !.parent = 0] \in ProcessType
              /\ [processes[x] EXCEPT !.parent = 0].parent = 0
              /\ [processes[x] EXCEPT !.parent = 0].start = processes[x].start
              /\ [processes[x] EXCEPT !.parent = 0].ours = processes[x].ours
      OBVIOUS
  <2>3. ASSUME NEW x \in Pids
        PROVE processes'[x] \in {Gone, [processes[x] EXCEPT !.parent = 0], processes[x]}
      BY <1>2 DEF Without
  <2>4. processes' \in [Pids -> ProcessType]  BY <1>2, <2>1, <2>2 DEF Without
  <2>7. ASSUME NEW x \in Pids
        PROVE /\ processes'[x].start \in {0, processes[x].start}
              /\ processes'[x].parent \in {0, processes[x].parent}
              /\ processes'[x].start # 0 \/ processes'[x].parent # 0 => (processes'[x].ours <=> processes[x].ours)
    <3>1. CASE processes'[x] = Gone  BY <2>1, <3>1
    <3>2. CASE processes'[x] # Gone  BY <2>2, <2>3, <3>2
    <3> QED  BY <3>1, <3>2
  <2>5. ASSUME NEW x \in Pids
        PROVE processes'[x].start <= births' /\ (processes'[x].parent # 0 => processes'[x].ours)
    <3>1. processes[x].start \in Nat /\ processes[x].start <= births /\ (processes[x].parent # 0 => processes[x].ours)
        OBVIOUS
    <3>2. births \in Nat /\ births' = births  BY <1>2
    <3>3. processes'[x].start <= births'  BY <2>7, <3>1, <3>2
    <3>4. processes'[x].parent # 0 => processes'[x].ours  BY <2>7, <3>1
    <3> QED  BY <3>3, <3>4
  <2>6. ASSUME NEW k \in Pids \X Nat, Known(k)
        PROVE Known(k)' /\ (Same(k)' => Same(k) /\ (processes'[k[1]].ours <=> processes[k[1]].ours))
    <3>1. k[1] \in Pids /\ k[2] > 0 /\ k[2] <= births  BY <2>6 DEF Known
    <3>2. Known(k)'  BY <1>2, <2>6 DEF Known
    <3>3. Same(k)' => Same(k)  BY <2>7, <3>1 DEF Same
    <3>4. Same(k)' => (processes'[k[1]].ours <=> processes[k[1]].ours)  BY <2>7, <3>1 DEF Same
    <3> QED  BY <3>2, <3>3, <3>4
  <2> QED  BY <1>2, <2>4, <2>5, <2>6 DEF PastKept
<1>3. CASE UNCHANGED <<processes, births>>
  <2>1. \A k \in Pids \X Nat : Known(k) => Known(k)' /\ (Same(k)' => Same(k) /\ (processes'[k[1]].ours <=> processes[k[1]].ours))
      BY <1>3 DEF Known, Same
  <2>2. processes' = processes /\ births' = births  BY <1>3
  <2>3. processes' \in [Pids -> ProcessType] /\ births' \in Nat  BY <2>2
  <2>0. \A p \in Pids : processes[p].start <= births /\ (processes[p].parent # 0 => processes[p].ours)
      OBVIOUS
  <2>4. \A p \in Pids : processes'[p].start <= births' /\ (processes'[p].parent # 0 => processes'[p].ours)
      BY <2>0, <2>2, Zenon
  <2> QED  BY <2>1, <2>3, <2>4, Zenon DEF PastKept
<1> QED  BY <1>1, <1>2, <1>3 DEF Changes

\* The tree of an agent's process is the agent's, and the root is in no other's.
LEMMA TreeIs ==
  ASSUME ReapAssumption, ReapTypes, ProcessesOk, NEW p \in Pids, p \in Alive, processes[p].ours
  PROVE  /\ Tree(p) = Walk({p}) /\ Walk({p}) \subseteq Alive
         /\ \A q \in Walk({p}) : processes[q].ours
         /\ root # 0 /\ p # root => root \notin Walk({p})
<1> USE DEF ReapTypes, ProcessesOk, ProcessType, ReapAssumption
<1> DEFINE T == {q \in Alive : processes[q].ours}
           R == Pids \ {root}
<1>1. T \in SUBSET Pids /\ {p} \subseteq T /\ Children(T) \subseteq T  BY DEF Alive, Children
<1>2. root # 0 /\ p # root => R \in SUBSET Pids /\ {p} \subseteq R /\ Children(R) \subseteq R
    BY DEF Alive, Children
<1> HIDE DEF T, R
<1>3. Walk({p}) \subseteq T  BY <1>1 DEF Walk
<1>4. root # 0 /\ p # root => Walk({p}) \subseteq R  BY <1>2 DEF Walk
<1> QED  BY <1>3, <1>4 DEF T, R, Tree

LEMMA SnapshotIs ==
  ASSUME ReapAssumption, ReapTypes, ProcessesOk, NEW p \in Pids, p \in Alive, processes[p].ours
  PROVE  /\ Snapshot(p) = Stamped(Walk({p})) /\ Snapshot(p) \in SUBSET (Pids \X Nat)
         /\ \A k \in Snapshot(p) : /\ Known(k) /\ processes[k[1]].ours
                                   /\ root # 0 /\ p # root => k[1] # root
<1>1. Walk({p}) \cap Alive = Walk({p})  BY TreeIs
<1>2. Snapshot(p) = Stamped(Walk({p}))  BY <1>1, TreeIs DEF Snapshot
<1>3. ASSUME NEW k \in Stamped(Walk({p}))
      PROVE /\ k \in Pids \X Nat /\ Known(k) /\ processes[k[1]].ours
            /\ root # 0 /\ p # root => k[1] # root
  <2>1. PICK q \in Walk({p}) : k = <<q, processes[q].start>>  BY <1>3 DEF Stamped
  <2>2. q \in Pids /\ processes[q].start > 0  BY TreeIs DEF Alive
  <2> QED  BY <2>1, <2>2, TreeIs DEF Known, ReapTypes, ProcessType, ProcessesOk
<1> QED  BY <1>2, <1>3

LEMMA IdleIs == Idle \in WorkType /\ Idle.at = "idle" /\ Idle.snap = {} /\ Idle.termed = {}
BY DEF Idle, WorkType

LEMMA ReapStart == ASSUME ReapAssumption PROVE ReapInit => ReapInv
<1> SUFFICES ASSUME ReapInit PROVE ReapInv  OBVIOUS
<1> USE DEF ReapInit, ReapAssumption
<1> DEFINE first == [Gone EXCEPT !.start = 1, !.ours = TRUE]
<1>1. /\ Gone \in ProcessType /\ Gone.start = 0 /\ Gone.parent = 0
      /\ first \in ProcessType /\ first.start = 1 /\ first.parent = 0 /\ first.ours
    BY DEF Gone, ProcessType
<1>2. processes[1] = first /\ \A p \in Pids \ {1} : processes[p] = Gone
    OBVIOUS
<1> HIDE DEF first
<1>3. processes \in [Pids -> ProcessType]  BY <1>1 DEF first
<1>4. \A w \in Workers : work[w] = Idle  BY DEF Workers
<1>5. ReapTypes  BY <1>3, <1>4, IdleIs DEF ReapTypes, Workers
<1>6. ProcessesOk
  <2>1. births = 1 /\ root = 1  OBVIOUS
  <2>2. ASSUME NEW p \in Pids PROVE processes[p].start <= 1 /\ (processes[p].parent # 0 => processes[p].ours)
    <3>1. CASE p = 1  BY <1>1, <1>2, <3>1
    <3>2. CASE p # 1  BY <1>1, <1>2, <3>2
    <3> QED  BY <3>1, <3>2
  <2>3. processes[1].start > 0 /\ processes[1].ours /\ processes[1].parent = 0  BY <1>1, <1>2
  <2> QED  BY <2>1, <2>2, <2>3 DEF ProcessesOk
<1>7. WorkOk  BY <1>4, IdleIs DEF WorkOk, SnapOk, Workers
<1>8. WasOk  BY DEF WasOk
<1> QED  BY <1>5, <1>6, <1>7, <1>8 DEF ReapInv

\* A step in which the reaping stands still.
LEMMA WorkKept ==
  ASSUME ReapAssumption, ReapInv, Changes, UNCHANGED <<work, was, hit>>, root' \in Pids \cup {0},
         root' # 0 => processes'[root'].start > 0 /\ processes'[root'].ours /\ processes'[root'].parent = 0,
         root' # root => root = 0 /\ work["kill"] = Idle /\ processes'[root'].start = births'
                           /\ births' = births + 1
  PROVE  ReapInv'
<1> USE DEF ReapInv
<1>1. /\ processes' \in [Pids -> ProcessType] /\ births' \in Nat
      /\ \A p \in Pids : /\ processes'[p].start <= births'
                         /\ processes'[p].parent # 0 => processes'[p].ours
      /\ \A k \in Pids \X Nat : Known(k) => Known(k)' /\ (Same(k)' => Same(k) /\ (processes'[k[1]].ours <=> processes[k[1]].ours))
    BY ChangesKeep DEF PastKept
<1>2. ReapTypes'  BY <1>1 DEF ReapTypes
<1>3. ProcessesOk'  BY <1>1 DEF ProcessesOk
<1>4. ASSUME NEW w \in Workers PROVE SnapOk(w)' /\ (work'[w].at \notin {"terms", "kills"} => work'[w].termed = {})
  <2>1. SnapOk(w) /\ (work[w].at \notin {"terms", "kills"} => work[w].termed = {})  BY DEF WorkOk
  <2>2. work[w].snap \cup work[w].termed \subseteq Pids \X Nat  BY DEF ReapTypes, WorkType
  <2> QED  BY <1>1, <2>1, <2>2 DEF SnapOk
<1>5. root' # 0 => \A k \in work["orphans"].snap \cup work["orphans"].termed : Same(k)' => k[1] # root'
  <2> SUFFICES ASSUME root' # 0, NEW k \in work["orphans"].snap \cup work["orphans"].termed, Same(k)'
               PROVE k[1] # root'
      OBVIOUS
  <2>1. k \in Pids \X Nat /\ Known(k)
      BY DEF ReapTypes, WorkType, Workers, WorkOk, SnapOk
  <2>2. Same(k)  BY <1>1, <2>1
  <2>3. CASE root' = root  BY <2>2, <2>3 DEF WorkOk
  <2>4. CASE root' # root  BY <2>1, <2>2, <2>4 DEF Same, Known, ReapTypes
  <2> QED  BY <2>3, <2>4
<1>6. WorkOk'  BY <1>4, <1>5, IdleIs DEF WorkOk
<1>7. WasOk'
  <2>1. \A k \in was : Known(k)' /\ (Same(k)' => Same(k))  BY <1>1 DEF ReapTypes, WasOk
  <2>2. \A k \in was : Same(k) => Pending(work["kill"], k)  BY DEF WasOk
  <2> QED  BY <2>1, <2>2 DEF WasOk
<1> QED  BY <1>2, <1>3, <1>6, <1>7

\* A step of one of the two reapings, in which a process may end.
LEMMA WorkMoves ==
  ASSUME ReapAssumption, ReapInv, Changes, hit' = {},
         NEW w \in Workers, NEW q \in WorkType, work' = [work EXCEPT ![w] = q],
         root' \in {root, 0}, w = "orphans" => root' = root,
         root' # 0 => processes'[root'].start > 0 /\ processes'[root'].ours /\ processes'[root'].parent = 0,
         was' \in SUBSET (Pids \X Nat),
         \A k \in q.snap \cup q.termed : Known(k)' /\ (Same(k)' => processes'[k[1]].ours),
         q.at \notin {"terms", "kills"} => q.termed = {},
         w = "kill" => /\ q.at = "idle" <=> q = Idle
                       /\ q.at # "found"
                       /\ q.at = "root" => root' # 0
                       /\ q.at \in {"terms", "kills"} => root' = 0,
         w = "orphans" => was' = was /\ (q.at = "found" => q.snap # {}),
         w = "orphans" /\ root # 0 => \A k \in q.snap \cup q.termed : Same(k)' => k[1] # root,
         w = "kill" => \A k \in was' : Known(k)' /\ (Same(k)' => Pending(q, k))
  PROVE  ReapInv'
<1> USE DEF ReapInv
<1>1. work'[w] = q /\ \A v \in Workers : v # w => work'[v] = work[v]  BY DEF ReapTypes
<1>c. /\ processes' \in [Pids -> ProcessType] /\ births' \in Nat
      /\ \A p \in Pids : /\ processes'[p].start <= births'
                         /\ processes'[p].parent # 0 => processes'[p].ours
      /\ \A k \in Pids \X Nat : Known(k) => Known(k)' /\ (Same(k)' => Same(k) /\ (processes'[k[1]].ours <=> processes[k[1]].ours))
    BY ChangesKeep DEF PastKept
<1>2. ReapTypes'  BY <1>c DEF ReapTypes
<1>3. ProcessesOk'  BY <1>c DEF ProcessesOk
<1>4. ASSUME NEW v \in Workers PROVE SnapOk(v)' /\ (work'[v].at \notin {"terms", "kills"} => work'[v].termed = {})
  <2>1. CASE v = w  BY <1>1, <2>1 DEF SnapOk
  <2>2. CASE v # w
    <3>1. SnapOk(v) /\ (work[v].at \notin {"terms", "kills"} => work[v].termed = {})  BY DEF WorkOk
    <3>2. work[v].snap \cup work[v].termed \subseteq Pids \X Nat  BY DEF ReapTypes, WorkType
    <3> QED  BY <1>1, <1>c, <2>2, <3>1, <3>2 DEF SnapOk
  <2> QED  BY <2>1, <2>2
<1>5. CASE w = "kill"
  <2>1. work'["kill"] = q /\ work'["orphans"] = work["orphans"]  BY <1>1, <1>5 DEF Workers
  <2>2. root' # 0 => \A k \in work["orphans"].snap \cup work["orphans"].termed : Same(k)' => k[1] # root'
    <3>1. \A k \in work["orphans"].snap \cup work["orphans"].termed : k \in Pids \X Nat /\ Known(k)
        BY DEF ReapTypes, WorkType, Workers, WorkOk, SnapOk
    <3> QED  BY <1>c, <3>1 DEF WorkOk
  <2>3. WorkOk'  BY <1>4, <1>5, <2>1, <2>2 DEF WorkOk
  <2>4. WasOk'  BY <1>5, <2>1 DEF WasOk
  <2> QED  BY <1>2, <1>3, <2>3, <2>4
<1>6. CASE w = "orphans"
  <2>1. work'["orphans"] = q /\ work'["kill"] = work["kill"]  BY <1>1, <1>6 DEF Workers
  <2>2. WorkOk'  BY <1>4, <1>6, <2>1 DEF WorkOk
  <2>3. \A k \in was : Known(k)' /\ (Same(k)' => Same(k))  BY <1>c DEF ReapTypes, WasOk
  <2>4. \A k \in was : Same(k) => Pending(work["kill"], k)  BY DEF WasOk
  <2>5. WasOk'  BY <1>6, <2>1, <2>3, <2>4 DEF WasOk
  <2> QED  BY <1>2, <1>3, <2>2, <2>5
<1> QED  BY <1>5, <1>6 DEF Workers

LEMMA ReapSteps == ASSUME ReapAssumption, ReapInv, [ReapNext]_ReapVars PROVE ReapInv'
<1> USE DEF ReapInv
<1>1. ASSUME NEW p \in Pids, NEW q \in Pids, NEW s \in BOOLEAN, Forks(p, q, s) PROVE ReapInv'
  <2>1. p \in Nat \ {0}  BY DEF ReapAssumption
  <2>2. Changes  BY <1>1, <2>1 DEF Forks, Changes
  <2>3. root # 0 => processes'[root] = processes[root]
      BY <1>1 DEF Forks, Born, ReapTypes, ProcessesOk, Alive
  <2> QED  BY <1>1, <2>2, <2>3, WorkKept DEF Forks, ReapTypes, ProcessesOk
<1>2. ASSUME NEW p \in Pids, Stranger(p) PROVE ReapInv'
  <2>2. Changes  BY <1>2 DEF Stranger, Changes
  <2>3. root # 0 => processes'[root] = processes[root]
      BY <1>2 DEF Stranger, Born, ReapTypes, ProcessesOk, Alive
  <2> QED  BY <1>2, <2>2, <2>3, WorkKept DEF Stranger, ReapTypes, ProcessesOk
<1>k. ASSUME NEW p \in Pids, p # root, processes' = Without({p})
      PROVE root # 0 => processes'[root].start > 0 /\ processes'[root].ours /\ processes'[root].parent = 0
  <2> SUFFICES ASSUME root # 0 PROVE processes'[root] = processes[root]  BY DEF ProcessesOk
  <2>1. root \in Pids /\ processes[root].parent = 0 /\ p # 0  BY DEF ReapTypes, ProcessesOk, ReapAssumption
  <2> QED  BY <1>k, <2>1 DEF Without
<1>3. ASSUME NEW p \in Pids, ProcessExits(p) PROVE ReapInv'
  <2>2. Changes  BY <1>3 DEF ProcessExits, Changes
  <2> QED  BY <1>3, <1>k, <2>2, WorkKept DEF ProcessExits, ReapTypes
<1>4. ASSUME NEW p \in Pids, RootRespawns(p) PROVE ReapInv'
  <2>1. Born(p, 0, TRUE, FALSE) /\ root' = p /\ root = 0 /\ work["kill"] = Idle /\ UNCHANGED <<work, was, hit>>
      BY <1>4 DEF RootRespawns
  <2>2. Changes  BY <2>1 DEF Changes
  <2>3. processes'[p] = [start |-> births + 1, parent |-> 0, ours |-> TRUE, stubborn |-> FALSE]
        /\ births' = births + 1
      BY <2>1 DEF Born, ReapTypes
  <2>4. births + 1 > 0  BY DEF ReapTypes
  <2>5. processes'[p].start = births + 1 /\ processes'[p].ours /\ processes'[p].parent = 0  BY <2>3
  <2> QED  BY <2>1, <2>2, <2>3, <2>4, <2>5, WorkKept
\* One of the two reapings takes a step of its own, and no process changes.
<1>w. ASSUME NEW w \in Workers, NEW q \in WorkType, work' = [work EXCEPT ![w] = q],
             UNCHANGED <<processes, births, root, hit>>,
             was' \in SUBSET (Pids \X Nat),
             \A k \in q.snap \cup q.termed : Known(k) /\ (Same(k) => processes[k[1]].ours),
             q.at \notin {"terms", "kills"} => q.termed = {},
             w = "kill" => /\ q.at = "idle" <=> q = Idle
                           /\ q.at # "found"
                           /\ q.at = "root" => root # 0
                           /\ q.at \in {"terms", "kills"} => root = 0,
             w = "orphans" => was' = was /\ (q.at = "found" => q.snap # {}),
             w = "orphans" /\ root # 0 => \A k \in q.snap \cup q.termed : Same(k) => k[1] # root,
             w = "kill" => \A k \in was' : Known(k) /\ (Same(k) => Pending(q, k))
      PROVE ReapInv'
  <2>1. \A k : (Known(k)' <=> Known(k)) /\ (Same(k)' <=> Same(k))  BY <1>w DEF Known, Same
  <2>2. Changes  BY <1>w DEF Changes
  <2>3. root # 0 => processes'[root].start > 0 /\ processes'[root].ours /\ processes'[root].parent = 0
      BY <1>w DEF ProcessesOk
  <2> QED  BY <1>w, <2>1, <2>2, <2>3, WorkMoves
<1>t. \A w \in Workers : /\ work[w] \in WorkType /\ SnapOk(w)
                         /\ work[w].at \notin {"terms", "kills"} => work[w].termed = {}
    BY DEF ReapTypes, WorkOk
<1>o. root # 0 => \A k \in work["orphans"].snap \cup work["orphans"].termed : Same(k) => k[1] # root
    BY DEF WorkOk
<1>5. ASSUME NEW w \in Workers, NEW k \in Pids \X Nat, Terms(w, k) PROVE ReapInv'
  <2> DEFINE q == [work[w] EXCEPT !.snap = @ \ {k}, !.termed = IF Same(k) THEN @ \union {k} ELSE @]
  <2>1. /\ q \in WorkType /\ q.at = work[w].at /\ q.snap = work[w].snap \ {k}
        /\ q.termed = IF Same(k) THEN work[w].termed \cup {k} ELSE work[w].termed
      BY <1>t DEF WorkType
  <2>2. work' = [work EXCEPT ![w] = q] /\ work[w].at = "terms" /\ k \in work[w].snap
      BY <1>5, Zenon DEF Terms
  <2>3. UNCHANGED <<processes, births, root, was>>  BY <1>5 DEF Terms
  <2> HIDE DEF q
  <2>4. hit' = hit
    <3>1. Same(k) => processes[k[1]].ours  BY <1>t, <2>2 DEF SnapOk
    <3> QED  BY <1>5, <3>1 DEF Terms, Strangers
  <2>5. \A l \in q.snap \cup q.termed : l \in work[w].snap \cup work[w].termed  BY <2>1, <2>2
  <2>6. \A l \in q.snap \cup q.termed : Known(l) /\ (Same(l) => processes[l[1]].ours)
      BY <1>t, <2>5 DEF SnapOk
  <2>7. w = "kill" => root = 0  BY <2>2 DEF WorkOk
  <2>8. w = "kill" => \A l \in was : Known(l) /\ (Same(l) => Pending(q, l))
      BY <2>1, <2>2 DEF WasOk, Pending
  <2>9. q.at = "terms" /\ (q = Idle => FALSE)  BY <2>1, <2>2, IdleIs
  <2> QED  BY <1>w, <1>o, <2>1, <2>2, <2>3, <2>4, <2>5, <2>6, <2>7, <2>8, <2>9 DEF ReapTypes
<1>6. ASSUME NEW w \in Workers, NEW k \in Pids \X Nat, Obeys(w, k) PROVE ReapInv'
  <2>1. k \in work[w].termed /\ Same(k) /\ processes' = Without({k[1]}) /\ k[1] \in Pids
        /\ UNCHANGED <<births, root, work, was, hit>>
      BY <1>6 DEF Obeys, Same
  <2>2. Changes  BY <2>1 DEF Changes
  <2>3. k[1] # root
    <3>1. work[w].at \in {"terms", "kills"}  BY <1>t, <2>1
    <3>2. CASE w = "kill"  BY <3>1, <3>2, <2>1 DEF WorkOk, ReapAssumption
    <3>3. CASE w = "orphans"  BY <1>o, <2>1, <3>3 DEF ReapAssumption
    <3> QED  BY <3>2, <3>3 DEF Workers
  <2> QED  BY <1>k, <2>1, <2>2, <2>3, WorkKept DEF ReapTypes
<1>7. ASSUME NEW w \in Workers, GraceEnds(w) PROVE ReapInv'
  <2> DEFINE q == [work[w] EXCEPT !.at = "kills"]
  <2>1. q \in WorkType /\ q.at = "kills" /\ q.snap = work[w].snap /\ q.termed = work[w].termed
      BY <1>t DEF WorkType
  <2>2. work' = [work EXCEPT ![w] = q] /\ work[w].at = "terms" /\ work[w].snap = {}
      BY <1>7, Zenon DEF GraceEnds
  <2>3. UNCHANGED <<processes, births, root, was, hit>>  BY <1>7 DEF GraceEnds
  <2> HIDE DEF q
  <2>6. \A l \in q.snap \cup q.termed : Known(l) /\ (Same(l) => processes[l[1]].ours)
      BY <1>t, <2>1 DEF SnapOk
  <2>7. w = "kill" => root = 0  BY <2>2 DEF WorkOk
  <2>8. w = "kill" => \A l \in was : Known(l) /\ (Same(l) => Pending(q, l))
      BY <2>1, <2>2 DEF WasOk, Pending
  <2>9. q = Idle => FALSE  BY <2>1, <2>2, IdleIs
  <2> QED  BY <1>w, <1>o, <2>1, <2>2, <2>3, <2>6, <2>7, <2>8, <2>9 DEF ReapTypes
<1>8. ASSUME NEW w \in Workers, Reaped(w) PROVE ReapInv'
  <2>1. work' = [work EXCEPT ![w] = Idle] /\ UNCHANGED <<processes, births, root, was, hit>>
        /\ work[w].at = "kills" /\ work[w].termed = {}
      BY <1>8 DEF Reaped
  <2>2. w = "kill" => \A l \in was : Known(l) /\ ~Same(l)  BY <2>1 DEF WasOk, Pending
  <2> QED  BY <1>w, <2>1, <2>2, IdleIs DEF ReapTypes
<1>9. ASSUME ReapBegins PROVE ReapInv'
  <2> DEFINE q == [at |-> "root", snap |-> Snapshot(root), termed |-> {}]
  <2>0. root \in Pids /\ root \in Alive /\ processes[root].ours
      BY <1>9 DEF ReapBegins, ReapTypes, ProcessesOk, Alive
  <2>1. q \in WorkType /\ q.at = "root" /\ q.snap = Snapshot(root) /\ q.termed = {}
      BY <2>0, SnapshotIs DEF WorkType
  <2>2. work' = [work EXCEPT !["kill"] = q] /\ UNCHANGED <<processes, births, root, hit>>
        /\ was' = Stamped(Walk({root})) /\ root # 0
      BY <1>9 DEF ReapBegins
  <2> HIDE DEF q
  <2>3. was' = Snapshot(root) /\ was' \in SUBSET (Pids \X Nat) /\ \A k \in Snapshot(root) : Known(k) /\ processes[k[1]].ours
      BY <2>0, <2>2, SnapshotIs
  <2>4. "kill" \in Workers /\ "kill" # "orphans"  BY DEF Workers
  <2>5. q # Idle  BY <2>1, IdleIs
  <2>6. \A k \in was' : Known(k) /\ Pending(q, k)  BY <2>1, <2>3 DEF Pending
  <2> QED  BY <1>w, <2>1, <2>2, <2>3, <2>4, <2>5, <2>6
<1>10. ASSUME NEW p \in Pids, OrphanFound(p) PROVE ReapInv'
  <2> DEFINE q == [at |-> "found", snap |-> {<<p, processes[p].start>>}, termed |-> {}]
  <2>0. p \in Alive /\ processes[p].ours /\ p # root /\ processes[p].start \in Nat
      BY <1>10 DEF OrphanFound, Orphan, ReapTypes, ProcessType
  <2>1. q \in WorkType /\ q.at = "found" /\ q.snap = {<<p, processes[p].start>>} /\ q.termed = {}
      BY <2>0 DEF WorkType
  <2>2. work' = [work EXCEPT !["orphans"] = q] /\ UNCHANGED <<processes, births, root, was, hit>>
      BY <1>10 DEF OrphanFound
  <2> HIDE DEF q
  <2>3. \A k \in q.snap : Known(k) /\ processes[k[1]].ours /\ k[1] # root
      BY <2>0, <2>1 DEF Known, ProcessesOk, Alive
  <2>4. "orphans" \in Workers /\ "kill" # "orphans"  BY DEF Workers
  <2> QED  BY <1>w, <2>1, <2>2, <2>3, <2>4 DEF ReapTypes
<1>11. ASSUME OrphanTaken PROVE ReapInv'
  <2> DEFINE k == CHOOSE x \in work["orphans"].snap : TRUE
             q == IF Same(k) THEN [at |-> "terms", snap |-> Snapshot(k[1]), termed |-> {}] ELSE Idle
  <2>1. work["orphans"].at = "found" /\ work' = [work EXCEPT !["orphans"] = q]
        /\ UNCHANGED <<processes, births, root, was, hit>>
      BY <1>11 DEF OrphanTaken
  <2>2. CASE work["orphans"].snap # {} /\ Same(k)
    <3>1. k \in work["orphans"].snap  BY <2>2
    <3> HIDE DEF k
    <3>2. k \in Pids \X Nat /\ Known(k) /\ processes[k[1]].ours /\ (root # 0 => k[1] # root)
        BY <1>t, <1>o, <2>2, <3>1 DEF Workers, WorkType, SnapOk
    <3>3. k[1] \in Alive  BY <2>2, <3>2 DEF Known, Same, Alive
    <3>4. q \in WorkType /\ q.at = "terms" /\ q.snap = Snapshot(k[1]) /\ q.termed = {}
        BY <2>2, <3>2, <3>3, SnapshotIs DEF WorkType
    <3>5. \A l \in q.snap : Known(l) /\ processes[l[1]].ours /\ (root # 0 => l[1] # root)
        BY <3>2, <3>3, <3>4, SnapshotIs
    <3> HIDE DEF q
    <3>6. "orphans" \in Workers /\ "kill" # "orphans"  BY DEF Workers
    <3> QED  BY <1>w, <2>1, <3>4, <3>5, <3>6 DEF ReapTypes
  <2>3. CASE ~Same(k)
    <3>1. q = Idle  BY <2>3
    <3> HIDE DEF q, k
    <3>6. "orphans" \in Workers /\ "kill" # "orphans"  BY DEF Workers
    <3> QED  BY <1>w, <2>1, <3>1, <3>6, IdleIs DEF ReapTypes
  <2>4. work["orphans"].snap # {}  BY <2>1 DEF WorkOk
  <2> QED  BY <2>2, <2>3, <2>4
<1>12. ASSUME NEW w \in Workers, NEW k \in Pids \X Nat, Kills(w, k) PROVE ReapInv'
  <2> DEFINE q == [work[w] EXCEPT !.termed = @ \ {k}]
  <2>1. q \in WorkType /\ q.at = work[w].at /\ q.snap = work[w].snap /\ q.termed = work[w].termed \ {k}
      BY <1>t DEF WorkType
  <2>2. /\ work' = [work EXCEPT ![w] = q] /\ work[w].at = "kills" /\ k \in work[w].termed
        /\ UNCHANGED <<births, root, was>>
        /\ IF Same(k) THEN processes' = Without({k[1]}) /\ hit' = hit \cup Strangers(k)
                      ELSE UNCHANGED <<processes, hit>>
      BY <1>12, Zenon DEF Kills, Signalled
  <2> HIDE DEF q
  <2>3. k[1] \in Pids /\ (Same(k) => processes[k[1]].ours)  BY <1>t, <2>2 DEF SnapOk
  <2>4. hit' = {}  BY <2>2, <2>3 DEF Strangers
  <2>5. Changes  BY <2>2, <2>3 DEF Changes
  <2>6. root # 0 => processes'[root].start > 0 /\ processes'[root].ours /\ processes'[root].parent = 0
    <3>1. Same(k) => k[1] # root
      <4>1. CASE w = "kill"  BY <2>2, <2>3, <4>1 DEF WorkOk, ReapAssumption
      <4>2. CASE w = "orphans"  BY <1>o, <2>2, <2>3, <4>2 DEF ReapAssumption
      <4> QED  BY <4>1, <4>2 DEF Workers
    <3> QED  BY <1>k, <2>2, <2>3, <3>1 DEF ProcessesOk
  <2>7. \A l \in Pids \X Nat : Known(l) => Known(l)' /\ (Same(l)' => Same(l) /\ (processes'[l[1]].ours <=> processes[l[1]].ours))
      BY <2>5, ChangesKeep DEF PastKept
  <2>8. \A l \in q.snap \cup q.termed : l \in work[w].snap \cup work[w].termed /\ l \in Pids \X Nat
      BY <1>t, <2>1 DEF WorkType
  <2>9. \A l \in q.snap \cup q.termed : Known(l)' /\ (Same(l)' => Same(l) /\ processes'[l[1]].ours)
      BY <1>t, <2>7, <2>8 DEF SnapOk
  <2>10. ~Same(k)'
    <3>1. CASE Same(k)
      <4>1. processes'[k[1]] = Gone  BY <2>2, <2>3, <3>1 DEF Without
      <4>2. k[2] > 0  BY <1>t, <2>2 DEF SnapOk, Known
      <4> QED  BY <4>1, <4>2 DEF Same, Gone
    <3>2. CASE ~Same(k)  BY <2>2, <3>2 DEF Same
    <3> QED  BY <3>1, <3>2
  <2>11. w = "kill" => root = 0  BY <2>2 DEF WorkOk
  <2>12. w = "kill" => \A l \in was : Known(l)' /\ (Same(l)' => Pending(q, l))
    <3>1. \A l \in was : Known(l)' /\ (Same(l)' => Same(l) /\ l # k)  BY <2>7, <2>10 DEF WasOk, ReapTypes
    <3>2. w = "kill" => \A l \in was : Same(l) => l \in work[w].termed  BY <2>2 DEF WasOk, Pending
    <3> QED  BY <2>1, <2>2, <3>1, <3>2 DEF Pending
  <2>13. q.at = "kills" /\ q # Idle  BY <2>1, <2>2, IdleIs
  <2>14. was' \in SUBSET (Pids \X Nat)  BY <2>2 DEF ReapTypes
  <2>15. w = "orphans" /\ root # 0 => \A l \in q.snap \cup q.termed : Same(l)' => l[1] # root
      BY <1>o, <2>8, <2>9
  <2> QED  BY <2>1, <2>2, <2>4, <2>5, <2>6, <2>9, <2>11, <2>12, <2>13, <2>14, <2>15, WorkMoves
<1>13. ASSUME RootDies PROVE ReapInv'
  <2> DEFINE q == [work["kill"] EXCEPT !.at = "terms", !.snap = {k \in @ : k[1] # root}]
  <2>0. "kill" \in Workers /\ "kill" # "orphans"  BY DEF Workers
  <2>1. q \in WorkType /\ q.at = "terms" /\ q.snap = {k \in work["kill"].snap : k[1] # root}
        /\ q.termed = work["kill"].termed
      BY <1>t, <2>0 DEF WorkType
  <2>2. /\ work' = [work EXCEPT !["kill"] = q] /\ work["kill"].at = "root"
        /\ UNCHANGED <<births, was, hit>> /\ processes' = Without({root}) /\ root' = 0
      BY <1>13, Zenon DEF RootDies
  <2> HIDE DEF q
  <2>3. root \in Pids  BY <2>2 DEF WorkOk, ReapTypes
  <2>5. Changes  BY <2>2, <2>3 DEF Changes
  <2>7. \A l \in Pids \X Nat : Known(l) => Known(l)' /\ (Same(l)' => Same(l) /\ (processes'[l[1]].ours <=> processes[l[1]].ours))
      BY <2>5, ChangesKeep DEF PastKept
  <2>8. \A l \in q.snap \cup q.termed : l \in work["kill"].snap \cup work["kill"].termed /\ l \in Pids \X Nat
      BY <1>t, <2>0, <2>1 DEF WorkType
  <2>9. \A l \in q.snap \cup q.termed : Known(l)' /\ (Same(l)' => processes'[l[1]].ours)
      BY <1>t, <2>0, <2>7, <2>8 DEF SnapOk
  <2>10. \A l \in was : Known(l)' /\ (Same(l)' => Same(l) /\ l[1] # root)
    <3>1. processes'[root].start = 0  BY <2>2, <2>3 DEF Without, Gone
    <3> QED  BY <2>7, <3>1 DEF WasOk, ReapTypes, Same, Known
  <2>12. \A l \in was : Known(l)' /\ (Same(l)' => Pending(q, l))
      BY <2>1, <2>2, <2>10 DEF WasOk, Pending
  <2>13. q # Idle  BY <2>1, IdleIs
  <2>14. was' \in SUBSET (Pids \X Nat)  BY <2>2 DEF ReapTypes
  <2> QED  BY <2>0, <2>1, <2>2, <2>5, <2>9, <2>12, <2>13, <2>14, WorkMoves
<1>14. CASE UNCHANGED ReapVars
  <2>1. Changes  BY <1>14 DEF ReapVars, Changes
  <2> QED  BY <1>14, <2>1, WorkKept DEF ReapVars, ReapTypes, ProcessesOk
<1>15. \A k \in Pids \X (1..MaxBirths) : k \in Pids \X Nat  BY DEF ReapAssumption
<1> QED  BY <1>1, <1>2, <1>3, <1>4, <1>5, <1>6, <1>7, <1>8, <1>9, <1>10, <1>11, <1>12, <1>13, <1>14,
            <1>15 DEF ReapNext, Workers

LEMMA ReapSafe == ReapInv => OnlyTheTree /\ NothingLeft
<1> SUFFICES ASSUME ReapInv PROVE OnlyTheTree /\ NothingLeft  OBVIOUS
<1>1. OnlyTheTree  BY DEF ReapInv, OnlyTheTree
<1>2. NothingLeft  BY IdleIs DEF ReapInv, WasOk, Pending, NothingLeft, Same
<1> QED  BY <1>1, <1>2

-----------------------------------------------------------------------------
(* Wedge *)

\* What was paged is remembered, on its way to be, or excused; what is being sent
\* is not remembered yet.
WedgeInv ==
    /\ pages \in [WedgeShards \X (1..MaxPages) -> Nat]
    /\ checking \in {"idle", "sends", "sent"}
    /\ checking = "sends" => \A k \in reports : k \notin alerted
    /\ \A k \in WedgeShards \X (1..MaxPages) :
         /\ pages[k] > 1 => k \in unsaved \cup crowdedOut
         /\ pages[k] > 0 => (k \in alerted \cup unsaved \cup crowdedOut
                              \/ (checking = "sent" /\ k \in reports))

LEMMA WedgeStart == WedgeInit => WedgeInv
BY DEF WedgeInit, WedgeInv

LEMMA WedgeCheckStep == ASSUME WedgeInv, WedgeCheck PROVE WedgeInv'
<1>1. /\ checking = "idle" /\ checking' = "sends" /\ reports' = {Key(a) : a \in Paged}
      /\ UNCHANGED <<alerted, pages, unsaved, crowdedOut>>
    BY DEF WedgeCheck
<1>2. \A k \in reports' : k \notin alerted  BY <1>1 DEF Paged
<1>3. \A k \in reports' : k \notin alerted'  BY <1>1, <1>2
<1> QED  BY <1>1, <1>3 DEF WedgeInv

\* A page that lands a second time was not remembered the first, or has been dropped.
LEMMA AlertLandsStep == ASSUME WedgeInv, AlertLands PROVE WedgeInv'
<1>1. /\ checking = "sends" /\ checking' = "sent"
      /\ pages' = [k \in DOMAIN pages |-> IF k \in reports THEN pages[k] + 1 ELSE pages[k]]
      /\ UNCHANGED <<alerted, reports, unsaved, crowdedOut>>
    BY DEF AlertLands
<1>2. pages' \in [WedgeShards \X (1..MaxPages) -> Nat]  BY <1>1 DEF WedgeInv
<1> DEFINE D == WedgeShards \X (1..MaxPages)
<1>3. ASSUME NEW k \in D
      PROVE  /\ pages'[k] > 1 => k \in unsaved \cup crowdedOut
             /\ pages'[k] > 0 => (k \in alerted \cup unsaved \cup crowdedOut \/ k \in reports)
  <2>1. pages[k] \in Nat  BY DEF WedgeInv
  <2>2. CASE k \in reports
    <3>1. pages'[k] = pages[k] + 1 /\ k \notin alerted  BY <1>1, <2>2 DEF WedgeInv
    <3> QED  BY <1>1, <2>1, <2>2, <3>1 DEF WedgeInv
  <2>3. CASE k \notin reports
    <3>1. pages'[k] = pages[k]  BY <1>1, <2>3 DEF WedgeInv
    <3> QED  BY <1>1, <2>1, <2>3, <3>1 DEF WedgeInv
  <2> QED  BY <2>2, <2>3
<1> QED  BY <1>1, <1>2, <1>3 DEF WedgeInv

LEMMA AlertEndsStep == ASSUME WedgeInv, AlertFails \/ Remembers \/ Forgets PROVE WedgeInv'
<1>1. CASE AlertFails
  <2>1. checking = "sends" /\ checking' = "idle" /\ UNCHANGED <<alerted, pages, unsaved, crowdedOut>>
      BY <1>1 DEF AlertFails
  <2> QED  BY <2>1 DEF WedgeInv
<1>2. CASE Remembers
  <2> DEFINE K == alerted \cup reports
  <2>1. /\ checking = "sent" /\ checking' = "idle"
        /\ alerted' = LastOf(K) /\ crowdedOut' = crowdedOut \cup (K \ LastOf(K))
        /\ UNCHANGED <<pages, unsaved>>
      BY <1>2 DEF Remembers, Remembered
  <2>2. \A k \in K : k \in alerted' \cup crowdedOut'  BY <2>1
  <2>3. crowdedOut \subseteq crowdedOut'  BY <2>1
  <2> QED  BY <2>1, <2>2, <2>3 DEF WedgeInv
<1>3. CASE Forgets
  <2>1. /\ checking = "sent" /\ checking' = "idle" /\ unsaved' = unsaved \cup reports
        /\ UNCHANGED <<alerted, pages, crowdedOut>>
      BY <1>3 DEF Forgets
  <2> QED  BY <2>1 DEF WedgeInv
<1> QED  BY <1>1, <1>2, <1>3

\* The beacons, the turns and the monitor leave the pager alone.
LEMMA WedgeSteps == ASSUME WedgeInv, [WedgeNext]_WedgeVars PROVE WedgeInv'
<1>0. ASSUME UNCHANGED pager PROVE WedgeInv'  BY <1>0 DEF pager, WedgeInv
<1>1. ASSUME NEW a \in WedgeShards,
             \/ TurnStarts(a) \/ WriteFails(a)
             \/ \E next \in {"moves", "asks", "hangs"} : Event(a, next)
             \/ \E lingers \in BOOLEAN : Finishes(a, lingers)
             \/ SettleIdle(a) \/ SettleGone(a) \/ SettleFollows(a)
             \/ AskPosted(a) \/ AskEnds(a) \/ Pauses(a) \/ Withdrawn(a)
      PROVE UNCHANGED pager
    BY <1>1
    DEF checks, TurnStarts, WriteFails, Event, Finishes, SettleIdle, SettleGone, SettleFollows,
        AskPosted, AskEnds, Pauses, Withdrawn
<1>2. ASSUME NEW a \in WedgeShards, Dies(a) \/ WedgeRespawns(a) PROVE UNCHANGED pager
    BY <1>2, Zenon DEF checks, Dies, WedgeRespawns
<1>3. ASSUME ServerDies \/ ServerStarts \/ Ages \/ Stage PROVE UNCHANGED pager
    BY <1>3, Zenon DEF checks, ServerDies, ServerStarts, Ages, Stage
<1>4. CASE UNCHANGED WedgeVars  BY <1>0, <1>4 DEF WedgeVars, pager
<1> QED  BY <1>0, <1>1, <1>2, <1>3, <1>4, WedgeCheckStep, AlertLandsStep, AlertEndsStep DEF WedgeNext

LEMMA WedgeSafe == WedgeInv => PagedOnce
BY DEF WedgeInv, PagedOnce

-----------------------------------------------------------------------------
(* Gates *)

GateTypes ==
    /\ now \in Nat \ {0}
    /\ queue \in [GShards -> SUBSET RowKinds]
    /\ since \in Nat \cup {-1}
    /\ rejected \in [on : BOOLEAN, reset : Nat, stamped : Nat]
    /\ paused \in [GShards -> {"none"} \cup Keys]
    /\ resume \in [Keys -> Nat \cup {-1}]
    /\ manual \in [GShards -> Nat \cup {-1}]
    /\ opTimer \in [GShards -> Nat \cup {-1}]

Armed == \E k \in Keys : resume[k] # -1

\* What a pause with an end was armed for is that end, and a turn is no paused shard's.
GateOk(s) ==
    /\ manual[s] # 0 => opTimer[s] = manual[s]
    /\ s \in busy => paused[s] = "none"
    /\ queue[s] # {} => s \in gdrains \cup busy \/ manual[s] = 0 \/ opTimer[s] # -1 \/ Armed
    /\ paused[s] # "none" => s \in gdrains \cup busy \/ Armed
    /\ "call" \in queue[s] => s \in gdrains \cup busy

GatesInv == GateTypes /\ \A s \in GShards : GateOk(s)

LEMMA GatesStart == ASSUME GatesAssumption PROVE GatesInit => GatesInv
<1> SUFFICES ASSUME GatesInit PROVE GatesInv  OBVIOUS
<1>1. GateTypes  BY DEF GatesInit, GateTypes
<1>2. ASSUME NEW s \in GShards PROVE GateOk(s)  BY DEF GatesInit, GateOk
<1> QED  BY <1>1, <1>2 DEF GatesInv

LEMMA BreakerIs ==
  ASSUME GatesAssumption, GateTypes PROVE BreakerUntil \in Nat
<1> DEFINE end == IF rejected.reset > now THEN rejected.reset ELSE rejected.stamped + DefaultPause
<1>1. end \in Nat  BY DEF GateTypes, GatesAssumption
<1> HIDE DEF end
<1>2. BreakerUntil = IF rejected.on /\ end > now THEN end ELSE 0  BY DEF BreakerUntil, end
<1> QED  BY <1>1, <1>2

\* A gate that defers leaves its timer armed, and none disarms another's.
LEMMA GateArms ==
  ASSUME GatesAssumption, GateTypes, NEW s \in GShards, UsageGate(s)
  PROVE  /\ since' \in Nat \cup {-1} /\ resume' \in [Keys -> Nat \cup {-1}]
         /\ Verdict(s) \in {"none"} \cup Keys
         /\ paused' = [paused EXCEPT ![s] = Verdict(s)]
         /\ Verdict(s) # "none" => Armed'
         /\ Armed => Armed'
<1> USE DEF GateTypes
<1>1. Verdict(s) \in {"none"} \cup Keys  BY DEF Verdict, Keys
<1>2. since' \in Nat \cup {-1} /\ NewSince \in Nat \cup {-1}  BY DEF UsageGate, NewSince
<1>3. ASSUME NEW k \in Keys, NEW when \in Nat
      PROVE /\ Scheduled(k, when) \in [Keys -> Nat \cup {-1}]
            /\ Scheduled(k, when)[k] # -1
            /\ \A j \in Keys : resume[j] # -1 => Scheduled(k, when)[j] # -1
    BY DEF Scheduled
<1>4. Verdict(s) = "breaker" => BreakerUntil \in Nat
    BY BreakerIs
<1>5. Larger(NewSince + MinPause, now + Recheck) \in Nat /\ now + Recheck \in Nat
    BY <1>2 DEF Larger, GatesAssumption
<1>6. CASE Verdict(s) = "none"
  <2>1. resume' = resume  BY <1>6 DEF UsageGate
  <2> QED  BY <1>2, <1>6, <2>1 DEF UsageGate, Armed
<1>7. CASE Verdict(s) # "none"
  <2>1. PICK k \in Keys, when \in Nat : resume' = Scheduled(k, when)
    <3>1. CASE Verdict(s) = "breaker"
      <4>1. resume' = Scheduled("breaker", BreakerUntil)  BY <3>1 DEF UsageGate
      <4> QED  BY <1>4, <3>1, <4>1 DEF Keys
    <3>2. CASE Verdict(s) = "budget"
      <4>1. resume' = Scheduled("budget", Larger(NewSince + MinPause, now + Recheck))  BY <3>2 DEF UsageGate
      <4> QED  BY <1>5, <4>1 DEF Keys
    <3>3. CASE Verdict(s) = "governor"
      <4>1. resume' = Scheduled("governor", now + Recheck)  BY <3>3 DEF UsageGate
      <4> QED  BY <1>5, <4>1 DEF Keys
    <3> QED  BY <1>1, <1>7, <3>1, <3>2, <3>3 DEF Keys
  <2>2. resume' \in [Keys -> Nat \cup {-1}] /\ Armed'  BY <1>3, <2>1 DEF Armed
  <2> QED  BY <1>1, <1>2, <2>2 DEF UsageGate
<1> QED  BY <1>6, <1>7

LEMMA DrainStep == ASSUME GatesAssumption, GatesInv, NEW s \in GShards, GDrain(s) PROVE GatesInv'
<1> USE DEF GatesInv
<1>1. /\ since' \in Nat \cup {-1} /\ resume' \in [Keys -> Nat \cup {-1}]
      /\ Verdict(s) \in {"none"} \cup Keys
      /\ paused' = [paused EXCEPT ![s] = Verdict(s)]
      /\ Verdict(s) # "none" => Armed'
      /\ Armed => Armed'
    BY GateArms DEF GDrain
<1>2. /\ s \notin busy /\ gdrains' = gdrains \ {s}
      /\ UNCHANGED <<now, rejected, manual, opTimer>>
    BY DEF GDrain
<1>3. paused'[s] = Verdict(s) /\ \A t \in GShards : t # s => paused'[t] = paused[t]
    BY <1>1 DEF GateTypes
<1>4. \/ /\ Verdict(s) # "none" \/ HeldBack(s)
         /\ busy' = busy
         /\ \A t \in GShards : t # s => queue'[t] = queue[t]
         /\ "call" \notin queue'[s]
         /\ queue' \in [GShards -> SUBSET RowKinds]
      \/ /\ Verdict(s) = "none"
         /\ busy' = busy \cup {s} \/ (busy' = busy /\ queue'[s] = {})
         /\ \A t \in GShards : t # s => queue'[t] = queue[t]
         /\ queue' \in [GShards -> SUBSET RowKinds]
  <2>1. CASE HeldBack(s) \/ Verdict(s) # "none"
    <3>1. CASE Verdict(s) = "governor"
      <4>1. queue[s] = {"machine"}  BY <3>1 DEF Verdict, MachineOnly
      <4>2. queue' = queue \/ queue' = [queue EXCEPT ![s] = @ \ {"machine"}]
          BY <2>1, <3>1 DEF GDrain, AgedOut
      <4>3. busy' = busy  BY <2>1 DEF GDrain
      <4> QED  BY <2>1, <3>1, <4>1, <4>2, <4>3 DEF GateTypes
    <3>2. CASE Verdict(s) # "governor"
      <4>1. queue' = [queue EXCEPT ![s] = @ \ {"call"}] /\ busy' = busy
          BY <2>1, <3>2 DEF GDrain, WithoutCalls
      <4> QED  BY <2>1, <4>1 DEF GateTypes
    <3> QED  BY <3>1, <3>2
  <2>2. CASE ~(HeldBack(s) \/ Verdict(s) # "none")
    <3> DEFINE left == CASE "call" \in queue[s] -> queue[s] \ {"call"}
                         [] "call" \notin queue[s] /\ "human" \in queue[s] -> queue[s] \ {"human"}
                         [] OTHER -> {}
    <3>1. queue' = [queue EXCEPT ![s] = left] /\ busy' = IF queue[s] = {} THEN busy ELSE busy \cup {s}
        BY <2>2 DEF GDrain
    <3>2. left \in SUBSET RowKinds /\ (queue[s] = {} => left = {})  BY DEF GateTypes
    <3> HIDE DEF left
    <3> QED  BY <2>2, <3>1, <3>2 DEF GateTypes
  <2> QED  BY <2>1, <2>2
<1>5. GateTypes'  BY <1>1, <1>2, <1>4 DEF GateTypes
<1>6. ASSUME NEW t \in GShards, t # s PROVE GateOk(t)'
  <2>1. GateOk(t)  OBVIOUS
  <2>2. queue'[t] = queue[t] /\ (t \in busy' <=> t \in busy) /\ (t \in gdrains' <=> t \in gdrains)
      BY <1>2, <1>4, <1>6
  <2> QED  BY <1>1, <1>2, <1>3, <1>6, <2>1, <2>2 DEF GateOk
<1>7. GateOk(s)'
  <2>1. GateOk(s)  OBVIOUS
  <2>2. HeldBack(s) => manual'[s] = 0 \/ opTimer'[s] # -1
      BY <1>2, <2>1 DEF HeldBack, ManualOn, GateOk, GateTypes
  <2>3. s \in busy' => paused'[s] = "none"  BY <1>2, <1>3, <1>4
  <2>4. queue'[s] # {} => s \in gdrains' \cup busy' \/ manual'[s] = 0 \/ opTimer'[s] # -1 \/ Armed'
      BY <1>1, <1>4, <2>2
  <2>5. paused'[s] # "none" => Armed'  BY <1>1, <1>3
  <2>6. "call" \in queue'[s] => s \in busy'  BY <1>4
  <2>7. manual'[s] # 0 => opTimer'[s] = manual'[s]  BY <1>2, <2>1 DEF GateOk
  <2> QED  BY <2>3, <2>4, <2>5, <2>6, <2>7 DEF GateOk
<1> QED  BY <1>5, <1>6, <1>7

LEMMA GatesSteps == ASSUME GatesAssumption, GatesInv, [GatesNext]_GatesVars PROVE GatesInv'
<1> USE DEF GatesInv
<1>1. ASSUME NEW s \in GShards, NEW kind \in RowKinds, GArrive(s, kind) PROVE GatesInv'
  <2>1. /\ queue' = [queue EXCEPT ![s] = @ \cup {kind}]
        /\ gdrains' = IF s \in busy THEN gdrains ELSE gdrains \cup {s}
        /\ UNCHANGED <<now, busy, rejected, since, paused, resume, manual, opTimer>>
      BY <1>1 DEF GArrive
  <2>2. GateTypes'  BY <2>1 DEF GateTypes
  <2>3. ASSUME NEW t \in GShards PROVE GateOk(t)'
    <3>1. GateOk(t) /\ (Armed' <=> Armed)  BY <2>1 DEF Armed
    <3>2. t # s => queue'[t] = queue[t]  BY <2>1 DEF GateTypes
    <3> QED  BY <2>1, <3>1, <3>2 DEF GateOk
  <2> QED  BY <2>2, <2>3
<1>2. ASSUME UNCHANGED <<queue, gdrains, busy, paused, resume, manual, opTimer>>, GateTypes' PROVE GatesInv'
  <2>1. Armed' <=> Armed  BY <1>2 DEF Armed
  <2>2. ASSUME NEW t \in GShards PROVE GateOk(t)'
    <3>1. GateOk(t)  OBVIOUS
    <3> QED  BY <1>2, <2>1, <3>1 DEF GateOk
  <2> QED  BY <1>2, <2>2
<1>3. CASE RateEvent
  <2>1. rejected' \in [on : BOOLEAN, reset : Nat, stamped : Nat]
    <3>1. CASE \E d \in Rejections :
                 rejected' = [on |-> TRUE, reset |-> IF d = 0 THEN 0 ELSE now + d, stamped |-> now]
      <4>1. PICK d \in Rejections :
                 rejected' = [on |-> TRUE, reset |-> IF d = 0 THEN 0 ELSE now + d, stamped |-> now]
          BY <3>1
      <4>2. d \in Nat /\ now \in Nat  BY DEF GatesAssumption, GateTypes
      <4> QED  BY <4>1, <4>2
    <3>2. CASE rejected' = [rejected EXCEPT !.on = FALSE]  BY <3>2 DEF GateTypes
    <3> QED  BY <1>3, <3>1, <3>2 DEF RateEvent
  <2> QED  BY <1>2, <1>3, <2>1 DEF RateEvent, GateTypes
<1>4. CASE Reading  BY <1>2, <1>4 DEF Reading, GateTypes
<1>5. CASE Tick  BY <1>2, <1>5 DEF Tick, GateTypes
<1>6. CASE GRestart
  <2>1. /\ manual' = [s \in GShards |-> Loaded(s)]
        /\ opTimer' = [s \in GShards |-> Rearmed(s)]
        /\ since' = -1
        /\ paused' = [s \in GShards |-> "none"]
        /\ resume' = [k \in Keys |-> -1]
        /\ busy' = {} /\ gdrains' = GShards
        /\ UNCHANGED <<now, queue, rejected>>
      BY <1>6 DEF GRestart
  <2>2. GateTypes'  BY <2>1 DEF GateTypes, Loaded, Rearmed
  <2>3. ASSUME NEW t \in GShards PROVE GateOk(t)'
    <3>1. GateOk(t)  OBVIOUS
    <3>2. manual'[t] # 0 => opTimer'[t] = manual'[t]
        BY <2>1, <3>1 DEF GateOk, Loaded, Rearmed, ManualOn, GateTypes
    <3> QED  BY <2>1, <3>2 DEF GateOk
  <2> QED  BY <2>2, <2>3
<1>7. ASSUME NEW s \in GShards, GDrain(s) PROVE GatesInv'  BY <1>7, DrainStep
<1>8. ASSUME NEW s \in GShards, GTurnEnds(s) PROVE GatesInv'
  <2>1. /\ busy' = busy \ {s} /\ gdrains' = IF queue[s] # {} THEN gdrains \cup {s} ELSE gdrains
        /\ s \in busy
        /\ UNCHANGED <<now, queue, rejected, since, paused, resume, manual, opTimer>>
      BY <1>8 DEF GTurnEnds
  <2>2. GateTypes'  BY <2>1 DEF GateTypes
  <2>3. ASSUME NEW t \in GShards PROVE GateOk(t)'
    <3>1. GateOk(t) /\ (Armed' <=> Armed)  BY <2>1 DEF Armed
    <3> QED  BY <2>1, <3>1 DEF GateOk
  <2> QED  BY <2>2, <2>3
<1>9. ASSUME NEW s \in GShards, OpResume(s) PROVE GatesInv'
  <2>1. /\ manual' = [manual EXCEPT ![s] = -1] /\ opTimer' = [opTimer EXCEPT ![s] = -1]
        /\ gdrains' = gdrains \cup {s}
        /\ UNCHANGED <<now, queue, busy, rejected, since, paused, resume>>
      BY <1>9 DEF OpResume
  <2>2. GateTypes'  BY <2>1 DEF GateTypes
  <2>3. ASSUME NEW t \in GShards PROVE GateOk(t)'
    <3>1. GateOk(t) /\ (Armed' <=> Armed)  BY <2>1 DEF Armed
    <3>2. /\ t # s => manual'[t] = manual[t] /\ opTimer'[t] = opTimer[t]
          /\ t = s => manual'[t] = -1 /\ opTimer'[t] = -1
        BY <2>1 DEF GateTypes
    <3> QED  BY <2>1, <3>1, <3>2 DEF GateOk
  <2> QED  BY <2>2, <2>3
<1>10. ASSUME NEW s \in GShards, OpTimerFires(s) PROVE GatesInv'
  <2>1. /\ opTimer[s] # -1 /\ opTimer' = [opTimer EXCEPT ![s] = -1]
        /\ IF manual[s] = opTimer[s]
           THEN manual' = [manual EXCEPT ![s] = -1] /\ gdrains' = gdrains \cup {s}
           ELSE UNCHANGED <<manual, gdrains>>
        /\ UNCHANGED <<now, queue, busy, rejected, since, paused, resume>>
      BY <1>10 DEF OpTimerFires
  <2>2. GateTypes'  BY <2>1 DEF GateTypes
  <2>3. ASSUME NEW t \in GShards PROVE GateOk(t)'
    <3>1. GateOk(t) /\ (Armed' <=> Armed)  BY <2>1 DEF Armed
    <3>2. /\ t # s => manual'[t] = manual[t] /\ opTimer'[t] = opTimer[t] /\ (t \in gdrains => t \in gdrains')
          /\ t = s => opTimer'[t] = -1 /\ (t \in gdrains => t \in gdrains')
                       /\ \/ manual'[t] = -1 /\ t \in gdrains'
                          \/ manual'[t] = 0
      <4>1. CASE manual[s] = opTimer[s]  BY <2>1, <4>1 DEF GateTypes
      <4>2. CASE manual[s] # opTimer[s]
        <5>1. manual[s] = 0  BY <4>2 DEF GateOk
        <5> QED  BY <2>1, <4>2, <5>1 DEF GateTypes
      <4> QED  BY <4>1, <4>2
    <3> QED  BY <2>1, <3>1, <3>2 DEF GateOk
  <2> QED  BY <2>2, <2>3
<1>11. ASSUME NEW s \in GShards, NEW d \in PauseFor, OpPause(s, d) PROVE GatesInv'
  <2>1. /\ manual' = [manual EXCEPT ![s] = IF d = 0 THEN 0 ELSE now + d]
        /\ opTimer' = [opTimer EXCEPT ![s] = IF d = 0 THEN -1 ELSE now + d]
        /\ queue' = [queue EXCEPT ![s] = @ \ {"call"}]
        /\ UNCHANGED <<now, gdrains, busy, rejected, since, paused, resume>>
      BY <1>11 DEF OpPause, WithoutCalls
  <2>0. d \in Nat /\ now \in Nat /\ now + d \in Nat /\ (d # 0 => now + d # 0)
      BY DEF GatesAssumption, GateTypes
  <2>2. GateTypes'  BY <2>0, <2>1 DEF GateTypes
  <2>3. ASSUME NEW t \in GShards PROVE GateOk(t)'
    <3>1. GateOk(t) /\ (Armed' <=> Armed)  BY <2>1 DEF Armed
    <3>2. /\ t # s => manual'[t] = manual[t] /\ opTimer'[t] = opTimer[t] /\ queue'[t] = queue[t]
          /\ t = s => /\ "call" \notin queue'[t]
                      /\ (manual'[t] = 0 \/ (manual'[t] = opTimer'[t] /\ opTimer'[t] # -1))
        BY <2>0, <2>1 DEF GateTypes
    <3> QED  BY <2>1, <3>1, <3>2 DEF GateOk
  <2> QED  BY <2>2, <2>3
<1>12. ASSUME NEW k \in Keys, ResumeFires(k) PROVE GatesInv'
  <2>1. /\ resume' = [resume EXCEPT ![k] = -1] /\ gdrains' = gdrains \cup GShards
        /\ UNCHANGED <<now, queue, busy, rejected, since, paused, manual, opTimer>>
      BY <1>12 DEF ResumeFires, Woken
  <2>2. GateTypes'  BY <2>1 DEF GateTypes
  <2>3. ASSUME NEW t \in GShards PROVE GateOk(t)'
    <3>1. GateOk(t)  OBVIOUS
    <3> QED  BY <2>1, <3>1 DEF GateOk
  <2> QED  BY <2>2, <2>3
<1>13. CASE UNCHANGED GatesVars  BY <1>2, <1>13 DEF GatesVars, GateTypes
<1> QED  BY <1>1, <1>3, <1>4, <1>5, <1>6, <1>7, <1>8, <1>9, <1>10, <1>11, <1>12, <1>13 DEF GatesNext

LEMMA GatesSafe == GatesInv => DeferredWakes /\ PausedIsLooked /\ NoCallBehindPause
BY DEF GatesInv, GateOk, Armed, DeferredWakes, SomethingWakes, PausedIsLooked, NoCallBehindPause

-----------------------------------------------------------------------------
(* Lifecycle *)

\* Where a watcher is, and where a request.
WatcherPlaces == {"none", "wait", "lock", "marks", "start", "exec"}
OpPlaces == {"idle", "kill", "gone", "reap", "clear", "start", "exec", "end"}

LifeTypes ==
  /\ spawned \in 1..MaxProcs /\ tracked \in 0..spawned
  /\ watcher \in [Procs -> WatcherPlaces]
  /\ op \in [Ops -> [kind : {"none", "reload", "reset", "kill"}, pc : OpPlaces, victim : 0..MaxProcs]]
  /\ begun \in BOOLEAN /\ refused \in BOOLEAN /\ deliberate \in BOOLEAN /\ resumed \in BOOLEAN
  /\ streak \in Nat /\ history \in Nat /\ exits \in Nat
  /\ watchTask \in 0..spawned

Resting(o) == op[o].pc \in {"idle", "end"}

\* Between requests the shard has a watcher that will see its process die, or one that
\* is about to start the next.
Attentive ==
  /\ ~deliberate
  /\ \/ tracked \in Procs /\ watcher[tracked] \in {"wait", "lock"}
     \/ \E p \in Procs : watcher[p] \in {"marks", "start", "exec"}

\* No request and one exit at most: the process is the last one spawned, and each death
\* judged in a refused session counts on the streak.
AloneOk ==
  /\ ~braked /\ tracked = spawned
  /\ \A p \in Procs : p # tracked => watcher[p] = "none"
  /\ watcher[tracked] # "wait" => tracked \notin live
  /\ exits = 0 => tracked \in live /\ history = 0 /\ streak = 0 /\ ~refused
  /\ tracked \notin live /\ history # 0 =>
       IF watcher[tracked] \in {"start", "exec"}
       THEN begun /\ refused => history <= streak + 1
       ELSE begun /\ refused /\ resumed /\ history <= streak + 1

LifeInv ==
  /\ LifeTypes
  /\ (\A o \in Ops : Resting(o)) /\ ~Killed /\ ~braked => Attentive
  /\ (\A o \in Ops : op[o].pc = "idle") /\ exits <= 1 => AloneOk

LEMMA LifeStarts == ASSUME LifecycleAssumption PROVE LifeInit => LifeInv
<1> SUFFICES ASSUME LifeInit PROVE LifeInv  OBVIOUS
<1> USE DEF LifeInit, LifecycleAssumption
<1>1. LifeTypes
  <2>1. resumed \in BOOLEAN /\ begun \in BOOLEAN /\ refused \in BOOLEAN /\ deliberate \in BOOLEAN  BY Zenon DEF LifeInit
  <2>2. watcher \in [Procs -> WatcherPlaces]  BY DEF WatcherPlaces
  <2>3. op \in [Ops -> [kind : {"none", "reload", "reset", "kill"}, pc : OpPlaces, victim : 0..MaxProcs]]
      BY DEF OpPlaces
  <2>4. 1 \in 1..MaxProcs /\ 1 \in 0..1  OBVIOUS
  <2> QED  BY <2>1, <2>2, <2>3, <2>4 DEF LifeTypes
<1>2. Attentive  BY DEF Attentive, Procs
<1>3. AloneOk  BY DEF AloneOk, Procs
<1> QED  BY <1>1, <1>2, <1>3 DEF LifeInv

\* What a request's step does to the requests: it is on its way, or has started the shard,
\* or was to kill it.
LEMMA OpMoves ==
  ASSUME LifecycleAssumption, LifeInv, NEW o \in Ops, OpStep(o), LifeTypes',
         op'[o].pc # "idle",
         op'[o].pc = "end" => op'[o].kind = "kill" \/ Attentive'
  PROVE  LifeInv'
<1>1. (\A u \in Ops : Resting(u))' /\ ~Killed' => Attentive'
  <2> SUFFICES ASSUME (\A u \in Ops : Resting(u))', ~Killed' PROVE Attentive'  OBVIOUS
  <2>1. op'[o].pc \in {"idle", "end"}
    <3>1. \A u \in Ops : op'[u].pc \in {"idle", "end"}  BY DEF Resting
    <3> QED  BY <3>1
  <2>2. op'[o].kind # "kill"  BY DEF Killed
  <2> QED  BY <2>1, <2>2
<1> QED  BY <1>1 DEF LifeInv

LEMMA OpSteps == ASSUME LifecycleAssumption, LifeInv, NEW o \in Ops, OpStep(o) PROVE LifeInv'
<1> USE DEF LifecycleAssumption
<1>t. LifeTypes  BY DEF LifeInv
<1> DEFINE OpType == [kind : {"none", "reload", "reset", "kill"}, pc : OpPlaces, victim : 0..MaxProcs]
<1>n. spawned \in Nat /\ spawned <= MaxProcs /\ tracked \in 0..spawned /\ watchTask \in 0..spawned
    BY <1>t DEF LifeTypes
<1>c. ASSUME NEW p, CancelWatcher(p)
      PROVE  watcher' \in [Procs -> WatcherPlaces]
  <2>1. watcher \in [Procs -> WatcherPlaces]  BY <1>t DEF LifeTypes
  <2> QED  BY <1>c, <2>1 DEF CancelWatcher, WatcherPlaces
<1>o. op[o] \in OpType /\ op \in [Ops -> OpType]  BY <1>t DEF LifeTypes
<1>1. CASE Asked(o)
  <2>1. PICK k \in Kinds : op' = [op EXCEPT ![o] = [kind |-> k, pc |-> "kill", victim |-> 0]]
      BY <1>1 DEF Asked
  <2>2. [kind |-> k, pc |-> "kill", victim |-> 0] \in OpType  BY DEF OpPlaces
  <2>3. op' \in [Ops -> OpType] /\ op'[o].pc = "kill"  BY <1>o, <2>1, <2>2
  <2>4. LifeTypes'  BY <1>t, <1>1, <2>3 DEF LifeTypes, Asked, session, fallback
  <2> QED  BY <2>3, <2>4, OpMoves
<1>2. CASE KillBegins(o)
  <2> DEFINE q == IF tracked = 0 THEN [op[o] EXCEPT !.pc = AfterKill(o)]
                  ELSE [op[o] EXCEPT !.pc = "gone", !.victim = tracked]
  <2>1. AfterKill(o) \in {"end", "clear", "start"} /\ (AfterKill(o) = "end" => op[o].kind = "kill")
      BY DEF AfterKill
  <2>2. op' = [op EXCEPT ![o] = q]  BY <1>2, <1>o DEF KillBegins, Goto
  <2>3. q \in OpType /\ q.pc \in {"end", "clear", "start", "gone"} /\ (q.pc = "end" => q.kind = "kill")
    <3>1. CASE tracked = 0  BY <1>o, <2>1, <3>1 DEF OpPlaces
    <3>2. CASE tracked # 0
      <4>1. tracked \in 0..MaxProcs  BY <1>n
      <4> QED  BY <1>o, <3>2, <4>1 DEF OpPlaces
    <3> QED  BY <3>1, <3>2
  <2> HIDE DEF q
  <2>4. op' \in [Ops -> OpType] /\ op'[o] = q  BY <1>o, <2>2, <2>3
  <2>5. LifeTypes'  BY <1>t, <1>2, <2>4 DEF LifeTypes, KillBegins, session, fallback
  <2> QED  BY <2>3, <2>4, <2>5, OpMoves
<1>3. CASE KillPops(o)
  <2>1. op' = [op EXCEPT ![o].pc = "reap"]  BY <1>3 DEF KillPops, Goto
  <2>2. op' \in [Ops -> OpType] /\ op'[o].pc = "reap"  BY <1>o, <2>1 DEF OpPlaces
  <2>3. LifeTypes'  BY <1>n, <1>t, <1>3, <2>2 DEF LifeTypes, KillPops, session, fallback
  <2> QED  BY <2>2, <2>3, OpMoves
<1>4. CASE KillReaps(o)
  <2>1. AfterKill(o) \in {"end", "clear", "start"} /\ (AfterKill(o) = "end" => op[o].kind = "kill")
      BY DEF AfterKill
  <2>2. op' = [op EXCEPT ![o].pc = AfterKill(o)]  BY <1>4 DEF KillReaps, Goto
  <2>3. op' \in [Ops -> OpType] /\ op'[o].pc = AfterKill(o) /\ op'[o].kind = op[o].kind
      BY <1>o, <2>1, <2>2 DEF OpPlaces
  <2>4. watcher' \in [Procs -> WatcherPlaces]  BY <1>4, <1>c DEF KillReaps
  <2>5. LifeTypes'  BY <1>n, <1>t, <1>4, <2>3, <2>4 DEF LifeTypes, KillReaps, session, fallback
  <2> QED  BY <2>1, <2>3, <2>5, OpMoves
<1>5. CASE OpClears(o)
  <2>1. op' = [op EXCEPT ![o].pc = "start"]  BY <1>5 DEF OpClears, Goto
  <2>2. op' \in [Ops -> OpType] /\ op'[o].pc = "start"  BY <1>o, <2>1 DEF OpPlaces
  <2>3. LifeTypes'  BY <1>t, <1>5, <2>2 DEF LifeTypes, OpClears
  <2> QED  BY <2>2, <2>3, OpMoves
<1>6. CASE OpStarts(o)
  <2>1. op' = [op EXCEPT ![o].pc = "exec"]  BY <1>6 DEF OpStarts, Goto
  <2>2. op' \in [Ops -> OpType] /\ op'[o].pc = "exec"  BY <1>o, <2>1 DEF OpPlaces
  <2>3. watcher' \in [Procs -> WatcherPlaces]  BY <1>6, <1>c DEF OpStarts
  <2>4. LifeTypes'  BY <1>n, <1>t, <1>6, <2>2, <2>3 DEF LifeTypes, OpStarts, session, fallback
  <2> QED  BY <2>2, <2>4, OpMoves
<1>7. CASE OpSpawns(o)
  <2>1. op' = [op EXCEPT ![o].pc = "end"]  BY <1>7 DEF OpSpawns, Goto
  <2>2. op' \in [Ops -> OpType] /\ op'[o].pc = "end"  BY <1>o, <2>1 DEF OpPlaces
  <2>3. spawned + 1 \in Procs  BY <1>n, <1>7 DEF OpSpawns, Procs
  <2>4. watcher' \in [Procs -> WatcherPlaces] /\ watcher'[spawned + 1] = "wait"
      BY <1>t, <1>7, <2>3 DEF LifeTypes, OpSpawns, WatcherPlaces
  <2>5. LifeTypes'
    <3>1. /\ spawned' = spawned + 1 /\ tracked' = spawned + 1 /\ watchTask' = spawned + 1
          /\ deliberate' = FALSE /\ UNCHANGED <<begun, refused, streak, history, exits>>
        BY <1>7 DEF OpSpawns, SpawnedAs, session
    <3>2. resumed' \in BOOLEAN
      <4>1. resumed' = begun  BY <1>7 DEF OpSpawns, SpawnedAs
      <4>2. begun \in BOOLEAN  BY <1>t DEF LifeTypes
      <4> QED  BY <4>1, <4>2, Zenon
    <3>3. spawned + 1 \in 1..MaxProcs /\ spawned + 1 \in 0..(spawned + 1)  BY <1>n, <2>3 DEF Procs
    <3> QED  BY <1>t, <2>2, <2>4, <3>1, <3>2, <3>3 DEF LifeTypes
  <2>6. Attentive'  BY <1>7, <2>3, <2>4 DEF Attentive, OpSpawns, SpawnedAs
  <2> QED  BY <2>2, <2>5, <2>6, OpMoves
<1> QED  BY <1>1, <1>2, <1>3, <1>4, <1>5, <1>6, <1>7 DEF OpStep

\* A step that is no request's leaves the requests alone.
LEMMA OthersMove ==
  ASSUME LifeInv, op' = op, LifeTypes', braked => braked', exits <= exits',
         ~braked' /\ Attentive => Attentive',
         exits' <= 1 /\ AloneOk /\ (\A o \in Ops : op[o].pc = "idle") => AloneOk'
  PROVE  LifeInv'
<1>1. Killed' = Killed /\ (\A o \in Ops : Resting(o)' = Resting(o))  BY DEF Killed, Resting
<1>2. exits' <= 1 => exits <= 1  BY DEF LifeInv, LifeTypes
<1> QED  BY <1>1, <1>2 DEF LifeInv

LEMMA WatcherSteps ==
  ASSUME LifecycleAssumption, LifeInv, NEW p \in Procs, WatcherStep(p) PROVE LifeInv'
<1> USE DEF LifecycleAssumption
<1>t. LifeTypes  BY DEF LifeInv
<1>n. /\ spawned \in Nat /\ spawned <= MaxProcs /\ spawned >= 1 /\ tracked \in 0..spawned
      /\ watchTask \in 0..spawned
      /\ watcher \in [Procs -> WatcherPlaces] /\ 0 \notin Procs
      /\ streak \in Nat /\ history \in Nat /\ exits \in Nat
    BY <1>t DEF LifeTypes, Procs
<1>1. CASE WatcherWakes(p)
  <2> DEFINE to == IF deliberate THEN "none" ELSE "lock"
  <2>1. watcher' = [watcher EXCEPT ![p] = to] /\ to \in WatcherPlaces /\ watcher[p] = "wait" /\ p \notin live
      BY <1>1 DEF WatcherWakes, WatcherPlaces
  <2>2. LifeTypes'  BY <1>n, <1>t, <1>1, <2>1 DEF LifeTypes, WatcherWakes, session, fallback
  <2>3. Attentive => Attentive'
      BY <1>n, <1>1, <2>1 DEF Attentive, WatcherWakes
  <2>4. AloneOk => AloneOk'
    <3> SUFFICES ASSUME AloneOk PROVE AloneOk'  OBVIOUS
    <3>1. p = tracked  BY <2>1 DEF AloneOk
    <3>2. to \notin {"start", "exec"} /\ watcher'[tracked] = to  BY <1>n, <2>1, <3>1
    <3> HIDE DEF to
    <3>3. \A q \in Procs : q # tracked => watcher'[q] = watcher[q]  BY <1>n, <2>1, <3>1
    <3> QED  BY <1>1, <2>1, <3>1, <3>2, <3>3 DEF AloneOk, WatcherWakes, session, fallback
  <2> QED  BY <1>1, <1>n, <2>2, <2>3, <2>4, OthersMove DEF WatcherWakes, fallback
<1>2. CASE WatcherLocks(p)
  <2> DEFINE to == IF StillMine(p) THEN "marks" ELSE "none"
  <2>1. watcher' = [watcher EXCEPT ![p] = to] /\ to \in WatcherPlaces /\ watcher[p] = "lock"
      BY <1>2 DEF WatcherLocks, WatcherPlaces
  <2>2. LifeTypes'  BY <1>n, <1>t, <1>2, <2>1 DEF LifeTypes, WatcherLocks, session, fallback
  <2>3. Attentive => Attentive'
    <3> SUFFICES ASSUME Attentive PROVE Attentive'  OBVIOUS
    <3>1. deliberate' = deliberate /\ tracked' = tracked  BY <1>2 DEF WatcherLocks
    <3>2. CASE tracked = p  BY <1>n, <2>1, <3>1, <3>2 DEF Attentive, StillMine
    <3>3. CASE tracked # p  BY <1>n, <2>1, <3>1, <3>3 DEF Attentive
    <3> QED  BY <3>2, <3>3
  <2>4. AloneOk => AloneOk'
    <3> SUFFICES ASSUME AloneOk PROVE AloneOk'  OBVIOUS
    <3>1. p = tracked  BY <2>1 DEF AloneOk
    <3>2. to \notin {"start", "exec"} /\ watcher'[tracked] = to  BY <1>n, <2>1, <3>1
    <3> HIDE DEF to
    <3>3. \A q \in Procs : q # tracked => watcher'[q] = watcher[q]  BY <1>n, <2>1, <3>1
    <3> QED  BY <1>2, <2>1, <3>1, <3>2, <3>3 DEF AloneOk, WatcherLocks, session, fallback
  <2> QED  BY <1>2, <1>n, <2>2, <2>3, <2>4, OthersMove DEF WatcherLocks, fallback
<1>3. CASE WatcherJudges(p)
  <2>1. PICK fast \in (IF begun /\ refused THEN {TRUE} ELSE BOOLEAN), fresh \in BOOLEAN :
          LET fails == IF resumed /\ fast THEN streak + 1 ELSE 0
              old == IF fresh /\ ~(begun /\ refused) THEN 0 ELSE history
              n == (IF GivesUp(fails) THEN 0 ELSE old) + 1
          IN /\ streak' = IF GivesUp(fails) THEN 0 ELSE fails
             /\ begun' = (begun /\ ~GivesUp(fails)) /\ refused' = (refused /\ ~GivesUp(fails))
             /\ history' = n /\ resumed' = FALSE
             /\ IF n > RespawnMax
                THEN /\ braked' = TRUE /\ lock' = "free"
                     /\ watcher' = [watcher EXCEPT ![p] = "none"]
                ELSE /\ watcher' = [watcher EXCEPT ![p] = "start"] /\ UNCHANGED <<braked, lock>>
      BY <1>3 DEF WatcherJudges
  <2> DEFINE fails == IF resumed /\ fast THEN streak + 1 ELSE 0
             old == IF fresh /\ ~(begun /\ refused) THEN 0 ELSE history
             n == (IF GivesUp(fails) THEN 0 ELSE old) + 1
             to == IF n > RespawnMax THEN "none" ELSE "start"
  <2>2. fails \in Nat /\ old \in Nat /\ old <= history /\ n \in Nat  BY <1>n
  <2>3. /\ streak' = IF GivesUp(fails) THEN 0 ELSE fails
        /\ begun' = (begun /\ ~GivesUp(fails)) /\ refused' = (refused /\ ~GivesUp(fails))
        /\ history' = n /\ resumed' = FALSE
        /\ watcher' = [watcher EXCEPT ![p] = to]
      BY <2>1
  <2>b. /\ n > RespawnMax => braked' = TRUE
        /\ ~(n > RespawnMax) => braked' = braked
      BY <2>1
  <2>4. to \in {"none", "start"} /\ (~braked' => to = "start")  BY <2>b
  <2>5. watcher[p] = "marks" /\ UNCHANGED <<spawned, tracked, live, deliberate, op, exits, watchTask>>
      BY <1>3 DEF WatcherJudges
  <2>6. LifeTypes'
    <3>1. begun' \in BOOLEAN /\ refused' \in BOOLEAN /\ streak' \in Nat /\ history' \in Nat
        BY <1>t, <2>2, <2>3 DEF LifeTypes
    <3>2. watcher' \in [Procs -> WatcherPlaces]  BY <1>n, <2>3, <2>4 DEF WatcherPlaces
    <3> QED  BY <1>t, <2>3, <2>5, <3>1, <3>2 DEF LifeTypes
  <2>7. ~braked' /\ Attentive => Attentive'  BY <1>n, <2>3, <2>4, <2>5 DEF Attentive
  <2>8. exits <= 1 /\ AloneOk => AloneOk'
    <3> SUFFICES ASSUME exits <= 1, AloneOk PROVE AloneOk'  OBVIOUS
    <3>1. p = tracked /\ tracked \notin live /\ exits # 0 /\ ~braked  BY <2>5 DEF AloneOk
    <3>2. history # 0 => begun /\ refused /\ resumed /\ history <= streak + 1
        BY <2>5, <3>1 DEF AloneOk
    <3>3. history # 0 => fails = streak + 1  BY <2>1, <3>2
    <3>4. old # 0 => old <= fails /\ history # 0  BY <1>n, <2>2, <3>2, <3>3
    <3>5. n <= RespawnMax
      <4>1. CASE GivesUp(fails) \/ old = 0  BY <4>1
      <4>2. CASE ~GivesUp(fails) /\ old # 0
        <5>1. n = old + 1  BY <4>2
        <5>2. fails < GiveUp  BY <2>2, <4>2 DEF GivesUp
        <5> HIDE DEF n, fails, old
        <5> QED  BY <2>2, <3>4, <4>2, <5>1, <5>2
      <4> QED  BY <4>1, <4>2
    <3>6. begun' /\ refused' => history' <= streak' + 1
      <4>1. CASE GivesUp(fails)  BY <2>3, <4>1
      <4>2. CASE ~GivesUp(fails)
        <5>1. n = old + 1 /\ streak' = fails /\ history' = n  BY <2>3, <4>2
        <5> HIDE DEF n, fails, old
        <5> QED  BY <2>2, <3>4, <5>1
      <4> QED  BY <4>1, <4>2
    <3>7. ~braked' /\ to = "start"
      <4>1. ~(n > RespawnMax)
        <5> HIDE DEF n
        <5> QED  BY <2>2, <3>5
      <4> QED  BY <2>b, <3>1, <4>1
    <3> HIDE DEF n, fails, old, to
    <3>8. watcher'[tracked] = "start" /\ \A q \in Procs : q # tracked => watcher'[q] = watcher[q]
        BY <1>n, <2>3, <3>1, <3>7
    <3> QED  BY <2>5, <3>1, <3>6, <3>7, <3>8 DEF AloneOk
  <2>9. braked => braked'  BY <2>b
  <2> QED  BY <1>n, <2>5, <2>6, <2>7, <2>8, <2>9, OthersMove
<1>4. CASE WatcherStarts(p)
  <2> DEFINE stale == IF watchTask # 0 /\ StopsStale(p) THEN watchTask ELSE 0
             w == [q \in Procs |-> IF q = p THEN "exec" ELSE IF q = stale THEN "none" ELSE watcher[q]]
  <2>1. stale # p  BY <1>n DEF StopsStale
  <2>2. watcher[p] = "start" /\ watcher' = w  BY <1>4, <2>1 DEF WatcherStarts
  <2>3. /\ w \in [Procs -> WatcherPlaces] /\ w[p] = "exec"
        /\ \A q \in Procs : q # p => w[q] \in {"none", watcher[q]}
      BY <1>n DEF WatcherPlaces
  <2> HIDE DEF w
  <2>4. LifeTypes'  BY <1>n, <1>t, <1>4, <2>2, <2>3 DEF LifeTypes, WatcherStarts, session, fallback
  <2>5. Attentive => Attentive'  BY <1>4, <2>2, <2>3 DEF Attentive, WatcherStarts
  <2>6. AloneOk => AloneOk'
    <3> SUFFICES ASSUME AloneOk PROVE AloneOk'  OBVIOUS
    <3>1. p = tracked /\ tracked \notin live  BY <2>2 DEF AloneOk
    <3>2. \A q \in Procs : q # tracked => watcher'[q] = "none"  BY <2>2, <2>3, <3>1 DEF AloneOk
    <3>3. watcher'[tracked] = "exec"  BY <2>2, <2>3, <3>1
    <3> QED  BY <1>4, <2>2, <3>1, <3>2, <3>3 DEF AloneOk, WatcherStarts, session, fallback
  <2> QED  BY <1>4, <1>n, <2>4, <2>5, <2>6, OthersMove DEF WatcherStarts, fallback
<1>5. CASE WatcherSpawns(p)
  <2> DEFINE k == spawned + 1
  <2>1. k \in Procs /\ k \in 1..MaxProcs /\ k \in Nat  BY <1>n, <1>5 DEF WatcherSpawns, Procs
  <2>2. /\ watcher' = [watcher EXCEPT ![p] = "none", ![k] = "wait"]
        /\ spawned' = k /\ tracked' = k /\ watchTask' = k /\ deliberate' = FALSE /\ resumed' = begun
        /\ live' = IF begun /\ refused THEN live ELSE live \cup {k}
        /\ watcher[p] = "exec"
        /\ UNCHANGED <<op, begun, refused, streak, history, braked, exits>>
      BY <1>5 DEF WatcherSpawns, SpawnedAs, session
  <2> HIDE DEF k
  <2>3. /\ watcher' \in [Procs -> WatcherPlaces] /\ watcher'[k] = "wait"
        /\ \A q \in Procs : q # k => watcher'[q] = IF q = p THEN "none" ELSE watcher[q]
      BY <1>n, <2>1, <2>2 DEF WatcherPlaces
  <2>4. LifeTypes'
    <3>1. resumed' \in BOOLEAN
      <4>1. begun \in BOOLEAN  BY <1>t DEF LifeTypes
      <4> QED  BY <2>2, <4>1, Zenon
    <3>2. k \in 0..k  BY <2>1
    <3> QED  BY <1>t, <2>1, <2>2, <2>3, <3>1, <3>2 DEF LifeTypes
  <2>5. Attentive'  BY <2>1, <2>2, <2>3 DEF Attentive
  <2>6. AloneOk => AloneOk'
    <3> SUFFICES ASSUME AloneOk PROVE AloneOk'  OBVIOUS
    <3>1. p = tracked /\ tracked \notin live /\ exits # 0  BY <2>2 DEF AloneOk
    <3>2. begun /\ refused /\ history # 0 => history <= streak + 1  BY <2>2, <3>1 DEF AloneOk
    <3>3. \A q \in Procs : q # k => watcher'[q] = "none"  BY <2>3, <3>1 DEF AloneOk
    <3>4. tracked' \notin live' => begun /\ refused  BY <2>2
    <3> QED  BY <2>2, <2>3, <3>1, <3>2, <3>3, <3>4 DEF AloneOk
  <2> QED  BY <1>n, <2>2, <2>4, <2>5, <2>6, OthersMove
<1> QED  BY <1>1, <1>2, <1>3, <1>4, <1>5 DEF WatcherStep

LEMMA LifeSteps ==
  ASSUME LifecycleAssumption, LifeInv, [LifeNext]_LifeVars PROVE LifeInv'
<1>t. LifeTypes  BY DEF LifeInv
<1>n. exits \in Nat  BY <1>t DEF LifeTypes
<1>1. ASSUME NEW o \in Ops, OpStep(o) PROVE LifeInv'  BY <1>1, OpSteps
<1>2. ASSUME NEW p \in Procs, WatcherStep(p) PROVE LifeInv'  BY <1>2, WatcherSteps
<1>3. CASE LifeTurnBegins
  <2>1. LifeTypes'  BY <1>t, <1>3 DEF LifeTypes, LifeTurnBegins, fallback
  <2>2. Attentive => Attentive'  BY <1>3 DEF LifeTurnBegins, Attentive
  <2>3. AloneOk => AloneOk'  BY <1>3 DEF LifeTurnBegins, AloneOk, fallback
  <2> QED  BY <1>3, <1>n, <2>1, <2>2, <2>3, OthersMove DEF LifeTurnBegins, fallback
<1>4. CASE TurnOver \/ UNCHANGED LifeVars
  <2>1. UNCHANGED <<spawned, tracked, watcher, op, begun, refused, deliberate, resumed, streak,
                    history, exits, watchTask, live, braked>>
      BY <1>4 DEF TurnOver, LifeVars, session, fallback
  <2>2. LifeTypes'  BY <1>t, <2>1 DEF LifeTypes
  <2>3. Attentive => Attentive'  BY <2>1 DEF Attentive
  <2>4. AloneOk => AloneOk'  BY <2>1 DEF AloneOk
  <2> QED  BY <1>n, <2>1, <2>2, <2>3, <2>4, OthersMove
<1>5. CASE Exits
  <2>1. /\ exits' = exits + 1 /\ live' = live \ {tracked} /\ refused' \in BOOLEAN
        /\ UNCHANGED <<spawned, tracked, watcher, watchTask, deliberate, op, begun, resumed, streak,
                       history, braked>>
      BY <1>t, <1>5 DEF LifeTypes, Exits, fallback, LifecycleAssumption
  <2>2. LifeTypes'  BY <1>t, <2>1 DEF LifeTypes
  <2>3. Attentive => Attentive'  BY <2>1 DEF Attentive
  <2>4. exits' <= 1 /\ AloneOk => AloneOk'
    <3> SUFFICES ASSUME exits' <= 1, AloneOk PROVE AloneOk'  OBVIOUS
    <3>1. exits = 0 /\ exits' = 1  BY <1>n, <2>1
    <3> QED  BY <2>1, <3>1 DEF AloneOk
  <2> QED  BY <1>n, <2>1, <2>2, <2>3, <2>4, OthersMove
<1> QED  BY <1>1, <1>2, <1>3, <1>4, <1>5 DEF LifeNext

LEMMA LifeSafe == ASSUME LifeInv PROVE BackAtRest /\ RefusalIsSurvived
<1>t. LifeTypes  BY DEF LifeInv
<1>1. BackAtRest
  <2> SUFFICES ASSUME Quiet, ~Killed, ~braked
               PROVE  tracked \in live /\ watcher[tracked] = "wait"
      BY DEF BackAtRest
  <2>1. Attentive  BY DEF LifeInv, Quiet, Resting
  <2>2. \A p \in Procs : watcher[p] \in {"none", "wait"} /\ (watcher[p] = "wait" => p \in live)
      BY DEF Quiet
  <2> QED  BY <2>1, <2>2 DEF Attentive
<1>2. RefusalIsSurvived
  <2>1. exits \in Nat  BY <1>t DEF LifeTypes
  <2> QED  BY <2>1 DEF RefusalIsSurvived, LifeInv, AloneOk
<1> QED  BY <1>1, <1>2

-----------------------------------------------------------------------------
(* ToolLines *)

Line == [where : {Channel, Thread}, at : Nat]

\* The lines of a turn: some in the channel, the others in the thread.
Split(c) ==
  /\ c \in 0..Len(posts) /\ c <= BaseCap
  /\ \A i \in 1..Len(posts) : posts[i].where = IF i <= c THEN Channel ELSE Thread
  /\ ~thread => c = Len(posts)
  /\ thread /\ toolsCall \in {"post", "none"} => c < Len(posts)

ToolInv ==
  /\ toolsNow \in Nat /\ lines \in Nat /\ posts \in Seq(Line) /\ Len(posts) = lines
  /\ thread \in BOOLEAN /\ creations = IF thread THEN 1 ELSE 0
  /\ lines <= IF thread /\ MaxLines > BaseCap THEN MaxLines ELSE BaseCap
  /\ toolsCall \in {"none", "create", "made", "again", "post"}
  /\ toolsCall \in {"create", "made"} => lines < MaxLines
  /\ toolsCall = "create" => threads /\ ~thread
  /\ thread => threads
  /\ toolsCall = "made" => thread
  /\ toolsCall = "again" => ~thread /\ disabled
  /\ \E c \in Nat : Split(c)

LEMMA ToolStarts == ASSUME ToolAssumption PROVE ToolInit => ToolInv
<1> SUFFICES ASSUME ToolInit PROVE ToolInv  OBVIOUS
<1>1. Split(0)  BY DEF Split, ToolInit, ToolAssumption
<1>2. \E c \in Nat : Split(c)  BY <1>1
<1>3. posts \in Seq(Line) /\ Len(posts) = 0  BY DEF ToolInit
<1>4. lines <= IF thread /\ MaxLines > BaseCap THEN MaxLines ELSE BaseCap
    BY DEF ToolInit, ToolAssumption
<1>5. toolsNow = 0 /\ lines = 0 /\ toolsCall = "none" /\ thread = FALSE /\ creations = 0
    BY DEF ToolInit
<1> QED  BY <1>2, <1>3, <1>4, <1>5 DEF ToolInv

\* Line t is posted: the channel has room for it, or there is the thread.
LEMMA PostingKeeps ==
  ASSUME ToolAssumption, ToolInv, NEW t, Posting(t),
         UNCHANGED <<toolsNow, threads, thread, disabled, creations>>,
         IF thread THEN lines < MaxLines ELSE lines < BaseCap
  PROVE  ToolInv'
<1> USE DEF ToolAssumption
<1>0. PICK c \in Nat : Split(c)  BY DEF ToolInv
<1> DEFINE x == [where |-> Target, at |-> toolsNow]
<1>1. x \in Line /\ x.where = IF thread THEN Thread ELSE Channel
    BY DEF ToolInv, Line, Target
<1>2. posts' = Append(posts, x) /\ lines' = lines + 1 /\ toolsCall' = "post"
    BY DEF Posting
<1>3. posts \in Seq(Line) /\ Len(posts) = lines /\ lines \in Nat  BY DEF ToolInv
<1> HIDE DEF x
<1>4. /\ posts' \in Seq(Line) /\ Len(posts') = lines + 1
      /\ \A i \in 1..lines : posts'[i] = posts[i]
      /\ posts'[lines + 1] = x
    BY <1>1, <1>2, <1>3
<1>5. PICK d \in Nat : /\ d <= BaseCap /\ d <= lines + 1 /\ d = (IF thread THEN c ELSE c + 1)
                       /\ ~thread => d = lines + 1
                       /\ thread => d < lines + 1
  <2>1. CASE thread  BY <1>0, <1>3, <2>1 DEF Split
  <2>2. CASE ~thread
    <3>1. c + 1 \in Nat /\ c + 1 <= BaseCap /\ c + 1 = lines + 1  BY <1>0, <1>3, <2>2 DEF Split
    <3> QED  BY <2>2, <3>1
  <2> QED  BY <2>1, <2>2
<1>6. ASSUME NEW i \in 1..Len(posts') PROVE posts'[i].where = IF i <= d THEN Channel ELSE Thread
  <2>1. i \in 1..(lines + 1)  BY <1>4
  <2>2. CASE i = lines + 1
      BY <1>1, <1>3, <1>4, <1>5, <2>2
  <2>3. CASE i \in 1..lines
    <3>1. posts'[i].where = IF i <= c THEN Channel ELSE Thread  BY <1>0, <1>3, <1>4, <2>3 DEF Split
    <3>2. i <= c <=> i <= d  BY <1>0, <1>3, <1>5, <2>3 DEF Split
    <3> QED  BY <3>1, <3>2
  <2> QED  BY <1>3, <2>1, <2>2, <2>3
<1>7. Split(d)'  BY <1>2, <1>4, <1>5, <1>6 DEF Split
<1>8. lines' <= IF thread /\ MaxLines > BaseCap THEN MaxLines ELSE BaseCap  BY <1>2, <1>3 DEF ToolInv
<1>9. (\E k \in Nat : Split(k))'  BY <1>7
<1> QED  BY <1>2, <1>3, <1>4, <1>8, <1>9 DEF ToolInv

\* What a plan for a line promises.
LEMMA PlanIs ==
  ASSUME ToolAssumption, ToolInv, NEW t
  PROVE  /\ Plan(t) = "post" => IF thread THEN lines < MaxLines ELSE lines < BaseCap
         /\ Plan(t) = "create" => lines < MaxLines /\ threads /\ ~thread /\ ~disabled
         /\ Plan(t) \in {"post", "skip", "create"}
<1> USE DEF ToolInv, ToolAssumption
<1>1. CASE threads  BY <1>1 DEF Plan, Cap, CanThread
<1>2. CASE ~threads
  <2>1. Plan(t) = "post" => lines < BaseCap  BY <1>2 DEF Plan, ShouldPost
  <2> QED  BY <1>2, <2>1 DEF Plan
<1> QED  BY <1>1, <1>2

LEMMA ToolSteps == ASSUME ToolAssumption, ToolInv, [ToolNext]_ToolVars PROVE ToolInv'
<1> USE DEF ToolAssumption
<1>0. PICK c \in Nat : Split(c)  BY DEF ToolInv
<1>1. CASE ToolUse
  <2>1. UNCHANGED <<toolsNow, threads, thread, disabled, creations>> /\ toolsCall = "none"  BY <1>1 DEF ToolUse
  <2>2. CASE Plan(toolsNow) = "skip" /\ UNCHANGED <<toolsCall, at, lines, lastAt, posts>>
    <3>1. Split(c)'  BY <1>0, <2>1, <2>2 DEF Split
    <3> QED  BY <2>1, <2>2, <3>1 DEF ToolInv
  <2>3. CASE Plan(toolsNow) = "create" /\ toolsCall' = "create" /\ UNCHANGED <<lines, lastAt, posts>>
    <3>1. lines < MaxLines /\ threads /\ ~thread  BY <2>3, PlanIs
    <3>2. Split(c)'  BY <1>0, <2>1, <2>3, <3>1 DEF Split
    <3> QED  BY <2>1, <2>3, <3>1, <3>2 DEF ToolInv
  <2>4. CASE Plan(toolsNow) = "post" /\ Posting(toolsNow)
    <3>1. IF thread THEN lines < MaxLines ELSE lines < BaseCap  BY <2>4, PlanIs
    <3> QED  BY <2>1, <2>4, <3>1, PostingKeeps
  <2> QED  BY <1>1, <2>2, <2>3, <2>4 DEF ToolUse
<1>2. CASE Created
  <2>1. /\ toolsCall = "create" /\ thread' = TRUE /\ creations' = creations + 1 /\ toolsCall' = "made"
        /\ UNCHANGED <<toolsNow, threads, lines, posts>> /\ threads /\ ~thread
      BY <1>2 DEF Created, ToolInv
  <2>2. Split(c)'  BY <1>0, <2>1 DEF Split
  <2> QED  BY <2>1, <2>2 DEF ToolInv
<1>3. CASE PostFirst
  <2>1. thread /\ lines < MaxLines /\ UNCHANGED <<toolsNow, threads, thread, disabled, creations>>
      BY <1>3 DEF PostFirst, ToolInv
  <2> QED  BY <1>3, <2>1, PostingKeeps DEF PostFirst
<1>4. CASE NotCreated
  <2>1. /\ toolsCall = "create" /\ disabled' = TRUE /\ toolsCall' = "again"
        /\ UNCHANGED <<toolsNow, threads, thread, lines, posts, creations>>
      BY <1>4 DEF NotCreated
  <2>2. Split(c)'  BY <1>0, <2>1 DEF Split
  <2> QED  BY <2>1, <2>2 DEF ToolInv
<1>5. CASE PlanAgain
  <2>1. toolsCall = "again" /\ ~thread /\ disabled /\ UNCHANGED <<toolsNow, threads, thread, disabled, creations>>
      BY <1>5 DEF PlanAgain, ToolInv
  <2>2. CASE Plan(at) = "skip"
    <3>1. toolsCall' = "none" /\ UNCHANGED <<lines, posts>>  BY <1>5, <2>2 DEF PlanAgain
    <3>2. Split(c)'  BY <1>0, <2>1, <3>1 DEF Split
    <3> QED  BY <2>1, <3>1, <3>2 DEF ToolInv
  <2>3. CASE Plan(at) # "skip"
    <3>1. Plan(at) = "post"  BY <2>1, <2>3, PlanIs
    <3>2. IF thread THEN lines < MaxLines ELSE lines < BaseCap  BY <3>1, PlanIs
    <3> QED  BY <1>5, <2>1, <2>3, <3>2, PostingKeeps DEF PlanAgain
  <2> QED  BY <2>2, <2>3
<1>6. ASSUME NEW answer, Posted(answer) PROVE ToolInv'
  <2>1. /\ toolsCall = "post" /\ toolsCall' \in {"post", "none"}
        /\ UNCHANGED <<toolsNow, threads, thread, lines, posts, disabled, creations>>
      BY <1>6 DEF Posted
  <2>2. Split(c)'  BY <1>0, <2>1 DEF Split
  <2> QED  BY <2>1, <2>2 DEF ToolInv
<1>7. CASE Clock \/ UNCHANGED ToolVars
  <2>1. /\ toolsNow' \in Nat
        /\ UNCHANGED <<toolsCall, threads, thread, lines, posts, disabled, creations>>
      BY <1>7 DEF Clock, ToolVars, ToolInv
  <2>2. Split(c)'  BY <1>0, <2>1 DEF Split
  <2> QED  BY <2>1, <2>2 DEF ToolInv
<1> QED  BY <1>1, <1>2, <1>3, <1>4, <1>5, <1>6, <1>7 DEF ToolNext

LEMMA ToolSafe == ASSUME ToolAssumption, ToolInv PROVE ChannelSpared /\ OneThread
<1> USE DEF ToolAssumption
<1>0. PICK c \in Nat : Split(c)  BY DEF ToolInv
<1>1. Len(posts) \in Nat /\ Len(posts) = lines /\ lines \in Nat  BY DEF ToolInv
<1>2. Count(Channel) <= BaseCap
  <2> DEFINE S == {i \in 1..Len(posts) : posts[i].where = Channel}
  <2>1. S \subseteq 1..c  BY <1>0, <1>1 DEF Split, Channel, Thread
  <2>2. IsFiniteSet(1..c) /\ Cardinality(1..c) = c
    <3>1. 1 \in Int /\ c \in Int  OBVIOUS
    <3>2. IsFiniteSet(1..c) /\ Cardinality(1..c) = IF 1 > c THEN 0 ELSE c - 1 + 1  BY <3>1, FS_Interval
    <3> QED  BY <3>2
  <2>3. IsFiniteSet(S) /\ Cardinality(S) <= c  BY <2>1, <2>2, FS_Subset
  <2>4. Cardinality(S) \in Nat  BY <2>3, FS_CardinalityType
  <2>5. Count(Channel) = Cardinality(S)  BY DEF Count
  <2> HIDE DEF S
  <2> QED  BY <1>0, <2>3, <2>4, <2>5 DEF Split
<1>3. ChannelSpared  BY <1>1, <1>2 DEF ChannelSpared, ToolInv
<1>4. ASSUME NEW i \in 1..Len(posts), NEW j \in 1..Len(posts), i < j, posts[i].where = Thread
      PROVE  posts[j].where = Thread
    BY <1>0, <1>1, <1>4 DEF Split, Channel, Thread
<1>5. creations = 1 /\ toolsCall \in {"post", "none"} => posts # <<>> /\ posts[Len(posts)].where = Thread
  <2> SUFFICES ASSUME creations = 1, toolsCall \in {"post", "none"}
               PROVE  posts # <<>> /\ posts[Len(posts)].where = Thread
      OBVIOUS
  <2>1. thread /\ c < Len(posts)  BY <1>0 DEF ToolInv, Split
  <2>2. Len(posts) \in 1..Len(posts) /\ ~(Len(posts) <= c)  BY <1>0, <1>1, <2>1
  <2> QED  BY <1>0, <1>1, <2>1, <2>2 DEF Split
<1>6. creations <= 1  BY DEF ToolInv
<1> QED  BY <1>3, <1>4, <1>5, <1>6 DEF OneThread

-----------------------------------------------------------------------------
(* ChatStream *)

ChatEvent == [seq : Nat, n : Nat]
Text == Seq(Nat)
Starts(s, t) == Len(s) <= Len(t) /\ \A i \in 1..Len(s) : s[i] = t[i]

LEMMA StartsAll ==
  ASSUME NEW s \in Text, NEW t \in Text, Starts(s, t), Len(s) = Len(t) PROVE s = t
<1>1. s \in Seq(Nat) /\ t \in Seq(Nat)  BY DEF Text
<1>2. \A i \in 1..Len(s) : s[i] = t[i]  BY DEF Starts
<1> QED  BY <1>1, <1>2, SeqEqual

LEMMA StartsMore ==
  ASSUME NEW s \in Text, NEW t \in Text, NEW x \in Nat, Starts(s, t)
  PROVE  Append(t, x) \in Text /\ Starts(s, Append(t, x)) /\ Starts(t, Append(t, x))
<1>1. /\ Append(t, x) \in Text /\ Len(Append(t, x)) = Len(t) + 1
      /\ \A i \in 1..Len(t) : Append(t, x)[i] = t[i]
    BY AppendProperties DEF Text
<1>2. /\ Len(s) \in Nat /\ Len(t) \in Nat /\ Len(s) <= Len(t)
      /\ \A i \in 1..Len(s) : s[i] = t[i]
    BY DEF Text, Starts
<1>3. \A i \in 1..Len(s) : i \in 1..Len(t)  BY <1>2
<1>4. \A i \in 1..Len(s) : s[i] = Append(t, x)[i]  BY <1>1, <1>2, <1>3
<1> QED  BY <1>1, <1>2, <1>4 DEF Starts

LEMMA SameStart ==
  ASSUME NEW s \in Text, NEW t \in Text, NEW u \in Text, Starts(s, t), Starts(t, u)
  PROVE  Starts(s, u)
<1>1. Len(s) \in Nat /\ Len(t) \in Nat /\ Len(u) \in Nat  BY DEF Text
<1>2. Len(s) <= Len(t) /\ \A i \in 1..Len(s) : s[i] = t[i]  BY DEF Starts
<1>3. Len(t) <= Len(u) /\ \A i \in 1..Len(t) : t[i] = u[i]  BY DEF Starts
<1>4. \A i \in 1..Len(s) : i \in 1..Len(t)  BY <1>1, <1>2
<1>5. \A i \in 1..Len(s) : s[i] = u[i]  BY <1>2, <1>3, <1>4
<1> QED  BY <1>1, <1>2, <1>3, <1>5 DEF Starts

Completed(s, t) == s \o SubSeq(t, Len(s) + 1, Len(t))

\* What the route sends past the size it has sent completes the page's text.
LEMMA Completes ==
  ASSUME NEW s \in Text, NEW t \in Text
  PROVE  /\ Completed(s, t) \in Text
         /\ Len(Completed(s, t)) = IF Len(t) > Len(s) THEN Len(t) ELSE Len(s)
         /\ Starts(s, t) => Completed(s, t) = t
<1> USE DEF Text
<1> DEFINE u == SubSeq(t, Len(s) + 1, Len(t))
<1>0. Len(s) \in Nat /\ Len(t) \in Nat  OBVIOUS
<1>1. u \in Seq(Nat) /\ Len(u) = (IF Len(t) > Len(s) THEN Len(t) - Len(s) ELSE 0)
      /\ \A i \in 1..Len(t) - Len(s) : u[i] = t[Len(s) + i]
  <2> DEFINE m == Len(s) + 1
             n == Len(t)
  <2>1. m \in Int /\ n \in Int  BY <1>0
  <2>2. \A i \in m..n : t[i] \in Nat  BY <1>0
  <2> HIDE DEF m, n
  <2>3. /\ SubSeq(t, m, n) \in Seq(Nat)
        /\ Len(SubSeq(t, m, n)) = IF m <= n THEN n - m + 1 ELSE 0
        /\ \A i \in 1..n - m + 1 : SubSeq(t, m, n)[i] = t[m + i - 1]
      BY <2>1, <2>2, SubSeqProperties
  <2>4. u = SubSeq(t, m, n)  BY DEF m, n
  <2>5. \A i \in 1..n - m + 1 : m + i - 1 = Len(s) + i  BY <1>0 DEF m, n
  <2> HIDE DEF u
  <2> QED  BY <1>0, <2>3, <2>4, <2>5 DEF m, n
<1> HIDE DEF u
<1>2. /\ s \o u \in Seq(Nat) /\ Len(s \o u) = Len(s) + Len(u)
      /\ \A i \in 1..Len(s) + Len(u) : (s \o u)[i] = IF i <= Len(s) THEN s[i] ELSE u[i - Len(s)]
    BY <1>1, ConcatProperties
<1>3. Len(s \o u) = IF Len(t) > Len(s) THEN Len(t) ELSE Len(s)  BY <1>0, <1>1, <1>2
<1>4. ASSUME Starts(s, t) PROVE s \o u = t
  <2>1. Len(s) <= Len(t) /\ Len(s \o u) = Len(t) /\ Len(s) + Len(u) = Len(t)
      BY <1>0, <1>1, <1>3, <1>4 DEF Starts
  <2>2. ASSUME NEW i \in 1..Len(t) PROVE (s \o u)[i] = t[i]
    <3>1. CASE i <= Len(s)  BY <1>0, <1>2, <1>4, <2>1, <3>1 DEF Starts
    <3>2. CASE i > Len(s)
      <4>1. i - Len(s) \in 1..Len(t) - Len(s) /\ Len(s) + (i - Len(s)) = i  BY <1>0, <3>2
      <4>2. u[i - Len(s)] = t[i]  BY <1>1, <4>1
      <4> QED  BY <1>0, <1>2, <2>1, <3>2, <4>2
    <3>3. i <= Len(s) \/ i > Len(s)
      <4>1. i \in Nat  BY <1>0
      <4> HIDE DEF Text
      <4> QED  BY <1>0, <4>1
    <3> QED  BY <3>1, <3>2, <3>3, Zenon
  <2> DEFINE w == s \o u
  <2>3. w \in Seq(Nat) /\ Len(w) = Len(t) /\ \A i \in 1..Len(t) : w[i] = t[i]  BY <1>2, <2>1, <2>2
  <2> HIDE DEF w
  <2>4. w = t  BY <2>3, SeqEqual
  <2> QED  BY <2>4 DEF w
<1>5. Completed(s, t) = s \o u  BY DEF u, Completed
<1> QED  BY <1>2, <1>3, <1>4, <1>5

Numbered(ev) == \A i, j \in 1..Len(ev) : i < j => ev[i].seq < ev[j].seq

LEMMA NthIs == ASSUME NEW m \in Nat, NEW k \in 1..m PROVE Nth(1..m, k) = k
<1>1. ASSUME NEW i \in 1..m PROVE Cardinality({j \in 1..m : j <= i}) = i
  <2>1. {j \in 1..m : j <= i} = 1..i  OBVIOUS
  <2>2. 1 \in Int /\ i \in Int  OBVIOUS
  <2>3. Cardinality(1..i) = IF 1 > i THEN 0 ELSE i - 1 + 1  BY <2>2, FS_Interval
  <2>4. Cardinality(1..i) = i  BY <2>3
  <2> DEFINE S == {j \in 1..m : j <= i}
  <2>5. S = 1..i  BY <2>1
  <2> HIDE DEF S
  <2>6. Cardinality(S) = i  BY <2>4, <2>5
  <2> QED  BY <2>6 DEF S
<1>2. \A i \in 1..m : Cardinality({j \in 1..m : j <= i}) = k <=> i = k  BY <1>1
<1>3. k \in 1..m /\ \A i \in 1..m : Cardinality({j \in 1..m : j <= i}) = k => i = k  BY <1>2
<1>4. Cardinality({j \in 1..m : j <= k}) = k  BY <1>2
<1> DEFINE P(i) == Cardinality({j \in 1..m : j <= i}) = k
<1>5. P(k) /\ \A i \in 1..m : P(i) => i = k  BY <1>3, <1>4
<1> HIDE DEF P
<1>6. (CHOOSE i \in 1..m : P(i)) = k  BY <1>5
<1> QED  BY <1>6 DEF Nth, P

\* A page that shows the first events and is sent the others shows all.
LEMMA ShowsAll ==
  ASSUME NEW ev \in Seq(ChatEvent), Numbered(ev), NEW have \in Seq(ChatEvent), Len(have) <= Len(ev),
         \A i \in 1..Len(have) : have[i] = ev[i]
  PROVE  AddEvents(have, SubSeq(ev, Len(have) + 1, Len(ev))) = ev
<1> DEFINE new == SubSeq(ev, Len(have) + 1, Len(ev))
           m == Len(ev) - Len(have)
<1>0. Len(have) \in Nat /\ Len(ev) \in Nat /\ m \in Nat  OBVIOUS
<1>s. \A k \in 1..Len(ev) : ev[k].seq \in Nat
  <2>1. \A k \in 1..Len(ev) : ev[k] \in ChatEvent  OBVIOUS
  <2> QED  BY <2>1 DEF ChatEvent
<1>1. new \in Seq(ChatEvent) /\ Len(new) = m /\ \A i \in 1..m : new[i] = ev[Len(have) + i]
  <2> DEFINE a == Len(have) + 1
             b == Len(ev)
  <2>1. a \in Int /\ b \in Int  BY <1>0
  <2>2. \A i \in a..b : ev[i] \in ChatEvent  BY <1>0
  <2> HIDE DEF a, b
  <2>3. /\ SubSeq(ev, a, b) \in Seq(ChatEvent)
        /\ Len(SubSeq(ev, a, b)) = IF a <= b THEN b - a + 1 ELSE 0
        /\ \A i \in 1..b - a + 1 : SubSeq(ev, a, b)[i] = ev[a + i - 1]
      BY <2>1, <2>2, SubSeqProperties
  <2>4. new = SubSeq(ev, a, b)  BY DEF a, b
  <2>5. \A i \in 1..m : a + i - 1 = Len(have) + i  BY <1>0 DEF a
  <2>6. b - a + 1 = m /\ (a <= b \/ m = 0)  BY <1>0 DEF a, b
  <2> HIDE DEF new, m
  <2> QED  BY <1>0, <2>3, <2>4, <2>5, <2>6
<1> HIDE DEF new
<1>2. NewEvents(have, new) = 1..m
  <2>1. ASSUME NEW i \in 1..m, NEW k \in 1..Len(have) PROVE have[k].seq # new[i].seq
    <3>1. k \in 1..Len(ev) /\ Len(have) + i \in 1..Len(ev) /\ k < Len(have) + i  BY <1>0
    <3>2. ev[k].seq < ev[Len(have) + i].seq  BY <3>1 DEF Numbered
    <3>3. ev[k].seq \in Nat /\ ev[Len(have) + i].seq \in Nat  BY <1>s, <3>1
    <3>4. ev[k].seq # ev[Len(have) + i].seq  BY <3>2, <3>3
    <3> QED  BY <1>1, <3>4
  <2>2. ASSUME NEW i \in 1..m, NEW j \in 1..i - 1 PROVE new[j].seq # new[i].seq
    <3>1. /\ Len(have) + j \in 1..Len(ev) /\ Len(have) + i \in 1..Len(ev)
          /\ Len(have) + j < Len(have) + i /\ j \in 1..m
        BY <1>0
    <3>2. ev[Len(have) + j].seq < ev[Len(have) + i].seq  BY <3>1 DEF Numbered
    <3>3. ev[Len(have) + j].seq \in Nat /\ ev[Len(have) + i].seq \in Nat  BY <1>s, <3>1
    <3>4. ev[Len(have) + j].seq # ev[Len(have) + i].seq  BY <3>2, <3>3
    <3> QED  BY <1>1, <3>1, <3>4
  <2> HIDE DEF m
  <2> QED  BY <1>1, <2>1, <2>2 DEF NewEvents
<1>3. Cardinality(1..m) = m
  <2>1. 1 \in Int /\ m \in Int  BY <1>0
  <2> HIDE DEF m
  <2>2. Cardinality(1..m) = IF 1 > m THEN 0 ELSE m - 1 + 1  BY <2>1, FS_Interval
  <2> QED  BY <1>0, <2>2
<1>4. [k \in 1..Cardinality(NewEvents(have, new)) |-> new[Nth(NewEvents(have, new), k)]] = new
  <2> HIDE DEF m
  <2>0. m \in Nat  BY <1>0 DEF m
  <2>1. \A k \in 1..m : Nth(1..m, k) = k  BY <2>0, NthIs
  <2>2. [k \in 1..m |-> new[Nth(1..m, k)]] = [k \in 1..m |-> new[k]]  BY <2>1
  <2>3. new = [k \in 1..m |-> new[k]]  BY <1>0, <1>1
  <2> QED  BY <1>2, <1>3, <2>2, <2>3
<1>5. AddEvents(have, new) = have \o new  BY <1>4 DEF AddEvents
<1>6. /\ have \o new \in Seq(ChatEvent) /\ Len(have \o new) = Len(have) + m
      /\ \A i \in 1..Len(have) + m : (have \o new)[i] = IF i <= Len(have) THEN have[i] ELSE new[i - Len(have)]
    BY <1>1, ConcatProperties
<1>7. Len(have) + m = Len(ev)  BY <1>0
<1>8. ASSUME NEW i \in 1..Len(ev) PROVE (have \o new)[i] = ev[i]
  <2>1. CASE i <= Len(have)  BY <1>6, <1>7, <2>1
  <2>2. CASE i > Len(have)
    <3>1. i - Len(have) \in 1..m /\ Len(have) + (i - Len(have)) = i  BY <1>0, <2>2
    <3>2. new[i - Len(have)] = ev[i]  BY <1>1, <3>1
    <3>3. ~(i <= Len(have))  BY <1>0, <2>2
    <3> HIDE DEF m
    <3> QED  BY <1>6, <1>7, <3>2, <3>3
  <2>3. i <= Len(have) \/ i > Len(have)  BY <1>0
  <2> QED  BY <2>1, <2>2, <2>3, Zenon
<1> DEFINE w == have \o new
<1>9. w \in Seq(ChatEvent) /\ Len(w) = Len(ev) /\ \A i \in 1..Len(ev) : w[i] = ev[i]  BY <1>6, <1>7, <1>8
<1> HIDE DEF w
<1>10. w = ev  BY <1>9, SeqEqual
<1> QED  BY <1>5, <1>10 DEF w, new

ChatRows == {"queued", "running", "complete", "crashed"}
NotRead == seen = <<>>

ChatTypes ==
    /\ row \in ChatRows /\ response \in Text /\ content \in Text
    /\ chatEvents \in Seq(ChatEvent) /\ pieces \in Nat /\ drops \in Nat /\ chatWalls \in Nat
    /\ chatTurn \in [seq : Nat, text : Text, ours : BOOLEAN, on : BOOLEAN]
    /\ route \in [on : BOOLEAN, size : Nat, cursor : Nat]
    /\ seen \in {<<>>} \cup (ChatRows \X Text)
    /\ ended \in BOOLEAN /\ chatLate \in BOOLEAN

\* A message that runs is of the turn; the stream is one or over, then only results come.
ChatShape ==
    /\ chatTurn.ours <=> row = "running"
    /\ chatTurn.ours => chatTurn.on
    /\ row = "queued" => chatEvents = <<>> /\ response = <<>>
    /\ route.on => polls = 0 /\ ~ended /\ route.size = Len(content)
    /\ ~route.on => NotRead

\* The response is of the turn's text, what a poll has read of it, and what the page shows
\* of it, its start; a poll that has read the outcome has read the reply.
TextOk ==
    /\ row = "running" => Starts(response, chatTurn.text)
    /\ row # "crashed" => Starts(content, response)
    /\ row # "crashed" /\ ~NotRead => Starts(seen[2], response) /\ Starts(content, seen[2])
    /\ ~NotRead /\ seen[1] \in {"complete", "crashed"} => row = seen[1] /\ response = seen[2]
    /\ ~route.on /\ ended /\ ~chatLate => Terminal /\ (row = "complete" => content = response)

\* The events carry growing numbers, and the page has taken those before the cursor.
EventsOk ==
    /\ Numbered(chatEvents)
    /\ row = "running" => \A i \in 1..Len(chatEvents) : chatEvents[i].seq <= chatTurn.seq
    /\ drops = 0 => /\ shown \in Seq(ChatEvent) /\ Len(shown) <= Len(chatEvents)
                    /\ \A i \in 1..Len(shown) : shown[i] = chatEvents[i]
                    /\ route.cursor = Len(shown)
                    /\ ~route.on => Terminal /\ shown = chatEvents

ChatInv ==
    /\ ChatTypes
    /\ chatWalls = 0 => ChatShape /\ TextOk /\ EventsOk

LEMMA ChatStarts == ChatInit => ChatInv
<1> SUFFICES ASSUME ChatInit PROVE ChatInv  OBVIOUS
<1> USE DEF ChatInit
<1>0. <<>> \in Text /\ <<>> \in Seq(ChatEvent) /\ Len(<<>>) = 0  BY DEF Text
<1>1. ChatTypes
  <2>1. chatTurn \in [seq : Nat, text : Text, ours : BOOLEAN, on : BOOLEAN]  BY <1>0 DEF NoChatTurn
  <2>2. response \in Text /\ content \in Text /\ chatEvents \in Seq(ChatEvent)  BY <1>0
  <2>3. route \in [on : BOOLEAN, size : Nat, cursor : Nat]  OBVIOUS
  <2>4. row \in ChatRows /\ seen = <<>>  BY DEF ChatRows
  <2> QED  BY <2>1, <2>2, <2>3, <2>4 DEF ChatTypes
<1>2. ChatShape  BY <1>0 DEF ChatShape, NoChatTurn, NotRead
<1>3. TextOk  BY <1>0 DEF TextOk, NotRead, Starts
<1>4. EventsOk  BY <1>0 DEF EventsOk, Numbered
<1> QED  BY <1>1, <1>2, <1>3, <1>4 DEF ChatInv

\* What a turn writes the page does not see before it polls.
LEMMA TurnSteps ==
  ASSUME ChatInv,
         \/ \E ours \in BOOLEAN : ChatBegin(ours)
         \/ Joins
         \/ \E isText \in BOOLEAN : Block(isText)
         \/ \E how \in {"reply", "error", "wall"} : Finish(how)
  PROVE  ChatInv'
<1>t. ChatTypes  BY DEF ChatInv
<1> DEFINE TurnType == [seq : Nat, text : Text, ours : BOOLEAN, on : BOOLEAN]
<1>p. UNCHANGED <<route, seen, content, shown, ended, polls, drops, chatLate>>
    BY DEF ChatBegin, Joins, Block, Finish, page
<1>e. <<>> \in Text /\ Len(<<>>) = 0  BY DEF Text
<1>1. ASSUME NEW ours \in BOOLEAN, ChatBegin(ours) PROVE ChatInv'
  <2>1. /\ ~chatTurn.on /\ row = "queued"
        /\ chatTurn' = [NoChatTurn EXCEPT !.on = TRUE, !.ours = ours]
        /\ row' = IF ours THEN "running" ELSE row
        /\ UNCHANGED <<response, chatEvents, chatWalls, pieces>>
      BY <1>1 DEF ChatBegin
  <2>2. chatTurn' \in TurnType /\ chatTurn'.on /\ chatTurn'.ours = ours
      BY <1>e, <2>1 DEF NoChatTurn
  <2>3. ChatTypes'  BY <1>t, <1>p, <2>1, <2>2 DEF ChatTypes, ChatRows
  <2>4. ASSUME chatWalls = 0 PROVE (ChatShape /\ TextOk /\ EventsOk)'
    <3>1. ChatShape /\ TextOk /\ EventsOk  BY <2>4 DEF ChatInv
    <3>2. response = <<>> /\ chatEvents = <<>>  BY <2>1, <3>1 DEF ChatShape
    <3>3. ChatShape'  BY <1>p, <2>1, <2>2, <3>1 DEF ChatShape, NotRead
    <3>4. TextOk'
      <4>1. Starts(response, chatTurn'.text)
        <5>1. chatTurn'.text = <<>>  BY <2>1 DEF NoChatTurn
        <5> QED  BY <1>e, <3>2, <5>1 DEF Starts
      <4>2. ~Terminal /\ row' \notin {"complete", "crashed"}  BY <2>1 DEF Terminal
      <4>3. ~NotRead => seen[1] \notin {"complete", "crashed"}  BY <2>1, <3>1 DEF TextOk
      <4> QED  BY <1>p, <2>1, <3>1, <4>1, <4>2, <4>3 DEF TextOk, NotRead, Terminal
    <3>5. EventsOk'
      <4>1. Len(chatEvents) = 0  BY <1>e, <3>2
      <4>2. ~Terminal  BY <2>1 DEF Terminal
      <4> QED  BY <1>p, <2>1, <3>1, <4>1, <4>2 DEF EventsOk, Numbered
    <3> QED  BY <3>3, <3>4, <3>5
  <2> QED  BY <2>1, <2>3, <2>4 DEF ChatInv
<1>2. ASSUME Joins PROVE ChatInv'
  <2>1. /\ row = "queued" /\ row' = "running" /\ chatTurn' = [chatTurn EXCEPT !.ours = TRUE]
        /\ UNCHANGED <<response, chatEvents, chatWalls, pieces>> /\ chatTurn.on
      BY <1>2 DEF Joins
  <2>2. chatTurn' \in TurnType /\ chatTurn'.on /\ chatTurn'.ours /\ chatTurn'.text \in Text
      BY <1>t, <2>1 DEF ChatTypes
  <2>3. ChatTypes'  BY <1>t, <1>p, <2>1, <2>2 DEF ChatTypes, ChatRows
  <2>4. ASSUME chatWalls = 0 PROVE (ChatShape /\ TextOk /\ EventsOk)'
    <3>1. ChatShape /\ TextOk /\ EventsOk  BY <2>4 DEF ChatInv
    <3>2. response = <<>> /\ chatEvents = <<>>  BY <2>1, <3>1 DEF ChatShape
    <3>3. ChatShape'  BY <1>p, <2>1, <2>2, <3>1 DEF ChatShape, NotRead
    <3>4. TextOk'
      <4>1. Starts(response, chatTurn'.text)
        <5>1. Len(chatTurn'.text) >= 0  BY <2>2 DEF Text
        <5> QED  BY <1>e, <3>2, <5>1 DEF Starts
      <4>2. ~Terminal /\ row' \notin {"complete", "crashed"}  BY <2>1 DEF Terminal
      <4>3. ~NotRead => seen[1] \notin {"complete", "crashed"}  BY <2>1, <3>1 DEF TextOk
      <4> QED  BY <1>p, <2>1, <3>1, <4>1, <4>2, <4>3 DEF TextOk, NotRead, Terminal
    <3>5. EventsOk'
      <4>1. Len(chatEvents) = 0  BY <1>e, <3>2
      <4>2. ~Terminal  BY <2>1 DEF Terminal
      <4> QED  BY <1>p, <2>1, <3>1, <4>1, <4>2 DEF EventsOk, Numbered
    <3> QED  BY <3>3, <3>4, <3>5
  <2> QED  BY <2>1, <2>3, <2>4 DEF ChatInv
<1>3. ASSUME NEW isText \in BOOLEAN, Block(isText) PROVE ChatInv'
  <2> DEFINE n == pieces + 1
             text == IF isText THEN Append(chatTurn.text, n) ELSE chatTurn.text
             ev == [seq |-> chatTurn.seq + 1, n |-> n]
  <2>1. /\ chatTurn.on /\ pieces' = n /\ chatTurn' = [chatTurn EXCEPT !.seq = @ + 1, !.text = text]
        /\ chatEvents' = Written(ev)
        /\ response' = IF isText THEN Streamed(text) ELSE response
        /\ UNCHANGED <<row, chatWalls>>
      BY <1>3 DEF Block
  <2>2. n \in Nat /\ chatTurn.text \in Text /\ chatTurn.seq \in Nat  BY <1>t DEF ChatTypes
  <2>3. text \in Text  BY <2>2 DEF Text
  <2>4. ev \in ChatEvent /\ ev.seq = chatTurn.seq + 1  BY <2>2 DEF ChatEvent
  <2>5. Starts(chatTurn.text, text) /\ \A s \in Text : Starts(s, chatTurn.text) => Starts(s, text)
    <3>1. CASE isText  BY <2>2, <3>1, StartsMore DEF Text, Starts
    <3>2. CASE ~isText  BY <2>2, <3>2 DEF Text, Starts
    <3> QED  BY <3>1, <3>2
  <2> HIDE DEF text, ev, n
  <2>6. /\ chatTurn' \in TurnType /\ chatTurn'.on = chatTurn.on /\ chatTurn'.ours = chatTurn.ours
        /\ chatTurn'.text = text /\ chatTurn'.seq = chatTurn.seq + 1
    <3>1. chatTurn \in TurnType  BY <1>t DEF ChatTypes
    <3>2. chatTurn' = [chatTurn EXCEPT !.seq = chatTurn.seq + 1, !.text = text]  BY <2>1, <3>1
    <3>3. chatTurn.seq + 1 \in Nat  BY <2>2
    <3> QED  BY <2>3, <3>1, <3>2, <3>3
  <2>7. ChatTypes'
    <3>1. chatEvents' \in Seq(ChatEvent)  BY <1>t, <2>1, <2>4 DEF ChatTypes, Written
    <3>2. response' \in Text  BY <1>t, <2>1, <2>3 DEF ChatTypes, Streamed
    <3> QED  BY <1>t, <1>p, <2>1, <2>2, <2>6, <3>1, <3>2 DEF ChatTypes
  <2>8. ASSUME chatWalls = 0 PROVE (ChatShape /\ TextOk /\ EventsOk)'
    <3>1. ChatShape /\ TextOk /\ EventsOk  BY <2>8 DEF ChatInv
    <3>2. row = "queued" => UNCHANGED <<chatEvents, response>>
        BY <2>1, <3>1 DEF ChatShape, Written, Streamed
    <3>3. ChatShape'  BY <1>p, <2>1, <2>6, <3>1, <3>2 DEF ChatShape, NotRead
    <3>4. TextOk'
      <4>0. row # "running" => response' = response  BY <2>1, <3>1 DEF ChatShape, Streamed
      <4>1. row = "running" => Starts(response, response') /\ Starts(response', text)
        <5> SUFFICES ASSUME row = "running" PROVE Starts(response, response') /\ Starts(response', text)
            OBVIOUS
        <5>1. Starts(response, chatTurn.text) /\ response \in Text  BY <1>t, <3>1 DEF TextOk, ChatTypes
        <5>2. Starts(response, text)  BY <2>5, <5>1
        <5>3. Starts(response, response) /\ Starts(text, text)  BY <2>3, <5>1 DEF Starts, Text
        <5>4. response' \in {response, text}  BY <2>1 DEF Streamed
        <5> QED  BY <5>2, <5>3, <5>4
      <4>2. Starts(response, response')
        <5>1. Starts(response, response)  BY <1>t DEF Starts, Text, ChatTypes
        <5> QED  BY <4>0, <4>1, <5>1
      <4>3. row # "crashed" => Starts(content, response')
          BY <1>t, <2>7, <3>1, <4>2, SameStart DEF TextOk, ChatTypes
      <4>4. row # "crashed" /\ ~NotRead => Starts(seen[2], response') /\ Starts(content, seen[2])
        <5> SUFFICES ASSUME row # "crashed", ~NotRead
                     PROVE  Starts(seen[2], response') /\ Starts(content, seen[2])
            OBVIOUS
        <5>1. seen[2] \in Text  BY <1>t DEF ChatTypes, NotRead
        <5>2. response \in Text /\ response' \in Text  BY <1>t, <2>7 DEF ChatTypes
        <5>3. Starts(seen[2], response) /\ Starts(content, seen[2])  BY <3>1 DEF TextOk
        <5> QED  BY <4>2, <5>1, <5>2, <5>3, SameStart
      <4>5. ~NotRead /\ seen[1] \in {"complete", "crashed"} => row = seen[1] /\ response' = seen[2]
          BY <3>1, <4>0 DEF TextOk
      <4>6. ~route.on /\ ended /\ ~chatLate => Terminal /\ (row = "complete" => content = response')
          BY <3>1, <4>0 DEF TextOk, Terminal
      <4> QED  BY <1>p, <2>1, <2>6, <4>1, <4>3, <4>4, <4>5, <4>6 DEF TextOk, NotRead, Terminal
    <3>5. EventsOk'
      <4>1. CASE row # "running"
        <5>1. chatEvents' = chatEvents  BY <2>1, <3>1, <4>1 DEF ChatShape, Written
        <5> QED  BY <1>p, <2>1, <3>1, <4>1, <5>1 DEF EventsOk, Numbered, Terminal
      <4>2. CASE row = "running"
        <5>1. chatEvents' = Append(chatEvents, ev) /\ ~Terminal
            BY <2>1, <3>1, <4>2 DEF ChatShape, Written, Terminal
        <5>2. chatEvents \in Seq(ChatEvent)  BY <1>t DEF ChatTypes
        <5> DEFINE l == Len(chatEvents)
        <5>3. /\ l \in Nat /\ Len(chatEvents') = l + 1 /\ chatEvents'[l + 1] = ev
              /\ \A i \in 1..l : chatEvents'[i] = chatEvents[i]
            BY <2>4, <5>1, <5>2
        <5>4. \A i \in 1..l : chatEvents[i].seq \in Nat /\ chatEvents[i].seq <= chatTurn.seq
          <6>1. \A i \in 1..l : chatEvents[i] \in ChatEvent  BY <5>2
          <6> QED  BY <3>1, <4>2, <6>1 DEF EventsOk, ChatEvent
        <5>5. Numbered(chatEvents)  BY <3>1 DEF EventsOk
        <5> HIDE DEF l
        <5>6. ASSUME NEW i \in 1..l + 1 PROVE chatEvents'[i].seq <= chatTurn.seq + 1
          <6>1. CASE i \in 1..l  BY <2>2, <5>3, <5>4, <6>1
          <6>2. CASE i = l + 1  BY <2>2, <2>4, <5>3, <6>2
          <6> QED  BY <5>3, <6>1, <6>2
        <5>7. ASSUME NEW i \in 1..l + 1, NEW j \in 1..l + 1, i < j
              PROVE  chatEvents'[i].seq < chatEvents'[j].seq
          <6>1. i \in 1..l  BY <5>3, <5>7
          <6>2. CASE j \in 1..l
            <7>1. chatEvents[i].seq < chatEvents[j].seq  BY <5>5, <5>7, <6>1, <6>2 DEF Numbered, l
            <7> QED  BY <5>3, <6>1, <6>2, <7>1
          <6>3. CASE j = l + 1
            <7>1. chatEvents'[i].seq = chatEvents[i].seq /\ chatEvents'[j].seq = chatTurn.seq + 1
                BY <2>4, <5>3, <6>1, <6>3
            <7> QED  BY <2>2, <5>4, <6>1, <7>1
          <6> QED  BY <5>3, <6>2, <6>3
        <5>8. \A i, j \in 1..Len(chatEvents') : i < j => chatEvents'[i].seq < chatEvents'[j].seq
            BY <5>3, <5>7
        <5>9. drops = 0 =>
                /\ shown \in Seq(ChatEvent) /\ Len(shown) <= l + 1
                /\ \A i \in 1..Len(shown) : shown[i] = chatEvents'[i]
                /\ route.cursor = Len(shown) /\ route.on
          <6> SUFFICES ASSUME drops = 0
                       PROVE  /\ shown \in Seq(ChatEvent) /\ Len(shown) <= l + 1
                              /\ \A i \in 1..Len(shown) : shown[i] = chatEvents'[i]
                              /\ route.cursor = Len(shown) /\ route.on
              OBVIOUS
          <6>1. /\ shown \in Seq(ChatEvent) /\ Len(shown) <= l
                /\ \A i \in 1..Len(shown) : shown[i] = chatEvents[i]
                /\ route.cursor = Len(shown) /\ route.on
              BY <3>1, <5>1 DEF EventsOk, l
          <6>2. Len(shown) \in Nat  BY <6>1
          <6> QED  BY <5>3, <6>1, <6>2
        <5>10. \A i \in 1..Len(chatEvents') : chatEvents'[i].seq <= chatTurn'.seq
            BY <2>6, <5>3, <5>6
        <5>11. Len(chatEvents') = l + 1  BY <5>3
        <5>12. drops' = 0 =>
                 /\ shown' \in Seq(ChatEvent) /\ Len(shown') <= Len(chatEvents')
                 /\ \A i \in 1..Len(shown') : shown'[i] = chatEvents'[i]
                 /\ route'.cursor = Len(shown') /\ route'.on
          <6>1. shown' = shown /\ route' = route /\ drops' = drops  BY <1>p
          <6> QED  BY <5>9, <5>11, <6>1
        <5> QED  BY <5>8, <5>10, <5>12 DEF EventsOk, Numbered
      <4> QED  BY <4>1, <4>2
    <3> QED  BY <3>3, <3>4, <3>5
  <2> QED  BY <2>1, <2>7, <2>8 DEF ChatInv
<1>4. ASSUME NEW how \in {"reply", "error", "wall"}, Finish(how) PROVE ChatInv'
  <2>1. /\ chatTurn.on /\ chatTurn' = NoChatTurn /\ UNCHANGED <<chatEvents, pieces>>
        /\ chatWalls' = IF chatTurn.ours /\ how = "wall" THEN chatWalls + 1 ELSE chatWalls
        /\ IF ~chatTurn.ours THEN UNCHANGED <<row, response>>
           ELSE \/ how = "reply" /\ row' = "complete" /\ response' = chatTurn.text
                \/ how = "error" /\ row' = "crashed" /\ response' = ErrorText
                \/ how = "wall" /\ row' = "queued" /\ UNCHANGED response
      BY <1>4 DEF Finish
  <2>2. chatTurn' \in TurnType /\ ~chatTurn'.on /\ ~chatTurn'.ours  BY <1>e, <2>1 DEF NoChatTurn
  <2>3. ChatTypes'
    <3>1. row' \in ChatRows  BY <1>t, <2>1 DEF ChatTypes, ChatRows
    <3>2. response' \in Text
      <4>1. ErrorText \in Text  BY DEF ErrorText, Text
      <4>2. chatTurn.text \in Text /\ response \in Text  BY <1>t DEF ChatTypes
      <4> QED  BY <2>1, <4>1, <4>2
    <3>3. chatWalls' \in Nat  BY <1>t, <2>1 DEF ChatTypes
    <3> QED  BY <1>t, <1>p, <2>1, <2>2, <3>1, <3>2, <3>3 DEF ChatTypes
  <2>4. ASSUME chatWalls' = 0 PROVE chatWalls = 0 /\ (ChatShape /\ TextOk /\ EventsOk)'
    <3>0. chatWalls = 0 /\ ~(chatTurn.ours /\ how = "wall")  BY <1>t, <2>1, <2>4 DEF ChatTypes
    <3>1. ChatShape /\ TextOk /\ EventsOk  BY <3>0 DEF ChatInv
    <3>2. row' # "running" /\ (row' = "queued" => row = "queued" /\ response' = response)
        BY <2>1, <3>0, <3>1 DEF ChatShape
    <3>3. ChatShape'  BY <1>p, <2>1, <2>2, <3>1, <3>2 DEF ChatShape, NotRead
    <3>4. row # "running" => UNCHANGED <<row, response>>  BY <2>1, <3>1 DEF ChatShape
    <3>5. row = "running" => row' = "crashed" \/ (row' = "complete" /\ Starts(response, response'))
        BY <2>1, <3>0, <3>1 DEF ChatShape, TextOk
    <3>6. response \in Text /\ content \in Text /\ response' \in Text /\ (~NotRead => seen[2] \in Text)
        BY <1>t, <2>3 DEF ChatTypes, NotRead
    <3>7. TextOk'
      <4>1. row' # "crashed" => Starts(response, response')
        <5>1. Starts(response, response)  BY <3>6 DEF Starts, Text
        <5> QED  BY <3>4, <3>5, <5>1
      <4>2. row' # "crashed" => row # "crashed"  BY <3>4
      <4>3. row' # "crashed" => Starts(content, response')
          BY <3>1, <3>6, <4>1, <4>2, SameStart DEF TextOk
      <4>4. row' # "crashed" /\ ~NotRead => Starts(seen[2], response') /\ Starts(content, seen[2])
        <5> SUFFICES ASSUME row' # "crashed", ~NotRead
                     PROVE  Starts(seen[2], response') /\ Starts(content, seen[2])
            OBVIOUS
        <5>1. Starts(seen[2], response) /\ Starts(content, seen[2])  BY <3>1, <4>2 DEF TextOk
        <5> QED  BY <3>6, <4>1, <5>1, SameStart
      <4>5. ~NotRead /\ seen[1] \in {"complete", "crashed"} => row' = seen[1] /\ response' = seen[2]
          BY <3>1, <3>4 DEF TextOk
      <4>6. ~route.on /\ ended /\ ~chatLate => Terminal' /\ (row' = "complete" => content = response')
          BY <3>1, <3>4 DEF TextOk, Terminal
      <4> QED  BY <1>p, <3>2, <4>3, <4>4, <4>5, <4>6 DEF TextOk, NotRead
    <3>8. EventsOk'
      <4>1. Terminal => Terminal'  BY <3>4 DEF Terminal
      <4> QED  BY <1>p, <2>1, <3>1, <3>2, <4>1 DEF EventsOk
    <3> QED  BY <3>0, <3>3, <3>7, <3>8
  <2> QED  BY <2>3, <2>4 DEF ChatInv
<1> QED  BY <1>1, <1>2, <1>3, <1>4

\* What the page does the turn does not see.
LEMMA PageSteps ==
  ASSUME ChatInv, PollRow \/ PollRest \/ RouteTimeout \/ Breaks \/ AskResult
  PROVE  ChatInv'
<1>t. ChatTypes  BY DEF ChatInv
<1>s. UNCHANGED <<row, response, chatEvents, chatTurn, chatWalls, pieces>>
    BY DEF PollRow, PollRest, RouteTimeout, Breaks, AskResult, server
<1>w. /\ row \in ChatRows /\ response \in Text /\ content \in Text /\ chatEvents \in Seq(ChatEvent)
      /\ drops \in Nat /\ route \in [on : BOOLEAN, size : Nat, cursor : Nat]
      /\ seen \in {<<>>} \cup (ChatRows \X Text)
    BY <1>t DEF ChatTypes
<1>r. Starts(response, response)  BY <1>w DEF Starts, Text
<1>f. ASSUME route' \in [on : BOOLEAN, size : Nat, cursor : Nat], content' \in Text, drops' \in Nat,
             seen' \in {<<>>} \cup (ChatRows \X Text), ended' \in BOOLEAN, chatLate' \in BOOLEAN,
             chatWalls = 0 => (ChatShape /\ TextOk /\ EventsOk)'
      PROVE  ChatInv'
  <2>1. ChatTypes'  BY <1>f, <1>s, <1>t DEF ChatTypes
  <2> QED  BY <1>f, <1>s, <2>1 DEF ChatInv
<1>1. CASE PollRow
  <2>1. /\ route.on /\ seen = <<>> /\ seen' = <<row, response>>
        /\ UNCHANGED <<route, content, shown, ended, polls, drops, chatLate>>
      BY <1>1 DEF PollRow
  <2>2. seen' \in ChatRows \X Text /\ seen' # <<>> /\ seen'[1] = row /\ seen'[2] = response
      BY <1>w, <2>1
  <2>3. ASSUME chatWalls = 0 PROVE (ChatShape /\ TextOk /\ EventsOk)'
    <3>1. ChatShape /\ TextOk /\ EventsOk  BY <2>3 DEF ChatInv
    <3>2. ChatShape'  BY <1>s, <2>1, <2>2, <3>1 DEF ChatShape, NotRead
    <3>3. TextOk'
      <4>1. row # "crashed" => Starts(content, response)  BY <3>1 DEF TextOk
      <4>2. row = "running" => Starts(response, chatTurn.text)  BY <3>1 DEF TextOk
      <4>3. ~(~route.on)  BY <2>1
      <4> QED  BY <1>r, <1>s, <2>1, <2>2, <4>1, <4>2, <4>3 DEF TextOk, NotRead, Terminal
    <3>4. EventsOk'  BY <1>s, <2>1, <3>1 DEF EventsOk, Numbered, Terminal
    <3> QED  BY <3>2, <3>3, <3>4
  <2> QED  BY <1>f, <1>t, <2>1, <2>2, <2>3 DEF ChatTypes
<1>2. CASE PollRest
  <2> DEFINE text == seen[2]
             isOver == seen[1] \in {"complete", "crashed"}
  <2>1. /\ route.on /\ seen # <<>> /\ seen' = <<>>
        /\ shown' = AddEvents(shown, After(chatEvents))
        /\ content' = content \o SubSeq(text, route.size + 1, Len(text))
        /\ route' = [on |-> ~isOver, size |-> IF Len(text) > route.size THEN Len(text) ELSE route.size,
                     cursor |-> Len(chatEvents)]
        /\ ended' = isOver /\ polls' = (IF isOver THEN 1 ELSE 0)
        /\ UNCHANGED <<drops, chatLate>>
      BY <1>2 DEF PollRest
  <2>2. text \in Text /\ isOver \in BOOLEAN  BY <1>w, <2>1
  <2> HIDE DEF text, isOver
  <2>3. route' \in [on : BOOLEAN, size : Nat, cursor : Nat]
    <3>1. Len(text) \in Nat /\ Len(chatEvents) \in Nat /\ route.size \in Nat  BY <1>w, <2>2 DEF Text
    <3> QED  BY <2>1, <2>2, <3>1
  <2>4. content' \in Text
    <3>1. route.size + 1 \in Int /\ Len(text) \in Int  BY <1>w, <2>2 DEF Text
    <3>2. \A i \in route.size + 1 .. Len(text) : text[i] \in Nat  BY <1>w, <2>2 DEF Text
    <3>3. SubSeq(text, route.size + 1, Len(text)) \in Seq(Nat)  BY <3>1, <3>2, SubSeqProperties
    <3> QED  BY <1>w, <2>1, <3>3, ConcatProperties DEF Text
  <2>5. ASSUME chatWalls = 0 PROVE (ChatShape /\ TextOk /\ EventsOk)'
    <3>1. ChatShape /\ TextOk /\ EventsOk  BY <2>5 DEF ChatInv
    <3>2. content' = Completed(content, text) /\ route.size = Len(content)
        BY <2>1, <3>1 DEF ChatShape, Completed
    <3>3. /\ Len(content') = IF Len(text) > Len(content) THEN Len(text) ELSE Len(content)
          /\ Starts(content, text) => content' = text
        BY <1>w, <2>2, <3>2, Completes
    <3>4. isOver => row \in {"complete", "crashed"} /\ response = text
        BY <2>1, <3>1 DEF TextOk, NotRead, text, isOver
    <3>5. row # "crashed" => Starts(text, response) /\ Starts(content, text)
        BY <2>1, <3>1 DEF TextOk, NotRead, text
    <3>6. route'.on = ~isOver /\ route'.size = Len(content') /\ route'.cursor = Len(chatEvents)
        BY <2>1, <3>2, <3>3
    <3>7. ChatShape'
      <4>1. route'.on => polls' = 0 /\ ~ended'  BY <2>1, <3>6
      <4> QED  BY <1>s, <2>1, <3>1, <3>6, <4>1 DEF ChatShape, NotRead
    <3>8. TextOk'
      <4>1. row # "crashed" => Starts(content', response)  BY <3>3, <3>5
      <4>2. row = "running" => Starts(response, chatTurn.text)  BY <3>1 DEF TextOk
      <4>3. ended' => Terminal /\ (row = "complete" => content' = response)
          BY <2>1, <3>3, <3>4, <3>5 DEF Terminal
      <4> QED  BY <1>s, <2>1, <4>1, <4>2, <4>3 DEF TextOk, NotRead, Terminal
    <3>9. EventsOk'
      <4>1. drops = 0 => shown' = chatEvents
        <5> SUFFICES ASSUME drops = 0 PROVE shown' = chatEvents  OBVIOUS
        <5>1. /\ shown \in Seq(ChatEvent) /\ Len(shown) <= Len(chatEvents) /\ Numbered(chatEvents)
              /\ \A i \in 1..Len(shown) : shown[i] = chatEvents[i]
              /\ route.cursor = Len(shown)
            BY <3>1 DEF EventsOk
        <5>2. AddEvents(shown, SubSeq(chatEvents, Len(shown) + 1, Len(chatEvents))) = chatEvents
            BY <1>w, <5>1, ShowsAll
        <5> QED  BY <2>1, <5>1, <5>2 DEF After
      <4>2. Len(chatEvents) \in Nat  BY <1>w
      <4>3. ~route'.on => Terminal  BY <3>4, <3>6 DEF Terminal
      <4>4. drops' = 0 =>
              /\ shown' \in Seq(ChatEvent) /\ Len(shown') <= Len(chatEvents')
              /\ \A i \in 1..Len(shown') : shown'[i] = chatEvents'[i]
              /\ route'.cursor = Len(shown')
              /\ ~route'.on => Terminal' /\ shown' = chatEvents'
          BY <1>s, <1>w, <2>1, <3>6, <4>1, <4>2, <4>3 DEF Terminal
      <4>5. Numbered(chatEvents)' /\ (row' = "running" =>
              \A i \in 1..Len(chatEvents') : chatEvents'[i].seq <= chatTurn'.seq)
          BY <1>s, <3>1 DEF EventsOk, Numbered
      <4> QED  BY <4>4, <4>5 DEF EventsOk
    <3> QED  BY <3>7, <3>8, <3>9
  <2> QED  BY <1>f, <1>t, <1>w, <2>1, <2>2, <2>3, <2>4, <2>5 DEF ChatTypes
<1>3. CASE RouteTimeout \/ Breaks
  <2>1. /\ route.on /\ drops' = drops + 1 /\ route' = [route EXCEPT !.on = FALSE] /\ seen' = <<>>
        /\ UNCHANGED <<content, shown>>
        /\ \/ chatLate' = TRUE /\ ended' = TRUE
           \/ chatLate' = chatLate /\ ended' = ended
      BY <1>3 DEF RouteTimeout, Breaks
  <2>2. route' \in [on : BOOLEAN, size : Nat, cursor : Nat] /\ ~route'.on  BY <1>w, <2>1
  <2>3. ended' \in BOOLEAN /\ chatLate' \in BOOLEAN  BY <1>t, <2>1 DEF ChatTypes
  <2>4. ASSUME chatWalls = 0 PROVE (ChatShape /\ TextOk /\ EventsOk)'
    <3>1. ChatShape /\ TextOk /\ EventsOk  BY <2>4 DEF ChatInv
    <3>2. ChatShape'  BY <1>s, <2>1, <2>2, <3>1 DEF ChatShape, NotRead
    <3>3. ~(ended' /\ ~chatLate')  BY <2>1, <3>1 DEF ChatShape
    <3>4. TextOk'  BY <1>s, <2>1, <3>1, <3>3 DEF TextOk, NotRead
    <3>5. drops' # 0  BY <1>w, <2>1
    <3>6. EventsOk'  BY <1>s, <3>1, <3>5 DEF EventsOk, Numbered
    <3> QED  BY <3>2, <3>4, <3>6
  <2> QED  BY <1>f, <1>w, <2>1, <2>2, <2>3, <2>4
<1>4. CASE AskResult
  <2>1. /\ polls > 0 /\ content' = Patched(response) /\ ended' = (ended \/ Terminal)
        /\ UNCHANGED <<route, seen, shown, drops, chatLate>>
      BY <1>4 DEF AskResult
  <2>2. content' \in {content, response}  BY <2>1 DEF Patched
  <2>3. content' \in Text /\ ended' \in BOOLEAN  BY <1>t, <1>w, <2>1, <2>2
  <2>4. ASSUME chatWalls = 0 PROVE (ChatShape /\ TextOk /\ EventsOk)'
    <3>1. ChatShape /\ TextOk /\ EventsOk  BY <2>4 DEF ChatInv
    <3>2. ~route.on /\ NotRead  BY <2>1, <3>1 DEF ChatShape
    <3>3. row # "crashed" => content' = response
      <4> SUFFICES ASSUME row # "crashed" PROVE content' = response  OBVIOUS
      <4>1. Starts(content, response)  BY <3>1 DEF TextOk
      <4>2. CASE Len(response) > Len(content)  BY <2>1, <4>2 DEF Patched
      <4>3. CASE ~(Len(response) > Len(content))
        <5>1. Len(response) = Len(content)  BY <1>w, <4>1, <4>3 DEF Starts, Text
        <5>2. content = response  BY <1>w, <4>1, <5>1, StartsAll
        <5> QED  BY <2>2, <5>2
      <4> QED  BY <4>2, <4>3
    <3>4. ChatShape'  BY <1>s, <2>1, <3>1, <3>2 DEF ChatShape, NotRead
    <3>5. TextOk'
      <4>1. row # "crashed" => Starts(content', response)  BY <1>r, <3>3
      <4>2. row = "running" => Starts(response, chatTurn.text)  BY <3>1 DEF TextOk
      <4>3. ended' /\ ~chatLate => Terminal  BY <2>1, <3>1, <3>2 DEF TextOk
      <4>4. row = "complete" => content' = response  BY <3>3
      <4> QED  BY <1>s, <2>1, <3>2, <4>1, <4>2, <4>3, <4>4 DEF TextOk, NotRead, Terminal
    <3>6. EventsOk'  BY <1>s, <2>1, <3>1 DEF EventsOk, Numbered, Terminal
    <3> QED  BY <3>4, <3>5, <3>6
  <2> QED  BY <1>f, <1>t, <1>w, <2>1, <2>3, <2>4 DEF ChatTypes
<1> QED  BY <1>1, <1>2, <1>3, <1>4

LEMMA ChatSteps == ChatInv /\ [ChatNext]_ChatVars => ChatInv'
<1> SUFFICES ASSUME ChatInv, [ChatNext]_ChatVars PROVE ChatInv'  OBVIOUS
<1>1. CASE UNCHANGED ChatVars
  <2>1. UNCHANGED <<row, response, chatEvents, chatTurn, chatWalls, pieces, route, seen, content,
                    shown, ended, polls, drops, chatLate>>
      BY <1>1 DEF ChatVars, server, page
  <2>2. ChatTypes => ChatTypes'  BY <2>1 DEF ChatTypes
  <2>3. ChatShape => ChatShape'  BY <2>1 DEF ChatShape, NotRead
  <2>4. TextOk => TextOk'  BY <2>1 DEF TextOk, NotRead, Terminal
  <2>5. EventsOk => EventsOk'  BY <2>1 DEF EventsOk, Numbered, Terminal
  <2> QED  BY <2>1, <2>2, <2>3, <2>4, <2>5 DEF ChatInv
<1>2. CASE ChatNext  BY <1>2, TurnSteps, PageSteps DEF ChatNext
<1> QED  BY <1>1, <1>2

LEMMA ChatSafe == ChatInv => EventsShown /\ ReplyShown
BY DEF ChatInv, ChatShape, TextOk, EventsOk, EventsShown, ReplyShown

-----------------------------------------------------------------------------
(* The agent server *)

\* A step of the agent server is a step or a stutter of each of its components.
LEMMA AgentsParts ==
  ASSUME [AgentsNext]_agentsVars
  PROVE  /\ [HiveNext]_HiveVars /\ [ShardsNext]_ShardsVars /\ [RecoveryNext]_RecoveryVars
         /\ [GatesNext]_GatesVars /\ [SessionNext]_SessionVars /\ [LifeNext]_LifeVars
         /\ [MembersNext]_MembersVars /\ [WedgeNext]_WedgeVars /\ [ReapNext]_ReapVars
         /\ [SwitchNext]_SwitchVars /\ [ToolNext]_ToolVars /\ [ChatNext]_ChatVars
BY DEF AgentsNext, agentsVars

\* For any shards, agents, calls, depths, deaths, walls and restarts: no shard waits for itself
\* through open calls, a queued call is one somebody wants or that has expired, and a call is
\* answered once (pick_callee, hive_cancel_call, hive_on_turn_end, expire, hive_startup_sweep).
THEOREM CallsAreRightHolds == AgentsSpec => []CallsAreRight
<1>1. AgentsInit => HiveInit  BY DEF AgentsInit
<1>2. [AgentsNext]_agentsVars => [HiveNext]_HiveVars  BY AgentsParts
<1>3. AgentsSpec => HiveSpec  BY <1>1, <1>2, PTL DEF AgentsSpec, HiveSpec
<1>4. HiveAssumption  BY AgentsAssumptions DEF AgentsAssumptions
<1>5. NoWaitCycle /\ QueuedIsWanted /\ OneReply => CallsAreRight  BY DEF CallsAreRight
<1> QED  BY <1>3, <1>4, <1>5, NoWaitCycleHolds, QueuedIsWantedHolds, OneReplyHolds, PTL

\* For any shards, channels, rows and deaths, without usage walls: a row is in one turn at a
\* time, a thief takes a channel's rows in their order, and shards at rest have left nothing
\* queued (drain_agent and claim_stolen of bin/agent-server.py and lib/queue_store.py).
THEOREM StealsAreRightHolds == ASSUME MaxWalls = 0 PROVE AgentsSpec => []StealsAreRight
<1>1. AgentsInit => ShardsInit  BY DEF AgentsInit
<1>2. [AgentsNext]_agentsVars => [ShardsNext]_ShardsVars  BY AgentsParts
<1>3. AgentsSpec => ShardsSpec  BY <1>1, <1>2, PTL DEF AgentsSpec, ShardsSpec
<1>4. ShardsAssumption  BY AgentsAssumptions DEF AgentsAssumptions
<1>5. OneTurnPerRow /\ StolenInOrder /\ ServedAtRest => StealsAreRight  BY DEF StealsAreRight
<1> QED  BY <1>3, <1>4, <1>5, OneTurnPerRowHolds, StolenInOrderHolds, ServedAtRestHolds, PTL

\* For any turns, rows, boots, failures and discards: a reply is one row of the outbox at most,
\* and the reply of a finished turn is on Discord, on its way or discarded by an operator
\* (startup_catchup, _enqueue_reply and the sweep of the direct path).
THEOREM RepliesSurviveHolds == AgentsSpec => []RepliesSurvive
<1>1. AgentsInit => RecoveryInit  BY DEF AgentsInit
<1>2. [AgentsNext]_agentsVars => [RecoveryNext]_RecoveryVars  BY AgentsParts
<1>3. AgentsSpec => RecoverySpec  BY <1>1, <1>2, PTL DEF AgentsSpec, RecoverySpec
<1>4. RecoveryAssumption  BY AgentsAssumptions DEF AgentsAssumptions
<1>5. OnceInOutbox /\ NoReplyLost => RepliesSurvive  BY DEF RepliesSurvive
<1> QED  BY <1>3, <1>4, <1>5, OnceInOutboxHolds, NoReplyLostHolds, PTL

\* For any shards, times, limits, rejections and pauses: a shard with rows that a breaker, a
\* budget, the governor or an operator defers has a timer that wakes it, a pause with an end is
\* looked at when it ends, and no call waits behind a paused shard (the gates of drain_agent).
THEOREM HeldAreWokenHolds == AgentsSpec => []HeldAreWoken
<1>a. GatesAssumption  BY AgentsAssumptions DEF AgentsAssumptions
<1>1. AgentsInit => GatesInv  BY <1>a, GatesStart DEF AgentsInit
<1>2. GatesInv /\ [AgentsNext]_agentsVars => GatesInv'  BY <1>a, AgentsParts, GatesSteps
<1>3. GatesInv => HeldAreWoken  BY GatesSafe DEF HeldAreWoken
<1> QED  BY <1>1, <1>2, <1>3, PTL DEF AgentsSpec

\* For any agents, edits of their configuration, invalid files, turns and spawns that fail, while
\* requests come one at a time and no 404 takes a new file in: once a request is answered a shard
\* has one process and a process its shard, and no row is left for nobody but one that a waiting
\* turn gives back (/register, /reload and sync_shards).
THEOREM MembersAgreeHolds == AgentsSpec => []MembersAgree
<1>a. MembersAssumption  BY AgentsAssumptions DEF AgentsAssumptions
<1>1. AgentsInit => MembersInv  BY <1>a, MembersStart DEF AgentsInit
<1>2. MembersInv /\ [AgentsNext]_agentsVars => MembersInv'  BY <1>a, AgentsParts, MembersSteps
<1>3. MembersInv => MembersAgree  BY <1>a, MembersSafe DEF MembersAgree
<1> QED  BY <1>1, <1>2, <1>3, PTL DEF AgentsSpec

\* For any processes, births, deaths and reuse of their numbers, and any shards, wedges and
\* faults: the reaper signals nothing outside the tree it was given and leaves nothing of it
\* alive, and an episode of a wedged shard pages once, unless a page that landed was not
\* remembered or the file dropped it
\* (lib/procreap.py and bin/wedge-check.py).
THEOREM KillsAndPagesAreSparedHolds == AgentsSpec => []KillsAndPagesAreSpared
<1>a. ReapAssumption /\ WedgeAssumption  BY AgentsAssumptions DEF AgentsAssumptions
<1>1. AgentsInit => ReapInv /\ WedgeInv  BY <1>a, ReapStart, WedgeStart DEF AgentsInit
<1>2. ReapInv /\ WedgeInv /\ [AgentsNext]_agentsVars => ReapInv' /\ WedgeInv'
    BY <1>a, AgentsParts, ReapSteps, WedgeSteps
<1>3. ReapInv /\ WedgeInv => KillsAndPagesAreSpared
    BY ReapSafe, WedgeSafe DEF KillsAndPagesAreSpared
<1> QED  BY <1>1, <1>2, <1>3, PTL DEF AgentsSpec

\* For any shards, handlers, changes, turns and deaths: a shard at rest runs with the latest change
\* or holds it for its next turn, unless a spawn that had read the older value was on its way as
\* the change came; only a turn that ended without its hooks, or past them, leaves a change waiting;
\* the followup's respawn meets no turn (the handlers of /effort and /model, effort_before_claim).
THEOREM ChangesAreUsedHolds == AgentsSpec => []ChangesAreUsed
<1>a. SwitchAssumption  BY AgentsAssumptions DEF AgentsAssumptions
<1>1. AgentsInit => SwitchInv  BY <1>a, SwitchStarts DEF AgentsInit
<1>2. SwitchInv /\ [AgentsNext]_agentsVars => SwitchInv'  BY <1>a, AgentsParts, SwitchSteps
<1>3. SwitchInv => ChangesAreUsed  BY SwitchSafe DEF ChangesAreUsed
<1> QED  BY <1>1, <1>2, <1>3, PTL DEF AgentsSpec

\* For any processes, exits, turns and operator requests that cross: a shard at rest that nobody
\* killed is up or told to be down, and a refused resume is survived (watch_process_exit and the
\* handlers of /reload, /reset and /kill).
THEOREM ShardsComeBackHolds == AgentsSpec => []ShardsComeBack
<1>a. LifecycleAssumption  BY AgentsAssumptions DEF AgentsAssumptions
<1>1. AgentsInit => LifeInv  BY <1>a, LifeStarts DEF AgentsInit
<1>2. LifeInv /\ [AgentsNext]_agentsVars => LifeInv'  BY <1>a, AgentsParts, LifeSteps
<1>3. LifeInv => ShardsComeBack  BY LifeSafe DEF ShardsComeBack
<1> QED  BY <1>1, <1>2, <1>3, PTL DEF AgentsSpec

\* For any tools, pace, limits and turns of any length: the lines of a turn keep their distance and
\* their number and stand in one thread, and a page that polls has every event and the reply, if
\* nothing was dropped (the tool_use branch of read_events and the event stream of the dashboard).
THEOREM TurnsAreShownHolds == AgentsSpec => []TurnsAreShown
<1>a. ToolAssumption  BY AgentsAssumptions DEF AgentsAssumptions
<1>1. AgentsInit => ToolInv /\ ChatInv  BY <1>a, ToolStarts, ChatStarts DEF AgentsInit
<1>2. ToolInv /\ ChatInv /\ [AgentsNext]_agentsVars => ToolInv' /\ ChatInv'
    BY <1>a, AgentsParts, ToolSteps, ChatSteps
<1>3. ToolInv /\ ChatInv => TurnsAreShown  BY <1>a, ToolSafe, ChatSafe DEF TurnsAreShown
<1> QED  BY <1>1, <1>2, <1>3, PTL DEF AgentsSpec

\* For any rows, reviews, crossings of the limits, effort changes, deaths and requests, where no
\* operator resets a shard: no person's message is answered by a session that has handed over, no
\* note is rotated away unread, two resets keep their interval, and at rest no reset, lock or claim
\* is left behind (begin_reset, do_reset, consume_handoff and the drain of a shard).
THEOREM SessionsCarryOverHolds == ASSUME MaxOperator = 0 PROVE AgentsSpec => []SessionsCarryOver
<1>a. SessionAssumption  BY AgentsAssumptions DEF AgentsAssumptions
<1>1. AgentsInit => SessionInv  BY <1>a, SessionStart DEF AgentsInit
<1>2. SessionInv /\ [AgentsNext]_agentsVars => SessionInv'  BY <1>a, AgentsParts, SessionSteps
<1>3. SessionInv => SessionsCarryOver  BY <1>a, SessionSafe DEF SessionsCarryOver
<1> QED  BY <1>1, <1>2, <1>3, PTL DEF AgentsSpec
=============================================================================
