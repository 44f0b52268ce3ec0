------------------------------ MODULE Recovery ------------------------------
(***************************************************************************)
(* Crash recovery of the agent server (crash_recovery and the end of       *)
(* finish_turn, with find_by_queue_id and find_for_reply of lib/outbox.py).*)
(*                                                                         *)
(* A turn answers a batch of rows with one reply.  The reply enters the    *)
(* outbox under the first row's id, or goes to Discord directly when the   *)
(* outbox store is broken; then every row is marked complete.  At a boot,  *)
(* rows in progress are crashed and complete rows without a Discord id are *)
(* looked up in the outbox, one by one, and posted when nothing is found.  *)
(* Time passes in eras, each longer than find_for_reply's window.          *)
(***************************************************************************)
EXTENDS Naturals, Sequences

CONSTANTS
  Turns,         \* turns, each with a batch of rows and one reply
  BatchRows,     \* rows of a batch: 1..BatchRows
  MaxBoots,      \* bound: restarts after a crash
  MaxBroken,     \* bound: replies that meet a broken outbox store
  MaxDiscards,   \* bound: rows an operator discards
  MaxEra         \* bound: eras

\* Turns are numbered as their rows were enqueued: the sweep goes in that order.
RecoveryAssumption ==
  Turns \subseteq Nat /\ BatchRows \in Nat \ {0} /\ MaxBoots \in Nat /\ MaxEra \in Nat

VARIABLES
  phase,      \* [Turns -> "none", "running", "posted", "complete", "crashed"]
  seenId,     \* [Turns -> rows with a discord_response_id]
  endEra,     \* [Turns -> era of processed_at]
  obx,        \* the outbox rows: [turn, key, era, status]
  direct,     \* [Turns -> times posted without the outbox]
  result,     \* [Turns -> the inline post gave a Discord id]
  sweep,      \* complete rows the boot's sweep has still to look at
  posting,    \* the row whose post the sweep awaits, or <<>>
  booting,    \* crash_recovery is running
  era, boots, broken, discards

RecoveryVars == <<phase, seenId, endEra, obx, direct, result, sweep, posting, booting,
                  era, boots, broken, discards>>

RecoveryInit ==
  /\ phase = [t \in Turns |-> "none"]
  /\ seenId = [t \in Turns |-> {}]
  /\ endEra = [t \in Turns |-> 0]
  /\ obx = <<>>
  /\ direct = [t \in Turns |-> 0]
  /\ result = [t \in Turns |-> FALSE]
  /\ sweep = {} /\ posting = <<>> /\ booting = FALSE
  /\ era = 0 /\ boots = 0 /\ broken = 0 /\ discards = 0

BeginTurn(t) ==
  /\ ~booting /\ phase[t] = "none"
  /\ phase' = [phase EXCEPT ![t] = "running"]
  /\ UNCHANGED <<seenId, endEra, obx, direct, result, sweep, posting, booting,
                 era, boots, broken, discards>>

Reply(t, row, st) == [turn |-> t, key |-> row, era |-> era, status |-> st]

\* post_to_discord of finish_turn, keyed by the batch's first row: delivered inline or
\* left to the loop; without a store, posted once directly, which may fail.
PostReply(t) ==
  /\ ~booting /\ phase[t] = "running"
  /\ phase' = [phase EXCEPT ![t] = "posted"]
  /\ \/ \E ok \in BOOLEAN :
          /\ obx' = Append(obx, Reply(t, 1, IF ok THEN "delivered" ELSE "pending"))
          /\ result' = [result EXCEPT ![t] = ok]
          /\ UNCHANGED <<direct, broken>>
     \/ /\ broken < MaxBroken /\ broken' = broken + 1
        /\ \E ok \in BOOLEAN :
             /\ direct' = [direct EXCEPT ![t] = IF ok THEN 1 ELSE 0]
             /\ result' = [result EXCEPT ![t] = ok]
        /\ UNCHANGED obx
  /\ UNCHANGED <<seenId, endEra, sweep, posting, booting, era, boots, discards>>

KnownIds_Always(t) == 1..BatchRows

\* discord_response_id: COALESCE keeps NULL when the post gave no id.
KnownIds(t) == IF result[t] THEN 1..BatchRows ELSE {}

\* The end of finish_turn: every row complete, with the Discord id when there is one.
MarkComplete(t) ==
  /\ ~booting /\ phase[t] = "posted"
  /\ phase' = [phase EXCEPT ![t] = "complete"]
  /\ endEra' = [endEra EXCEPT ![t] = era]
  /\ seenId' = [seenId EXCEPT ![t] = KnownIds(t)]
  /\ UNCHANGED <<obx, direct, result, sweep, posting, booting, era, boots, broken, discards>>

\* The outbox loop delivers a row or gives it up; it runs during the boot too.
Settle(i, st) ==
  /\ obx[i].status = "pending"
  /\ obx' = [obx EXCEPT ![i].status = st]
  /\ UNCHANGED <<phase, seenId, endEra, direct, result, sweep, posting, booting,
                 era, boots, broken, discards>>

OperatorDiscards(i) ==
  /\ obx[i].status \in {"pending", "dead"} /\ discards < MaxDiscards
  /\ discards' = discards + 1
  /\ obx' = [obx EXCEPT ![i].status = "discarded"]
  /\ UNCHANGED <<phase, seenId, endEra, direct, result, sweep, posting, booting,
                 era, boots, broken>>

\* More than find_for_reply's window passes; a turn ends within the era of its post.
NextEra ==
  /\ era < MaxEra /\ \A t \in Turns : phase[t] # "posted"
  /\ era' = era + 1
  /\ UNCHANGED <<phase, seenId, endEra, obx, direct, result, sweep, posting, booting,
                 boots, broken, discards>>

----------------------------------------------------------------------------
(* The boot *)

\* The server dies anywhere, in a boot too, and crash_recovery starts: rows in progress
\* become crashed, complete rows without an id are read at once.
Boot ==
  /\ boots < MaxBoots
  /\ boots' = boots + 1
  /\ phase' = [t \in Turns |-> IF phase[t] \in {"running", "posted"} THEN "crashed" ELSE phase[t]]
  /\ sweep' = {q \in Turns \X (1..BatchRows) : phase[q[1]] = "complete" /\ q[2] \notin seenId[q[1]]}
  /\ posting' = <<>>
  /\ booting' = TRUE
  /\ UNCHANGED <<seenId, endEra, obx, direct, result, era, broken, discards>>

ByKey(t, r) == {i \in 1..Len(obx) : obx[i].turn = t /\ obx[i].key = r}
Near_Never(t, e) == {}

Near(t, e) == {i \in 1..Len(obx) : obx[i].turn = t /\ obx[i].status # "discarded" /\ obx[i].era = e}

\* The row's key, then the reply's text around its end, then around now.
Matched(t, r) ==
  IF ByKey(t, r) # {} THEN ByKey(t, r)
  ELSE IF Near(t, endEra[t]) # {} THEN Near(t, endEra[t]) ELSE Near(t, era)

SweepOrder(q) == \A p \in sweep : p = q \/ q[1] < p[1] \/ (q[1] = p[1] /\ q[2] < p[2])

\* One row of the sweep: known to the outbox (delivered or not), or posted through it.
SweepRow(t, r) ==
  /\ booting /\ posting = <<>> /\ <<t, r>> \in sweep /\ SweepOrder(<<t, r>>)
  /\ IF Matched(t, r) # {}
     THEN /\ seenId' = [seenId EXCEPT ![t] = IF \E i \in Matched(t, r) : obx[i].status = "delivered"
                                             THEN @ \cup {r} ELSE @]
          /\ sweep' = sweep \ {<<t, r>>}
          /\ UNCHANGED <<obx, posting>>
     ELSE /\ \E st \in {"pending", "delivered"} : obx' = Append(obx, Reply(t, r, st))
          /\ posting' = <<t, r>>
          /\ UNCHANGED <<seenId, sweep>>
  /\ UNCHANGED <<phase, endEra, direct, result, booting, era, boots, broken, discards>>

\* The id is recorded row by row, right after the post.
SweepRecord ==
  /\ posting # <<>>
  /\ LET t == posting[1] IN LET r == posting[2] IN
       /\ seenId' = [seenId EXCEPT ![t] = IF obx[Len(obx)].status = "delivered" THEN @ \cup {r} ELSE @]
       /\ sweep' = sweep \ {posting}
  /\ posting' = <<>>
  /\ UNCHANGED <<phase, endEra, obx, direct, result, booting, era, boots, broken, discards>>

SweepEnds ==
  /\ booting /\ sweep = {} /\ posting = <<>>
  /\ booting' = FALSE
  /\ UNCHANGED <<phase, seenId, endEra, obx, direct, result, sweep, posting, era, boots, broken, discards>>

RecoveryNext ==
  \/ \E t \in Turns : BeginTurn(t) \/ PostReply(t) \/ MarkComplete(t)
  \/ \E i \in 1..Len(obx) : OperatorDiscards(i) \/ \E st \in {"delivered", "dead"} : Settle(i, st)
  \/ \E t \in Turns, r \in 1..BatchRows : SweepRow(t, r)
  \/ NextEra \/ Boot \/ SweepRecord \/ SweepEnds

RecoverySpec == RecoveryInit /\ [][RecoveryNext]_RecoveryVars

----------------------------------------------------------------------------
(* Properties *)

Rows(t) == {i \in 1..Len(obx) : obx[i].turn = t}
OwnRow(t) == {i \in Rows(t) : obx[i].key = 1 /\ obx[i].era <= endEra[t]}

\* A reply its turn left to the outbox is never given to it again by a boot, however often
\* the server dies in the sweep: later rows of the batch find it by its text, unless an
\* operator has discarded it.
OnceInOutbox ==
  \A t \in Turns : phase[t] = "complete" /\ (\E i \in OwnRow(t) : obx[i].status # "discarded") =>
                     \A i, j \in Rows(t) : i = j

\* A boot leaves no complete reply behind: it has an outbox row or was posted directly,
\* also when the store was broken and the direct post failed.
NoReplyLost ==
  booting /\ sweep = {} => \A t \in Turns : phase[t] = "complete" => Rows(t) # {} \/ direct[t] > 0

\* "A reply the outbox already owns or delivered is never posted a second time."
\* Does not hold: see the README.
NeverTwice == \A t \in Turns : \A i, j \in Rows(t) : i = j

=============================================================================
