---------------------------- MODULE OutboxProofs ----------------------------
(***************************************************************************)
(* Proofs about the outbox, for every value of the constants: its types    *)
(* (the attempt limit included), the sender's ownership of its row, that a *)
(* row marked delivered is on Discord whole, the order of a channel, that  *)
(* no chunk appears twice, and the refinement of Replies.                  *)
(***************************************************************************)
EXTENDS Outbox, SequenceTheorems, TLAPS

Sent(l, r, c) == \E i \in 1..Len(l) : l[i] = <<r, c>>

Senders == inline \cup batch

\* An active row has an attempt left: record_failure settles the last one.
AttemptsLeft == \A r \in Rows : status[r] \in Active => attempts[r] < MaxAttempts

\* A row that is not inserted yet is blank.
Fresh == \A r \in Rows : r > count => status[r] = "none" /\ done[r] = 0 /\ attempts[r] = 0

\* A sender's cursor lives as long as the sender, and stays inside the row.
Cursor ==
    \A r \in Rows :
        /\ r \notin Senders => idx[r] = 0 /\ ~landed[r]
        /\ done[r] <= total[r]
        /\ landed[r] => idx[r] < total[r]

\* No sender outlives the server.
Down == ~up => Senders = {}

\* What the table, a sender or Discord's nonce cache counts as sent, was sent.
Recorded ==
    /\ \A r \in Rows : \A c \in Nat : c < done[r] => Sent(log, r, c)
    /\ \A r \in Rows : landed[r] => Sent(log, r, idx[r])
    /\ \A n \in nonces : Sent(log, n[1], n[2])

\* A delivered row has recorded every chunk.
DeliveredDone == \A r \in Rows : status[r] = "delivered" => done[r] = total[r]

IInv ==
    /\ TypeOK /\ SenderOwnsRow /\ AttemptsLeft /\ Fresh /\ Cursor /\ Down
    /\ Recorded /\ DeliveredDone

-----------------------------------------------------------------------------
USE DEF Rows, Active, Settled, NoStream

\* The empty outbox of a first boot satisfies the inductive invariant.
LEMMA InitIInv == Init => IInv
<1> SUFFICES ASSUME Init PROVE IInv
  OBVIOUS
<1>1. TypeOK
  BY OutboxAssumption DEF Init, TypeOK
<1>2. SenderOwnsRow /\ AttemptsLeft /\ Fresh /\ Cursor /\ Down /\ DeliveredDone
  BY OutboxAssumption
  DEF Init, SenderOwnsRow, AttemptsLeft, Fresh, Cursor, Senders, Down, DeliveredDone
<1>3. Recorded
  BY DEF Init, Recorded
<1> QED
  BY <1>1, <1>2, <1>3 DEF IInv

\* A message more on the log.
LEMMA GrowLog ==
    ASSUME NEW l \in Seq(Rows \X Nat), NEW m \in Rows \X Nat
    PROVE  /\ Append(l, m) \in Seq(Rows \X Nat)
           /\ Len(l) \in Nat /\ Len(Append(l, m)) = Len(l) + 1
           /\ \A k \in 1..Len(l) : Append(l, m)[k] = l[k]
           /\ Append(l, m)[Len(l) + 1] = m
<1> DEFINE M == Rows \X Nat
<1>1. l \in Seq(M) /\ m \in M
  OBVIOUS
<1> HIDE DEF M
<1>2. /\ Append(l, m) \in Seq(M)
      /\ Len(l) \in Nat /\ Len(Append(l, m)) = Len(l) + 1
      /\ \A k \in 1..Len(l) : Append(l, m)[k] = l[k]
      /\ Append(l, m)[Len(l) + 1] = m
  BY <1>1, AppendProperties
<1> QED
  BY <1>2 DEF M

\* What was sent stays sent while the log is unchanged or grows by one message.
LEMMA SentStays ==
    ASSUME NEW r, NEW c, TypeOK,
           \/ log' = log
           \/ \E m \in Rows \X Nat : log' = Append(log, m),
           Sent(log, r, c)
    PROVE  Sent(log', r, c)
<1> PICK i \in 1..Len(log) : log[i] = <<r, c>>
  BY DEF Sent
<1>1. CASE log' = log
  BY <1>1 DEF Sent
<1>2. ASSUME NEW m \in Rows \X Nat, log' = Append(log, m) PROVE Sent(log', r, c)
  <2>1. i \in 1..Len(log') /\ log'[i] = log[i]
    <3>1. log \in Seq(Rows \X Nat)
      BY DEF TypeOK
    <3>2. /\ Len(log) \in Nat /\ Len(log') = Len(log) + 1
          /\ \A k \in 1..Len(log) : log'[k] = log[k]
      BY <3>1, <1>2, GrowLog
    <3> QED
      BY <3>2
  <2> QED
    BY <2>1 DEF Sent
<1> QED
  BY <1>1, <1>2

\* The steps that neither touch the cursors nor Discord keep Recorded.
LEMMA RecordedStays ==
    ASSUME TypeOK, Recorded, UNCHANGED <<log, nonces, done>>,
           \A r \in Rows : landed'[r] => landed[r] /\ idx'[r] = idx[r]
    PROVE  Recorded'
BY DEF Recorded

\* Inserting a row, claimed inline or not.
LEMMA EnqueueIInv ==
    ASSUME IInv, NEW s \in Streams, NEW n \in 1..MaxChunks, NEW want \in BOOLEAN,
           Enqueue(s, n, want)
    PROVE  IInv'
<1> DEFINE r == count + 1
           claimed == want /\ ~OlderActive(s)
<1> USE DEF IInv
<1>0. r \in Rows /\ r > count
  BY OutboxAssumption DEF TypeOK, Enqueue
<1>1. TypeOK'
  <2>1. /\ count' \in 0..MaxRows
        /\ stream' \in [Rows -> Streams \cup {NoStream}]
        /\ total' \in [Rows -> 0..MaxChunks]
        /\ due' \in [Rows -> BOOLEAN]
        /\ inline' \subseteq Rows
    <3>1. /\ count' = r /\ stream' = [stream EXCEPT ![r] = s]
          /\ total' = [total EXCEPT ![r] = n] /\ due' = [due EXCEPT ![r] = TRUE]
          /\ inline' = inline \cup {r} \/ inline' = inline
      BY DEF Enqueue
    <3>2. /\ stream \in [Rows -> Streams \cup {NoStream}] /\ total \in [Rows -> 0..MaxChunks]
          /\ due \in [Rows -> BOOLEAN] /\ inline \subseteq Rows
      BY DEF TypeOK
    <3>3. n \in 0..MaxChunks /\ r \in 0..MaxRows
      BY <1>0, OutboxAssumption
    <3> HIDE DEF r
    <3> QED
      BY <3>1, <3>2, <3>3, <1>0
  <2>2. status' \in [Rows -> {"none"} \cup Active \cup Settled]
    <3>1. status \in [Rows -> {"none"} \cup Active \cup Settled]
      BY DEF TypeOK
    <3>2. status' = [status EXCEPT ![r] = IF claimed THEN "sending" ELSE "pending"]
      BY DEF Enqueue
    <3> HIDE DEF claimed, r
    <3> QED
      BY <3>1, <3>2
  <2> QED
    BY <2>1, <2>2 DEF TypeOK, Enqueue, discord, bounds
<1>2. SenderOwnsRow'
  BY <1>0 DEF SenderOwnsRow, Fresh, Cursor, Senders, Enqueue, TypeOK
<1>3. AttemptsLeft' /\ Fresh' /\ Down' /\ DeliveredDone'
  BY <1>0, OutboxAssumption, SMTT(30)
  DEF AttemptsLeft, Fresh, Down, Senders, DeliveredDone, Enqueue, TypeOK
<1>4. Cursor'
  <2>1. /\ total' = [total EXCEPT ![r] = n] /\ Senders \subseteq Senders'
        /\ UNCHANGED <<done, idx, landed>>
    BY DEF Enqueue, Senders
  <2>2. done[r] = 0 /\ n \in Nat /\ ~landed[r]
    BY <1>0, OutboxAssumption DEF Fresh, Cursor, Senders, SenderOwnsRow
  <2> QED
    BY <2>1, <2>2, <1>0 DEF Cursor, TypeOK
<1>5. Recorded'
  BY RecordedStays DEF Enqueue, discord
<1> QED
  BY <1>1, <1>2, <1>3, <1>4, <1>5

\* The loop's claim of due rows.
LEMMA ClaimDueIInv == ASSUME IInv, ClaimDue PROVE IInv'
<1> USE DEF IInv
<1> PICK C \in SUBSET {r \in 1..count : Claimable(r)} :
         /\ status' = [r \in Rows |-> IF r \in C THEN "sending" ELSE status[r]]
         /\ idx' = [r \in Rows |-> IF r \in C THEN done[r] ELSE idx[r]]
         /\ batch' = C
  BY DEF ClaimDue
<1>0. /\ C \subseteq Rows /\ \A r \in C : status[r] = "pending"
      /\ UNCHANGED <<count, stream, total, done, attempts, due, up, inline, landed, log, nonces,
                     forgot, retried, crashes, retries, abandons>>
      /\ up /\ batch = {}
  BY OutboxAssumption DEF Claimable, TypeOK, ClaimDue, discord, bounds
<1>1. TypeOK'
  BY <1>0 DEF TypeOK
<1>2. SenderOwnsRow' /\ AttemptsLeft' /\ Fresh' /\ Down' /\ DeliveredDone'
  BY <1>0, OutboxAssumption
  DEF SenderOwnsRow, AttemptsLeft, Fresh, Down, Senders, DeliveredDone, TypeOK
<1>3. \A r \in Rows : landed[r] => r \in inline /\ r \notin C
  BY <1>0 DEF Cursor, Senders, SenderOwnsRow
<1>4. Cursor'
  BY <1>0, <1>3 DEF Cursor, Senders, TypeOK
<1>5. Recorded'
  BY <1>0, <1>3, RecordedStays DEF TypeOK
<1> QED
  BY <1>1, <1>2, <1>4, <1>5

\* An accepted POST: the new message, or the one Discord remembers, is the
\* chunk at the sender's cursor.
LEMMA PostChunkIInv == ASSUME IInv, NEW r \in Rows, PostChunk(r) PROVE IInv'
<1> USE DEF IInv
<1> DEFINE m == <<r, idx[r]>>
<1>0. /\ m \in Rows \X Nat /\ r \in Senders /\ idx[r] < total[r]
      /\ landed' = [landed EXCEPT ![r] = TRUE]
      /\ nonces' = nonces \cup {m}
      /\ log' = IF m \in nonces THEN log ELSE Append(log, m)
      /\ UNCHANGED <<count, stream, total, status, done, attempts, due, up, inline, batch, idx,
                     forgot, retried, crashes, retries, abandons>>
  BY DEF TypeOK, PostChunk, Nonce, IsSending, Senders, store, bounds
<1>1. TypeOK'
  <2>1. log' \in Seq(Rows \X Nat)
    BY <1>0, GrowLog DEF TypeOK
  <2> QED
    BY <1>0, <2>1 DEF TypeOK
<1>2. SenderOwnsRow' /\ AttemptsLeft' /\ Fresh' /\ Cursor' /\ Down' /\ DeliveredDone'
  <2>1. SenderOwnsRow' /\ AttemptsLeft' /\ Fresh' /\ Down' /\ DeliveredDone'
    BY <1>0 DEF SenderOwnsRow, AttemptsLeft, Fresh, Down, Senders, DeliveredDone
  <2>2. \A q \in Rows : landed'[q] => landed[q] \/ q = r
    BY <1>0 DEF TypeOK
  <2>3. Cursor'
    BY <1>0, <2>2 DEF Cursor, Senders
  <2> QED
    BY <2>1, <2>3
<1>3. Sent(log', r, idx[r])
  <2>1. CASE m \in nonces
    BY <2>1, <1>0 DEF Recorded, Sent
  <2>2. CASE m \notin nonces
    <3>1. Len(log') \in 1..Len(log') /\ log'[Len(log')] = m
      BY <2>2, <1>0, GrowLog DEF TypeOK
    <3> QED
      BY <3>1, <1>0 DEF Sent
  <2> QED
    BY <2>1, <2>2
<1>4. \A q, c : Sent(log, q, c) => Sent(log', q, c)
  <2>1. log' = log \/ \E x \in Rows \X Nat : log' = Append(log, x)
    BY <1>0
  <2> QED
    BY <2>1, SentStays
<1>5. Recorded'
  <2>1. \A q \in Rows : \A c \in Nat : c < done'[q] => Sent(log', q, c)
    BY <1>0, <1>4 DEF Recorded
  <2>2. \A q \in Rows : landed'[q] => Sent(log', q, idx[q])
    BY <1>0, <1>3, <1>4 DEF Recorded, TypeOK
  <2>3. \A n \in nonces' : Sent(log', n[1], n[2])
    BY <1>0, <1>3, <1>4 DEF Recorded
  <2> QED
    BY <2>1, <2>2, <2>3, <1>0 DEF Recorded, Sent
<1> QED
  BY <1>1, <1>2, <1>5

\* A handled answer moves chunks_done and the cursor together.
LEMMA RecordChunkIInv == ASSUME IInv, NEW r \in Rows, RecordChunk(r) PROVE IInv'
<1> USE DEF IInv
<1>0. /\ r \in Senders /\ status[r] = "sending" /\ idx[r] = done[r] /\ idx[r] < total[r]
      /\ Sent(log, r, done[r])
      /\ done' = [done EXCEPT ![r] = @ + 1]
      /\ idx' = [idx EXCEPT ![r] = @ + 1]
      /\ landed' = [landed EXCEPT ![r] = FALSE]
      /\ UNCHANGED <<count, stream, total, status, attempts, due, up, inline, batch, log, nonces,
                     forgot, retried, crashes, retries, abandons>>
  BY DEF RecordChunk, IsSending, Senders, SenderOwnsRow, Cursor, Recorded, TypeOK, discord, bounds
<1>a. /\ done \in [Rows -> Nat] /\ idx \in [Rows -> Nat]
      /\ done'[r] = done[r] + 1 /\ idx'[r] = done[r] + 1
      /\ \A q \in Rows : q # r => done'[q] = done[q] /\ idx'[q] = idx[q]
  BY <1>0 DEF TypeOK
<1>1. TypeOK'
  <2>1. done' \in [Rows -> Nat] /\ idx' \in [Rows -> Nat]
    BY <1>0, <1>a
  <2> QED
    BY <1>0, <2>1 DEF TypeOK
<1>2. SenderOwnsRow' /\ AttemptsLeft' /\ Fresh' /\ Down' /\ DeliveredDone'
  BY <1>0 DEF SenderOwnsRow, AttemptsLeft, Fresh, Down, Senders, DeliveredDone, TypeOK
<1>3. Cursor'
  <2>1. total[r] \in Nat /\ ~landed'[r] /\ Senders' = Senders
    BY <1>0 DEF TypeOK, Senders
  <2>2. \A q \in Rows : q # r => landed'[q] = landed[q]
    BY <1>0 DEF TypeOK
  <2> QED
    BY <1>0, <1>a, <2>1, <2>2 DEF Cursor
<1>4. Recorded'
  <2>1. \A q \in Rows : \A c \in Nat : c < done'[q] => Sent(log, q, c)
    <3>1. \A c \in Nat : c < done[r] + 1 => c < done[r] \/ c = done[r]
      BY <1>a
    <3> QED
      BY <3>1, <1>0, <1>a DEF Recorded
  <2>2. \A q \in Rows : landed'[q] => landed[q] /\ idx'[q] = idx[q]
    BY <1>0 DEF TypeOK
  <2> QED
    BY <2>1, <2>2, <1>0 DEF Recorded
<1> QED
  BY <1>1, <1>2, <1>3, <1>4

\* A step by which the sender of r leaves its row, r alone changing its
\* columns, keeps the invariant when the new columns do.
LEMMA LeaveIInv ==
    ASSUME IInv, NEW r \in Rows, r \in Senders, Leave(r),
           UNCHANGED <<count, stream, total, done, up, log, nonces, forgot, retried>>,
           NEW st \in {"sending"} \cup {"pending"} \cup Settled,
           status' = [status EXCEPT ![r] = st],
           st = "delivered" => done[r] = total[r],
           attempts' \in [Rows -> 0..MaxAttempts],
           due' \in [Rows -> BOOLEAN],
           \A q \in Rows : q # r => attempts'[q] = attempts[q],
           st \in Active => attempts'[r] < MaxAttempts,
           crashes' \in 0..MaxCrashes, retries' \in 0..MaxRetries,
           abandons' \in 0..MaxAbandons
    PROVE  IInv'
<1> USE DEF IInv
<1>0. /\ inline' = inline \ {r} /\ batch' = batch \ {r} /\ Senders' = Senders \ {r}
      /\ landed' = [landed EXCEPT ![r] = FALSE]
      /\ idx' = [idx EXCEPT ![r] = 0]
      /\ r <= count
  BY DEF Leave, Senders, Fresh, SenderOwnsRow, TypeOK
<1>1. TypeOK'
  BY <1>0 DEF TypeOK
<1>2. SenderOwnsRow' /\ Fresh' /\ Down'
  BY <1>0 DEF SenderOwnsRow, Fresh, Down, Senders, TypeOK
<1>3. AttemptsLeft' /\ DeliveredDone' /\ Cursor'
  BY <1>0 DEF AttemptsLeft, DeliveredDone, Cursor, TypeOK
<1>4. Recorded'
  BY <1>0, RecordedStays DEF TypeOK
<1> QED
  BY <1>1, <1>2, <1>3, <1>4

\* The steps that end a send, and the abandoned one.
LEMMA SenderLeavesIInv ==
    ASSUME IInv, NEW r \in Rows,
           MarkDelivered(r) \/ Refused(r) \/ AnswerLost(r) \/ Abandon(r)
    PROVE  IInv'
<1> USE DEF IInv
<1>0. r \in Senders /\ status[r] = "sending" /\ idx[r] = done[r] /\ attempts[r] < MaxAttempts
  BY DEF MarkDelivered, Refused, AnswerLost, Abandon, IsSending, Senders, SenderOwnsRow, AttemptsLeft
<1>1. CASE MarkDelivered(r)
  BY <1>0, <1>1, LeaveIInv DEF MarkDelivered, SentAll, discord, bounds, TypeOK, AttemptsLeft
<1>2. CASE Abandon(r)
  <2>1. status' = [status EXCEPT ![r] = "sending"]
    BY <1>0, <1>2 DEF Abandon, store, TypeOK
  <2>2. /\ Leave(r) /\ abandons' \in 0..MaxAbandons
        /\ UNCHANGED <<count, stream, total, done, attempts, due, up, log, nonces, forgot,
                       retried, crashes, retries>>
    BY <1>2, OutboxAssumption DEF Abandon, store, discord, TypeOK
  <2>3. /\ attempts' \in [Rows -> 0..MaxAttempts] /\ due' \in [Rows -> BOOLEAN]
        /\ crashes' \in 0..MaxCrashes /\ retries' \in 0..MaxRetries
    BY <2>2 DEF TypeOK
  <2> QED
    BY <1>0, <2>1, <2>2, <2>3, LeaveIInv
<1>3. ASSUME NEW kind \in FailureKinds, NEW aged \in BOOLEAN, RecordFailure(r, kind, aged)
      PROVE  IInv'
  <2> DEFINE st == FailedStatus(r, kind, aged)
  <2>1. /\ st \in {"sending"} \cup {"pending"} \cup Settled /\ st # "delivered"
        /\ st \in Active => attempts[r] + 1 < MaxAttempts
    BY OutboxAssumption DEF FailedStatus, TypeOK
  <2>2. /\ status' = [status EXCEPT ![r] = st]
        /\ attempts' = [attempts EXCEPT ![r] = @ + 1]
        /\ due' = [due EXCEPT ![r] = FALSE]
        /\ Leave(r)
        /\ UNCHANGED <<count, stream, total, done, up, log, nonces, forgot, retried, crashes,
                       retries, abandons>>
    BY <1>0, <1>3 DEF RecordFailure, discord, bounds
  <2>3. /\ attempts'[r] = attempts[r] + 1
        /\ attempts' \in [Rows -> 0..MaxAttempts] /\ due' \in [Rows -> BOOLEAN]
        /\ \A q \in Rows : q # r => attempts'[q] = attempts[q]
    <3>1. attempts \in [Rows -> 0..MaxAttempts] /\ due \in [Rows -> BOOLEAN]
      BY DEF TypeOK
    <3>2. attempts[r] + 1 \in 0..MaxAttempts
      BY <1>0, <3>1, OutboxAssumption
    <3> QED
      BY <2>2, <3>1, <3>2
  <2>4. /\ crashes' \in 0..MaxCrashes /\ retries' \in 0..MaxRetries
        /\ abandons' \in 0..MaxAbandons
    BY <2>2 DEF TypeOK
  <2> HIDE DEF st
  <2> QED
    BY <1>0, <2>1, <2>2, <2>3, <2>4, LeaveIInv
<1> QED
  BY <1>1, <1>2, <1>3 DEF Refused, AnswerLost, FailureKinds

\* A step that rewrites the columns of a row nobody is sending.
LEMMA RowUpdateIInv ==
    ASSUME IInv, NEW r \in Rows, status[r] \notin {"none", "sending"},
           UNCHANGED <<count, stream, total, done, up, inline, batch, idx, landed, log, nonces,
                       forgot, crashes, abandons>>,
           NEW st \in {"pending"} \cup Settled,
           status' = [status EXCEPT ![r] = st], st # "delivered",
           NEW a \in 0..MaxAttempts,
           attempts' = [attempts EXCEPT ![r] = a], st \in Active => a < MaxAttempts,
           NEW d \in BOOLEAN,
           due' = [due EXCEPT ![r] = d],
           retries' \in 0..MaxRetries, retried' \subseteq Rows
    PROVE  IInv'
<1> USE DEF IInv
<1>0. r \notin Senders /\ r <= count
  BY DEF SenderOwnsRow, Senders, Fresh, TypeOK
<1>1. TypeOK'
  BY DEF TypeOK
<1>2. SenderOwnsRow' /\ Cursor' /\ Down'
  BY <1>0 DEF SenderOwnsRow, Cursor, Down, Senders, TypeOK
<1>3. AttemptsLeft' /\ Fresh' /\ DeliveredDone'
  BY <1>0 DEF AttemptsLeft, Fresh, DeliveredDone, TypeOK
<1>4. Recorded'
  BY RecordedStays
<1> QED
  BY <1>1, <1>2, <1>3, <1>4

\* Backoff, operator and housekeeping.
LEMMA TableStepIInv ==
    ASSUME IInv, NEW r \in Rows,
           BecomeDue(r) \/ OpRetry(r) \/ OpDiscard(r) \/ Purge(r)
    PROVE  IInv'
<1>0. /\ attempts[r] \in 0..MaxAttempts /\ due[r] \in BOOLEAN /\ 0 < MaxAttempts
      /\ status[r] = "pending" => attempts[r] < MaxAttempts
      /\ attempts = [attempts EXCEPT ![r] = attempts[r]]
      /\ due = [due EXCEPT ![r] = due[r]]
      /\ status = [status EXCEPT ![r] = status[r]]
      /\ retries \in 0..MaxRetries /\ retried \subseteq Rows
  BY OutboxAssumption DEF IInv, TypeOK, AttemptsLeft
<1>1. CASE BecomeDue(r)
  <2>1. /\ status[r] = "pending" /\ status' = [status EXCEPT ![r] = "pending"]
        /\ attempts' = [attempts EXCEPT ![r] = attempts[r]]
        /\ due' = [due EXCEPT ![r] = TRUE]
    BY <1>0, <1>1 DEF BecomeDue
  <2> QED
    BY <1>0, <1>1, <2>1, RowUpdateIInv DEF BecomeDue, sender, discord, bounds
<1>2. CASE OpRetry(r)
  <2>1. retries' \in 0..MaxRetries /\ retried' \subseteq Rows /\ 0 \in 0..MaxAttempts
    BY <1>0, <1>2, OutboxAssumption DEF OpRetry
  <2> QED
    BY <1>0, <1>2, <2>1, RowUpdateIInv DEF OpRetry, sender, discord
<1>3. CASE OpDiscard(r)
  <2>1. attempts' = [attempts EXCEPT ![r] = attempts[r]]
    BY <1>0, <1>3 DEF OpDiscard
  <2> DEFINE st == "discarded"
  <2>s. st \in {"pending"} \cup Settled /\ st \notin Active /\ st # "delivered"
    OBVIOUS
  <2>2. /\ status[r] \notin {"none", "sending"} /\ status' = [status EXCEPT ![r] = st]
        /\ retries' \in 0..MaxRetries /\ retried' \subseteq Rows
        /\ UNCHANGED <<count, stream, total, done, up, inline, batch, idx, landed, log, nonces,
                       forgot, crashes, abandons>>
    BY <1>0, <1>3 DEF OpDiscard, Discardable, sender, discord, bounds
  <2>3. PICK d \in BOOLEAN : due' = [due EXCEPT ![r] = d]
    BY <1>0, <1>3 DEF OpDiscard
  <2> HIDE DEF st
  <2> QED
    BY <1>0, <2>s, <2>1, <2>2, <2>3, RowUpdateIInv
<1>4. CASE Purge(r)
  <2>1. /\ attempts' = [attempts EXCEPT ![r] = attempts[r]]
        /\ due' = [due EXCEPT ![r] = due[r]]
    BY <1>0, <1>4 DEF Purge
  <2> DEFINE st == "purged"
  <2>s. st \in {"pending"} \cup Settled /\ st \notin Active /\ st # "delivered"
    OBVIOUS
  <2>2. /\ status[r] \notin {"none", "sending"} /\ status' = [status EXCEPT ![r] = st]
        /\ retries' \in 0..MaxRetries /\ retried' \subseteq Rows
        /\ UNCHANGED <<count, stream, total, done, up, inline, batch, idx, landed, log, nonces,
                       forgot, crashes, abandons>>
    BY <1>0, <1>4 DEF Purge, sender, discord, bounds
  <2>3. PICK d \in BOOLEAN : due' = [due EXCEPT ![r] = d]
    BY <1>0, <1>4 DEF Purge
  <2> HIDE DEF st
  <2> QED
    BY <1>0, <2>s, <2>1, <2>2, <2>3, RowUpdateIInv
<1> QED
  BY <1>1, <1>2, <1>3, <1>4

\* The server dies and every sender with it.
LEMMA CrashIInv == ASSUME IInv, Crash PROVE IInv'
<1> USE DEF IInv
<1>0. /\ up' = FALSE /\ inline' = {} /\ batch' = {} /\ Senders' = {}
      /\ landed' = [r \in Rows |-> FALSE] /\ idx' = [r \in Rows |-> 0]
      /\ UNCHANGED <<count, stream, total, status, done, attempts, due, log, nonces, forgot,
                     retried, retries, abandons>>
      /\ crashes' \in 0..MaxCrashes
  BY OutboxAssumption DEF Crash, Senders, store, discord, TypeOK
<1>1. TypeOK'
  BY <1>0 DEF TypeOK
<1>2. SenderOwnsRow' /\ Cursor' /\ Down' /\ AttemptsLeft' /\ Fresh' /\ DeliveredDone'
  BY <1>0 DEF SenderOwnsRow, Cursor, Down, AttemptsLeft, Fresh, DeliveredDone
<1>3. Recorded'
  BY <1>0, RecordedStays
<1> QED
  BY <1>1, <1>2, <1>3

\* The boot puts the rows left in `sending` back to pending.
LEMMA RestartIInv == ASSUME IInv, Restart PROVE IInv'
<1> USE DEF IInv
<1>0. /\ up' = TRUE /\ Senders = {} /\ Senders' = {}
      /\ status' = [r \in Rows |-> IF status[r] = "sending" THEN "pending" ELSE status[r]]
      /\ due' = [r \in Rows |-> due[r] \/ status[r] = "sending"]
      /\ UNCHANGED <<count, stream, total, done, attempts, inline, batch, idx, landed, log, nonces,
                     forgot, retried, crashes, retries, abandons>>
  BY DEF Restart, Recovered, Senders, Down, discord, bounds
<1>1. TypeOK'
  <2>1. due' \in [Rows -> BOOLEAN]
    BY <1>0 DEF TypeOK
  <2>2. status' \in [Rows -> {"none"} \cup Active \cup Settled]
    BY <1>0 DEF TypeOK
  <2> QED
    BY <1>0, <2>1, <2>2 DEF TypeOK
<1>2. SenderOwnsRow' /\ Cursor' /\ Down'
  BY <1>0 DEF SenderOwnsRow, Cursor, Down, Senders
<1>3. AttemptsLeft' /\ Fresh' /\ DeliveredDone'
  BY <1>0 DEF AttemptsLeft, Fresh, DeliveredDone
<1>4. Recorded'
  BY <1>0, RecordedStays
<1> QED
  BY <1>1, <1>2, <1>3, <1>4

\* Discord's nonce cache forgets; the log does not.
LEMMA ForgetIInv == ASSUME IInv, NEW n \in nonces, ForgetNonce(n) PROVE IInv'
<1> USE DEF IInv
<1>1. TypeOK'
  BY DEF ForgetNonce, store, sender, bounds, TypeOK
<1>2. /\ SenderOwnsRow' /\ Cursor' /\ Down' /\ AttemptsLeft' /\ Fresh' /\ DeliveredDone'
      /\ Recorded'
  BY DEF ForgetNonce, store, sender, SenderOwnsRow, Cursor, Down, Senders, AttemptsLeft, Fresh,
         DeliveredDone, Recorded
<1> QED
  BY <1>1, <1>2

\* Every step keeps the inductive invariant.
LEMMA NextIInv == IInv /\ [Next]_vars => IInv'
<1> SUFFICES ASSUME IInv, [Next]_vars PROVE IInv'
  OBVIOUS
<1>1. CASE \E s \in Streams, n \in 1..MaxChunks : PostReply(s, n) \/ CrossSend(s, n)
  BY <1>1, EnqueueIInv DEF PostReply, CrossSend
<1>2. CASE ClaimDue \/ Crash \/ Restart
  BY <1>2, ClaimDueIInv, CrashIInv, RestartIInv
<1>3. CASE \E r \in Rows : RowStep(r)
  BY <1>3, PostChunkIInv, RecordChunkIInv, SenderLeavesIInv, TableStepIInv
  DEF RowStep, SenderStep
<1>4. CASE \E n \in nonces : ForgetNonce(n)
  BY <1>4, ForgetIInv
<1>5. CASE UNCHANGED vars
  <2>1. UNCHANGED <<count, stream, total, status, done, attempts, due, up, inline, batch, idx,
                    landed, log, nonces, forgot, retried, crashes, retries, abandons>>
    BY <1>5 DEF vars, store, sender, discord, bounds
  <2> QED
    BY <2>1 DEF IInv, TypeOK, SenderOwnsRow, AttemptsLeft, Fresh, Cursor, Down, Senders,
                Recorded, DeliveredDone
<1> QED
  BY <1>1, <1>2, <1>3, <1>4, <1>5 DEF Next

\* The inductive invariant holds in every reachable state of the outbox.
THEOREM Inductive == Spec => []IInv
BY InitIInv, NextIInv, PTL DEF Spec

\* Every column keeps its type; in particular no row makes more than MAX_ATTEMPTS
\* attempts (record_failure), operator retries and crashes included.
THEOREM Typing == Spec => []TypeOK
<1>1. IInv => TypeOK
  BY DEF IInv
<1> QED
  BY <1>1, Inductive, PTL

\* A sender owns its row until it is through: the guards of record_chunk,
\* mark_delivered and record_failure never fail, and no row has two senders.
THEOREM Ownership == Spec => []SenderOwnsRow
<1>1. IInv => SenderOwnsRow
  BY DEF IInv
<1> QED
  BY <1>1, Inductive, PTL

\* A row marked delivered (mark_delivered) is on Discord whole, whatever was
\* lost, deduplicated, crashed or retried on the way.
THEOREM Delivery == Spec => []DeliveredWhole
<1>1. IInv => DeliveredWhole
  <2> SUFFICES ASSUME IInv, NEW r \in 1..count, status[r] = "delivered",
                      NEW c \in 0..(total[r] - 1)
               PROVE  \E i \in 1..Len(log) : log[i] = <<r, c>>
    BY DEF DeliveredWhole
  <2>1. r \in Rows /\ total[r] \in Nat
    BY OutboxAssumption DEF IInv, TypeOK
  <2>2. c \in Nat /\ c < done[r]
    BY <2>1 DEF IInv, DeliveredDone
  <2> QED
    BY <2>1, <2>2 DEF IInv, Recorded, Sent
<1> QED
  BY <1>1, Inductive, PTL
-----------------------------------------------------------------------------
(* Order on Discord.  What it rests on, beside the invariant above.         *)

\* A row has a status from its insert on.
Inserted == \A r \in Rows : r <= count => status[r] # "none"

\* A chunk on Discord is of an inserted row, and at most one ahead of chunks_done.
Logged ==
    \A i \in 1..Len(log) :
        LET r == log[i][1]
        IN  r <= count /\ log[i][2] <= done[r] /\ log[i][2] < total[r]

\* Every older row of r's stream is settled, or was put back by an operator.
HasTurn(r) ==
    \A q \in Rows :
        (q < r /\ stream[q] = stream[r] /\ status[q] \in Active) => q \in retried

\* A row being sent, and a row some of which is on Discord, had its turn.
Turns ==
    /\ \A r \in Rows : status[r] = "sending" => HasTurn(r)
    /\ \A i \in 1..Len(log) : HasTurn(log[i][1])

\* Discord remembers the nonce of what it shows, or has forgotten it.
Remembered == \A i \in 1..Len(log) : log[i] \in nonces \cup forgot

OrderInv ==
    /\ Inserted /\ Logged /\ Turns /\ Remembered /\ InOrder /\ NoDuplicate

\* The empty outbox.
LEMMA InitOrder == Init => OrderInv
<1> SUFFICES ASSUME Init PROVE OrderInv
  OBVIOUS
<1>1. 1..Len(log) = {}
  BY DEF Init
<1>2. Inserted /\ Turns
  BY <1>1, OutboxAssumption DEF Init, Inserted, Turns
<1>3. Logged /\ Remembered /\ InOrder /\ NoDuplicate
  BY <1>1 DEF Logged, Remembered, InOrder, NoDuplicate
<1> QED
  BY <1>2, <1>3 DEF OrderInv

\* A step that shows nothing new, inserts nothing, and neither makes a row
\* active (an operator's retry aside) nor sends one out of turn keeps the order.
LEMMA QuietOrder ==
    ASSUME IInv, OrderInv,
           UNCHANGED <<log, count, stream, total>>,
           status' \in [Rows -> {"none"} \cup Active \cup Settled],
           done' \in [Rows -> Nat],
           \A r \in Rows : status'[r] = "none" => status[r] = "none",
           \A r \in Rows : done[r] <= done'[r],
           nonces \cup forgot \subseteq nonces' \cup forgot',
           forgot \subseteq forgot', retried \subseteq retried',
           \A r \in Rows : status'[r] \in Active => status[r] \in Active \/ r \in retried',
           \A r \in Rows : status'[r] = "sending" => HasTurn(r)
    PROVE  OrderInv'
<1> USE DEF OrderInv
<1>1. Inserted'
  BY DEF Inserted
<1>2. \A i \in 1..Len(log) : log[i] \in Rows \X Nat
  BY DEF IInv, TypeOK
<1>3. Logged'
  <2> SUFFICES ASSUME NEW i \in 1..Len(log)
               PROVE  /\ log[i][1] <= count /\ log[i][2] <= done'[log[i][1]]
                      /\ log[i][2] < total[log[i][1]]
    BY DEF Logged
  <2>1. log[i][1] \in Rows /\ log[i][2] \in Nat
    BY <1>2
  <2>2. done[log[i][1]] \in Nat /\ done'[log[i][1]] \in Nat
    BY <2>1 DEF IInv, TypeOK
  <2> QED
    BY <2>1, <2>2 DEF Logged
<1>4. \A r : HasTurn(r) => HasTurn(r)'
  BY DEF HasTurn
<1>5. Turns'
  BY <1>4 DEF Turns
<1>6. Remembered' /\ NoDuplicate'
  BY DEF Remembered, NoDuplicate
<1>7. InOrder'
  BY DEF InOrder, Before
<1> QED
  BY <1>1, <1>3, <1>5, <1>6, <1>7

\* A new row is younger than every other, and is claimed only when no row of
\* its stream is active.
LEMMA EnqueueOrder ==
    ASSUME IInv, OrderInv, NEW s \in Streams, NEW n \in 1..MaxChunks, NEW want \in BOOLEAN,
           Enqueue(s, n, want)
    PROVE  OrderInv'
<1> USE DEF OrderInv
<1>r. PICK r \in Rows : r = count + 1
  BY OutboxAssumption DEF IInv, TypeOK, Enqueue
<1>0. /\ r \in Rows /\ count \in Nat /\ count' = r
      /\ stream \in [Rows -> Streams \cup {NoStream}] /\ total \in [Rows -> 0..MaxChunks]
      /\ status \in [Rows -> {"none"} \cup Active \cup Settled]
      /\ stream' = [stream EXCEPT ![r] = s] /\ total' = [total EXCEPT ![r] = n]
      /\ UNCHANGED <<log, done, nonces, forgot, retried>>
  <2>1. /\ count \in Nat /\ stream \in [Rows -> Streams \cup {NoStream}]
        /\ total \in [Rows -> 0..MaxChunks]
        /\ status \in [Rows -> {"none"} \cup Active \cup Settled]
    BY DEF IInv, TypeOK
  <2> QED
    BY <1>r, <2>1 DEF Enqueue, discord, bounds
<1>1. PICK st \in Active : /\ status' = [status EXCEPT ![r] = st]
                           /\ st = "sending" => ~OlderActive(s)
  BY <1>r DEF Enqueue
<1>2. Inserted'
  BY <1>0, <1>1, <1>r DEF Inserted
<1>3. /\ stream'[r] = s /\ status'[r] = st
      /\ \A q \in Rows : q # r => stream'[q] = stream[q] /\ total'[q] = total[q]
                                  /\ status'[q] = status[q]
  BY <1>0, <1>1
<1>4. \A i \in 1..Len(log) : /\ log[i] \in Rows \X Nat /\ log[i][1] \in Rows
                             /\ log[i][1] <= count /\ log[i][1] # r
  <2>1. \A i \in 1..Len(log) : log[i] \in Rows \X Nat
    BY DEF IInv, TypeOK
  <2> QED
    BY <2>1, <1>0, <1>r DEF Logged
<1>5. Logged'
  <2>1. \A k \in 1..Len(log) : total'[log[k][1]] = total[log[k][1]] /\ log[k][1] \in Nat
    BY <1>3, <1>4
  <2> QED
    BY <1>0, <1>4, <1>r, <2>1 DEF Logged
<1>6. ASSUME NEW q \in Rows, q < r, HasTurn(q) PROVE HasTurn(q)'
  <2> SUFFICES ASSUME NEW p \in Rows, p < q, stream'[p] = stream'[q], status'[p] \in Active
               PROVE  p \in retried'
    BY DEF HasTurn
  <2>1. stream[p] = stream[q] /\ status[p] \in Active
    BY <1>0, <1>3, <1>6
  <2> QED
    BY <1>0, <1>6, <2>1 DEF HasTurn
<1>7. Turns'
  <2>1. \A q \in Rows : q # r /\ status'[q] = "sending" => q < r
    BY <1>0, <1>3, <1>r DEF IInv, Fresh
  <2>2. ASSUME st = "sending" PROVE HasTurn(r)'
    <3> SUFFICES ASSUME NEW q \in Rows, q < r, stream'[q] = stream'[r], status'[q] \in Active
                 PROVE  FALSE
      BY DEF HasTurn
    <3>1. q \in 1..count /\ stream[q] = s /\ status[q] \in Active
      BY <1>0, <1>3, <1>r
    <3> QED
      BY <1>1, <2>2, <3>1 DEF OlderActive
  <2>3. \A i \in 1..Len(log) : HasTurn(log[i][1])'
    BY <1>0, <1>4, <1>6, <1>r DEF Turns
  <2>4. ASSUME NEW q \in Rows, status'[q] = "sending" PROVE HasTurn(q)'
    <3>1. CASE q = r
      BY <1>3, <2>2, <2>4, <3>1
    <3>2. CASE q # r
      BY <1>3, <1>6, <2>1, <2>4, <3>2 DEF Turns
    <3> QED
      BY <3>1, <3>2
  <2> QED
    BY <1>0, <2>3, <2>4 DEF Turns
<1>8. InOrder'
  <2> SUFFICES ASSUME NEW i \in 1..Len(log), NEW j \in 1..Len(log), i < j,
                      stream'[log[i][1]] = stream'[log[j][1]],
                      \/ log[i][1] = log[j][1]
                      \/ {log[i][1], log[j][1]} \cap retried = {}
               PROVE  Before(log[i], log[j])
    <3>1. log' = log /\ retried' = retried
      BY <1>0
    <3> QED
      BY <3>1 DEF InOrder, Before
  <2>1. stream[log[i][1]] = stream[log[j][1]]
    BY <1>3, <1>4
  <2> QED
    BY <2>1 DEF InOrder
<1>9. Remembered' /\ NoDuplicate'
  BY <1>0 DEF Remembered, NoDuplicate
<1> QED
  BY <1>2, <1>5, <1>7, <1>8, <1>9

\* The chunk that appears is the next one of a row that has its turn, and was
\* not on Discord unless its nonce was forgotten.
LEMMA PostChunkOrder == ASSUME IInv, OrderInv, NEW r \in Rows, PostChunk(r) PROVE OrderInv'
<1> USE DEF OrderInv
<1> DEFINE m == <<r, idx[r]>>
<1>0. /\ m \in Rows \X Nat /\ status[r] = "sending" /\ idx[r] = done[r] /\ idx[r] < total[r]
      /\ nonces' = nonces \cup {m} /\ r <= count
      /\ log' = IF m \in nonces THEN log ELSE Append(log, m)
      /\ UNCHANGED <<count, stream, total, status, done, forgot, retried>>
      /\ log \in Seq(Rows \X Nat)
  BY DEF IInv, TypeOK, SenderOwnsRow, Fresh, PostChunk, Nonce, IsSending, store, bounds
<1>1. CASE m \in nonces
  <2>1. log' = log
    BY <1>0, <1>1
  <2>2. /\ status \in [Rows -> {"none"} \cup Active \cup Settled] /\ done \in [Rows -> Nat]
        /\ \A q \in Rows : status[q] = "sending" => HasTurn(q)
    BY DEF IInv, TypeOK, Turns
  <2> QED
    BY <1>0, <2>1, <2>2, QuietOrder
<1>2. CASE m \notin nonces
  <2> DEFINE L == Len(log)
  <2>1. /\ L \in Nat /\ Len(log') = L + 1 /\ log'[L + 1] = m
        /\ \A k \in 1..L : log'[k] = log[k] /\ log[k] \in Rows \X Nat
    BY <1>0, <1>2, GrowLog
  <2> HIDE DEF L
  <2>2. HasTurn(r) /\ \A q : HasTurn(q) => HasTurn(q)'
    BY <1>0 DEF Turns, HasTurn
  <2>3. Inserted' /\ Turns' /\ Remembered'
    <3>1. \A i \in 1..Len(log') : i \in 1..L \/ log'[i] = m
      BY <2>1
    <3>2. Inserted'
      BY <1>0 DEF Inserted
    <3>3. Turns'
      BY <1>0, <2>1, <2>2, <3>1 DEF Turns, L
    <3>4. Remembered'
      BY <1>0, <2>1, <3>1 DEF Remembered, L
    <3> QED
      BY <3>2, <3>3, <3>4
  <2>4. \A k \in 1..L : /\ log[k][1] \in Rows /\ log[k][2] \in Nat
                        /\ log[k][1] <= count /\ log[k][2] <= done[log[k][1]]
                        /\ log[k][2] < total[log[k][1]] /\ HasTurn(log[k][1])
    BY <2>1 DEF Logged, Turns, L
  <2>5. Logged'
    <3> SUFFICES ASSUME NEW i \in 1..(L + 1)
                 PROVE  /\ log'[i][1] <= count /\ log'[i][2] <= done[log'[i][1]]
                        /\ log'[i][2] < total[log'[i][1]]
      BY <1>0, <2>1 DEF Logged
    <3>1. CASE i \in 1..L
      BY <3>1, <2>1, <2>4
    <3>2. CASE i = L + 1
      BY <3>2, <2>1, <1>0 DEF IInv, TypeOK
    <3> QED
      BY <3>1, <3>2, <2>1
  <2>6. InOrder'
    <3> SUFFICES ASSUME NEW i \in 1..(L + 1), NEW j \in 1..(L + 1), i < j,
                        stream[log'[i][1]] = stream[log'[j][1]],
                        \/ log'[i][1] = log'[j][1]
                        \/ {log'[i][1], log'[j][1]} \cap retried = {}
                 PROVE  Before(log'[i], log'[j])
      <4>1. stream' = stream /\ retried' = retried /\ Len(log') = L + 1
        BY <1>0, <2>1
      <4> QED
        BY <4>1 DEF InOrder, Before
    <3>1. i \in 1..L /\ log'[i] = log[i]
      BY <2>1
    <3>2. CASE j \in 1..L
      BY <3>1, <3>2, <2>1 DEF InOrder, L
    <3>3. CASE j = L + 1
      <4>1. log'[j] = m /\ log[i][1] \in Rows /\ log[i][2] <= done[log[i][1]]
        BY <3>1, <3>3, <2>1, <2>4
      <4>2. CASE log[i][1] = r
        <5>1. log[i][2] <= idx[r] /\ log'[j][1] = r /\ log'[j][2] = idx[r]
          <6>1. m[1] = r /\ m[2] = idx[r]
            OBVIOUS
          <6> HIDE DEF m
          <6> QED
            BY <1>0, <4>1, <4>2, <6>1
        <5> QED
          BY <3>1, <4>2, <5>1 DEF Before
      <4>3. CASE log[i][1] # r
        <5>1. ~(r < log[i][1])
          <6>1. HasTurn(log[i][1]) /\ stream[r] = stream[log[i][1]] /\ r \notin retried
            BY <3>1, <4>1, <4>3, <2>4
          <6> QED
            BY <6>1, <1>0 DEF HasTurn
        <5> QED
          BY <3>1, <4>1, <4>3, <5>1 DEF Before
      <4> QED
        BY <4>2, <4>3
    <3> QED
      BY <3>2, <3>3, <2>1
  <2>7. NoDuplicate'
    <3>1. \A i \in 1..L : log[i] = m => m \in forgot
      BY <1>2 DEF Remembered, L
    <3>2. \A i, j \in 1..L : (i # j /\ log[i] = log[j]) => log[i] \in forgot
      BY DEF NoDuplicate, L
    <3>3. ASSUME NEW i \in 1..(L + 1), NEW j \in 1..(L + 1), i # j, log'[i] = log'[j]
          PROVE  log'[i] \in forgot
      <4>1. \A k \in 1..(L + 1) : k \in 1..L \/ k = L + 1
        BY <2>1
      <4>2. CASE i \in 1..L /\ j \in 1..L
        BY <2>1, <3>2, <3>3, <4>2
      <4>3. CASE i = L + 1 \/ j = L + 1
        BY <2>1, <3>1, <3>3, <4>1, <4>3, SMTT(30)
      <4> QED
        BY <4>1, <4>2, <4>3
    <3> QED
      BY <1>0, <2>1, <3>3 DEF NoDuplicate
  <2> QED
    BY <2>3, <2>5, <2>6, <2>7
<1> QED
  BY <1>1, <1>2

\* A claimed row is the oldest active one of its stream.
LEMMA ClaimDueOrder == ASSUME IInv, OrderInv, ClaimDue PROVE OrderInv'
<1> PICK C \in SUBSET {r \in 1..count : Claimable(r)} :
         status' = [r \in Rows |-> IF r \in C THEN "sending" ELSE status[r]]
  BY DEF ClaimDue
<1>0. /\ UNCHANGED <<count, stream, total, done, log, nonces, forgot, retried>>
      /\ status \in [Rows -> {"none"} \cup Active \cup Settled] /\ done \in [Rows -> Nat]
      /\ count \in 0..MaxRows
  BY DEF ClaimDue, discord, bounds, IInv, TypeOK
<1>1. \A r \in C : r \in 1..count /\ status[r] = "pending" /\ FirstOfStream(r)
  BY DEF Claimable
<1>2. \A r \in C : HasTurn(r)
  BY <1>0, <1>1, OutboxAssumption DEF HasTurn, FirstOfStream
<1>3. \A r \in Rows : status[r] = "sending" => HasTurn(r)
  BY DEF OrderInv, Turns
<1> QED
  BY <1>0, <1>1, <1>2, <1>3, QuietOrder

\* A step on the status of one inserted row, which does not send it.
LEMMA RowOrder ==
    ASSUME IInv, OrderInv, NEW r \in Rows,
           UNCHANGED <<count, stream, total, done, log, nonces, forgot>>, retried \subseteq retried',
           NEW st \in {"pending"} \cup Settled,
           status' = [status EXCEPT ![r] = st],
           st = "pending" => status[r] \in Active \/ r \in retried'
    PROVE  OrderInv'
<1>1. /\ status \in [Rows -> {"none"} \cup Active \cup Settled] /\ done \in [Rows -> Nat]
      /\ \A q \in Rows : status[q] = "sending" => HasTurn(q)
  BY DEF IInv, TypeOK, OrderInv, Turns
<1>2. /\ status' \in [Rows -> {"none"} \cup Active \cup Settled]
      /\ \A q \in Rows : status'[q] = status[q] \/ (q = r /\ status'[q] = st)
  <2> DEFINE S == {"none"} \cup Active \cup Settled
  <2>1. status \in [Rows -> S] /\ st \in S
    BY <1>1
  <2> HIDE DEF S
  <2>2. status' \in [Rows -> S] /\ \A q \in Rows : status'[q] = status[q] \/ (q = r /\ status'[q] = st)
    BY <2>1
  <2> QED
    BY <2>2 DEF S
<1>3. st # "none" /\ st # "sending" /\ (st \in Active => st = "pending")
  OBVIOUS
<1>4. /\ \A q \in Rows : status'[q] = "none" => status[q] = "none"
      /\ \A q \in Rows : status'[q] \in Active => status[q] \in Active \/ q \in retried'
      /\ \A q \in Rows : status'[q] = "sending" => HasTurn(q)
  BY <1>1, <1>2, <1>3
<1>5. \A q \in Rows : done[q] <= done[q]
  BY <1>1
<1> QED
  BY <1>1, <1>2, <1>4, <1>5, QuietOrder

\* Every other step is quiet.
LEMMA OtherOrder ==
    ASSUME IInv, OrderInv,
           \/ Crash \/ Restart \/ \E n \in nonces : ForgetNonce(n)
           \/ \E r \in Rows : \/ RecordChunk(r) \/ MarkDelivered(r) \/ Refused(r)
                              \/ AnswerLost(r) \/ Abandon(r) \/ BecomeDue(r)
                              \/ OpRetry(r) \/ OpDiscard(r) \/ Purge(r)
    PROVE  OrderInv'
<1>0. /\ status \in [Rows -> {"none"} \cup Active \cup Settled] /\ done \in [Rows -> Nat]
      /\ \A r \in Rows : status[r] = "sending" => HasTurn(r)
      /\ \A r \in Rows : done[r] \in Nat
  BY DEF IInv, TypeOK, OrderInv, Turns
<1>1. CASE Crash
  BY <1>0, <1>1, QuietOrder DEF Crash, store, discord
<1>2. CASE Restart
  BY <1>0, <1>2, QuietOrder DEF Restart, Recovered, discord, bounds
<1>3. ASSUME NEW n \in nonces, ForgetNonce(n) PROVE OrderInv'
  BY <1>0, <1>3, QuietOrder DEF ForgetNonce, store, bounds
<1>4. ASSUME NEW r \in Rows, RecordChunk(r) PROVE OrderInv'
  <2>1. \A q \in Rows : done[q] <= done'[q]
    BY <1>0, <1>4 DEF RecordChunk
  <2>2. done' \in [Rows -> Nat]
    BY <1>0, <1>4 DEF RecordChunk
  <2> QED
    BY <1>0, <1>4, <2>1, <2>2, QuietOrder DEF RecordChunk, discord, bounds
<1>5. ASSUME NEW r \in Rows, NEW st \in {"pending", "dead", "delivered"}, status[r] = "sending",
             status' = [status EXCEPT ![r] = st],
             UNCHANGED <<count, stream, total, done, log, nonces, forgot, retried>>
      PROVE  OrderInv'
  BY <1>5, RowOrder
<1>6. ASSUME NEW r \in Rows, UNCHANGED <<count, stream, total, status, done, log, nonces, forgot,
                                        retried>>
      PROVE  OrderInv'
  BY <1>0, <1>6, QuietOrder
<1>7. ASSUME NEW r \in Rows, MarkDelivered(r) PROVE OrderInv'
  BY <1>5, <1>6, <1>7 DEF MarkDelivered, discord, bounds
<1>8. ASSUME NEW r \in Rows, NEW kind, NEW aged, RecordFailure(r, kind, aged) PROVE OrderInv'
  <2>1. FailedStatus(r, kind, aged) \in {"dead", "pending"}
    BY DEF FailedStatus
  <2>2. \/ status' = status
        \/ status[r] = "sending" /\ status' = [status EXCEPT ![r] = FailedStatus(r, kind, aged)]
    BY <1>8 DEF RecordFailure
  <2>3. UNCHANGED <<count, stream, total, done, log, nonces, forgot, retried>>
    BY <1>8 DEF RecordFailure, discord, bounds
  <2> QED
    BY <1>5, <1>6, <2>1, <2>2, <2>3
<1>9. ASSUME NEW r \in Rows, Abandon(r) \/ BecomeDue(r) PROVE OrderInv'
  BY <1>6, <1>9 DEF Abandon, BecomeDue, store, discord, sender, bounds
<1>10. ASSUME NEW r \in Rows, OpRetry(r) PROVE OrderInv'
  <2>1. r \in retried' /\ retried \subseteq retried' /\ status' = [status EXCEPT ![r] = "pending"]
    BY <1>10 DEF OpRetry
  <2>2. UNCHANGED <<count, stream, total, done, log, nonces, forgot>>
    BY <1>10 DEF OpRetry, sender, discord
  <2> QED
    BY <2>1, <2>2, RowOrder
<1>11. ASSUME NEW r \in Rows, OpDiscard(r) \/ Purge(r) PROVE OrderInv'
  <2>1. PICK st \in {"discarded", "purged"} : status' = [status EXCEPT ![r] = st]
    BY <1>11 DEF OpDiscard, Purge
  <2>2. UNCHANGED <<count, stream, total, done, log, nonces, forgot, retried>>
    BY <1>11 DEF OpDiscard, Purge, sender, discord, bounds
  <2> QED
    BY <2>1, <2>2, RowOrder
<1> QED
  BY <1>1, <1>2, <1>3, <1>4, <1>7, <1>8, <1>9, <1>10, <1>11 DEF Refused, AnswerLost

\* Every step keeps the order.
LEMMA NextOrder == IInv /\ OrderInv /\ [Next]_vars => OrderInv'
<1> SUFFICES ASSUME IInv, OrderInv, [Next]_vars PROVE OrderInv'
  OBVIOUS
<1>1. CASE \E s \in Streams, n \in 1..MaxChunks : PostReply(s, n) \/ CrossSend(s, n)
  BY <1>1, EnqueueOrder DEF PostReply, CrossSend
<1>2. CASE ClaimDue \/ Crash \/ Restart
  BY <1>2, ClaimDueOrder, OtherOrder
<1>3. CASE \E r \in Rows : RowStep(r)
  BY <1>3, PostChunkOrder, OtherOrder DEF RowStep, SenderStep
<1>4. CASE \E n \in nonces : ForgetNonce(n)
  BY <1>4, OtherOrder
<1>5. CASE UNCHANGED vars
  <2>1. /\ UNCHANGED <<count, stream, total, status, done, log, nonces, forgot, retried>>
        /\ status \in [Rows -> {"none"} \cup Active \cup Settled] /\ done \in [Rows -> Nat]
        /\ \A r \in Rows : status[r] = "sending" => HasTurn(r)
    BY <1>5 DEF vars, store, sender, discord, bounds, IInv, TypeOK, OrderInv, Turns
  <2> QED
    BY <2>1, QuietOrder
<1> QED
  BY <1>1, <1>2, <1>3, <1>4, <1>5 DEF Next

\* The order invariant holds in every reachable state of the outbox.
THEOREM Ordered == Spec => []OrderInv
<1>1. Init => OrderInv
  BY InitOrder
<1>2. IInv /\ OrderInv /\ [Next]_vars => OrderInv'
  BY NextOrder
<1> QED
  BY <1>1, <1>2, Inductive, PTL DEF Spec

\* Replies of one channel appear in the order they were enqueued and unmixed
\* (claim_due, enqueue's claim): no failure, backoff, crash or cancelled sender
\* lets a younger row overtake, except a row an operator put back.
THEOREM Order == Spec => []InOrder
<1>1. OrderInv => InOrder
  BY DEF OrderInv
<1> QED
  BY <1>1, Ordered, PTL

\* A chunk appears twice only when Discord had forgotten its nonce
\* (outbox_send_row), whatever happened between the two POSTs.
THEOREM AtMostOnce == Spec => []NoDuplicate
<1>1. OrderInv => NoDuplicate
  BY DEF OrderInv
<1> QED
  BY <1>1, Ordered, PTL
-----------------------------------------------------------------------------
(* The refinement: every step of the outbox is one of Replies, or none.      *)

\* What a status means to Replies.
Meaning(st) ==
    IF st \in Active THEN "open" ELSE IF st \in {"none", "delivered"} THEN st ELSE "over"

Outcomes == [r \in Rows |-> Outcome(r)]
Shown == [r \in Rows |-> Appeared(r)]

LEMMA OutcomeIs == \A r : Outcome(r) = Meaning(status[r])
BY DEF Outcome, Meaning

\* A chunk has appeared when it was sent.
LEMMA AppearedIs ==
    ASSUME TypeOK, NEW r \in Rows
    PROVE  /\ Appeared(r) \subseteq Nat
           /\ \A c \in Nat : c \in Appeared(r) <=> Sent(log, r, c)
<1>1. \A i \in 1..Len(log) : log[i] \in Rows \X Nat
  BY DEF TypeOK
<1>2. ASSUME NEW c \in Nat, c \in Appeared(r) PROVE Sent(log, r, c)
  <2>1. PICK i \in 1..Len(log) : log[i][1] = r /\ log[i][2] = c
    BY <1>2 DEF Appeared
  <2> QED
    BY <1>1, <2>1, SMTT(30) DEF Sent
<1>3. ASSUME NEW c \in Nat, Sent(log, r, c) PROVE c \in Appeared(r)
  BY <1>3 DEF Appeared, Sent
<1>4. Appeared(r) \subseteq Nat
  BY <1>1 DEF Appeared
<1> QED
  BY <1>2, <1>3, <1>4

\* What has appeared of a row: the recorded chunks, and perhaps the next.
LEMMA AppearedRange ==
    ASSUME IInv, OrderInv, NEW r \in Rows
    PROVE  /\ Appeared(r) \subseteq 0..done[r]
           /\ 0..(done[r] - 1) \subseteq Appeared(r)
           /\ \A c \in Appeared(r) : c < total[r]
<1>0. TypeOK /\ done[r] \in Nat
  BY DEF IInv, TypeOK
<1>1. ASSUME NEW c \in Appeared(r) PROVE c \in 0..done[r] /\ c < total[r]
  <2>1. c \in Nat /\ Sent(log, r, c)
    BY <1>0, <1>1, AppearedIs
  <2>2. PICK i \in 1..Len(log) : log[i] = <<r, c>>
    BY <2>1 DEF Sent
  <2> QED
    BY <1>0, <2>1, <2>2 DEF OrderInv, Logged
<1>2. ASSUME NEW c \in 0..(done[r] - 1) PROVE c \in Appeared(r)
  <2>1. c \in Nat /\ c < done[r]
    BY <1>0
  <2> QED
    BY <1>0, <2>1, AppearedIs DEF IInv, Recorded
<1> QED
  BY <1>1, <1>2

\* A step that changes none of what Replies sees.
LEMMA QuietReplies ==
    ASSUME UNCHANGED <<stream, total, log, retried>>,
           \A r \in Rows : Meaning(status'[r]) = Meaning(status[r])
    PROVE  UNCHANGED R!repliesVars
<1>1. \A r \in Rows : Outcome(r)' = Outcome(r)
  BY OutcomeIs DEF Outcome, Meaning
<1>2. Outcomes' = Outcomes
  BY <1>1 DEF Outcomes
<1>3. Shown' = Shown
  BY DEF Shown, Appeared
<1> QED
  BY <1>2, <1>3 DEF R!repliesVars, Outcomes, Shown

\* A row's status changes, and with it its outcome.
LEMMA OutcomeUpdate ==
    ASSUME TypeOK, NEW r \in Rows, NEW st, status' = [status EXCEPT ![r] = st]
    PROVE  Outcomes' = [Outcomes EXCEPT ![r] = Meaning(st)]
<1>1. status \in [Rows -> {"none"} \cup Active \cup Settled]
  BY DEF TypeOK
<1>2. \A q \in Rows : status'[q] = IF q = r THEN st ELSE status[q]
  BY <1>1
<1>3. \A q \in Rows : Outcome(q)' = IF q = r THEN Meaning(st) ELSE Outcome(q)
  BY <1>2, OutcomeIs DEF Outcome, Meaning
<1> QED
  BY <1>3 DEF Outcomes

\* A row is handed over.
LEMMA EnqueueReplies ==
    ASSUME IInv, OrderInv, NEW s \in Streams, NEW n \in 1..MaxChunks, NEW want \in BOOLEAN,
           Enqueue(s, n, want)
    PROVE  R!RepliesNext
<1>0. PICK r \in Rows : r = count + 1
  BY OutboxAssumption DEF IInv, TypeOK, Enqueue
<1>1. PICK st \in Active : status' = [status EXCEPT ![r] = st]
  BY <1>0 DEF Enqueue
<1>2. Outcomes' = [Outcomes EXCEPT ![r] = "open"]
  BY <1>1, OutcomeUpdate DEF IInv, Meaning
<1>3. \A q \in Rows : Outcomes[q] = "none" <=> r <= q
  <2> SUFFICES ASSUME NEW q \in Rows PROVE Meaning(status[q]) = "none" <=> r <= q
    BY OutcomeIs DEF Outcomes
  <2>1. Meaning(status[q]) = "none" <=> status[q] = "none"
    BY DEF Meaning
  <2>2. r <= q <=> q > count
    BY <1>0 DEF IInv, TypeOK
  <2>3. q <= count <=> ~(q > count)
    BY DEF IInv, TypeOK
  <2> QED
    BY <2>1, <2>2, <2>3 DEF IInv, Fresh, OrderInv, Inserted
<1>4. /\ stream' = [stream EXCEPT ![r] = s] /\ total' = [total EXCEPT ![r] = n]
      /\ retried' = retried /\ Shown' = Shown
  BY <1>0 DEF Enqueue, discord, bounds, Shown, Appeared
<1>5. R!Submit(r, s, n)
  BY <1>2, <1>3, <1>4 DEF R!Submit, Outcomes, Shown
<1> QED
  BY <1>5 DEF R!RepliesNext

\* A chunk appears in its turn, or was there already.
LEMMA PostChunkReplies ==
    ASSUME IInv, OrderInv, NEW r \in Rows, PostChunk(r)
    PROVE  [R!RepliesNext]_(R!repliesVars)
<1> DEFINE c == idx[r]
           m == <<r, c>>
<1>0. /\ c \in Nat /\ c = done[r] /\ c < total[r] /\ total[r] \in 0..MaxChunks /\ m \in Rows \X Nat
      /\ status[r] = "sending" /\ TypeOK
      /\ log' = IF m \in nonces THEN log ELSE Append(log, m)
      /\ UNCHANGED <<stream, total, status, retried>>
  BY DEF IInv, TypeOK, SenderOwnsRow, PostChunk, Nonce, IsSending, store, bounds
<1> HIDE DEF c, m
<1>1. CASE m \in nonces
  BY <1>0, <1>1, QuietReplies
<1>2. CASE m \notin nonces
  <2> DEFINE L == Len(log)
  <2>1. /\ L \in Nat /\ Len(log') = L + 1 /\ log'[L + 1] = m
        /\ \A k \in 1..L : log'[k] = log[k] /\ log[k] \in Rows \X Nat
    <3>1. log \in Seq(Rows \X Nat) /\ log' = Append(log, m)
      BY <1>0, <1>2 DEF TypeOK
    <3>2. \A k \in 1..Len(log) : log[k] \in Rows \X Nat
      BY <3>1
    <3> QED
      BY <1>0, <3>1, <3>2, GrowLog
  <2> HIDE DEF L
  <2>2. \A q \in Rows : Appeared(q)' = Appeared(q) \cup (IF q = r THEN {c} ELSE {})
    <3> SUFFICES ASSUME NEW q \in Rows
                 PROVE  Appeared(q)' = Appeared(q) \cup (IF q = r THEN {c} ELSE {})
      OBVIOUS
    <3> DEFINE Old == {k \in 1..L : log[k][1] = q}
               New == {k \in 1..(L + 1) : log'[k][1] = q}
    <3>1. m[1] = r /\ m[2] = c
      BY DEF m
    <3>2. \A k \in 1..(L + 1) : k \in 1..L \/ k = L + 1
      BY <2>1
    <3>3. L + 1 \in 1..(L + 1) /\ L + 1 \notin 1..L /\ 1..L \subseteq 1..(L + 1)
      BY <2>1
    <3>4. New = Old \cup (IF q = r THEN {L + 1} ELSE {})
      BY <2>1, <3>1, <3>2, <3>3
    <3>5. \A k \in Old : log'[k] = log[k]
      BY <2>1
    <3>6. Appeared(q) = {log[i][2] : i \in Old} /\ Appeared(q)' = {log'[i][2] : i \in New}
      BY <2>1 DEF Appeared, L
    <3> HIDE DEF Old, New
    <3> QED
      BY <2>1, <3>1, <3>4, <3>5, <3>6
  <2>3. Shown' = [Shown EXCEPT ![r] = @ \cup {c}]
    BY <2>2 DEF Shown
  <2>4. Outcomes' = Outcomes
    BY <1>0, OutcomeIs DEF Outcomes, Outcome, Meaning
  <2>5. CASE c \in Appeared(r)
    <3>1. Shown' = Shown
      BY <2>3, <2>5 DEF Shown
    <3> QED
      BY <1>0, <2>4, <3>1 DEF R!repliesVars, Outcomes, Shown
  <2>6. CASE c \notin Appeared(r)
    <3>1. Appeared(r) = 0..(c - 1)
      <4>1. /\ Appeared(r) \subseteq 0..c /\ 0..(c - 1) \subseteq Appeared(r)
        BY <1>0, AppearedRange
      <4>2. \A x \in 0..c : x # c => x \in 0..(c - 1)
        BY <1>0
      <4> QED
        BY <2>6, <4>1, <4>2
    <3>2. R!ItsTurn(r)
      <4> SUFFICES ASSUME NEW q \in Rows, q < r, stream[q] = stream[r], Outcome(q) = "open"
                   PROVE  q \in retried
        BY DEF R!ItsTurn
      <4>1. status[q] \in Active
        BY OutcomeIs DEF Meaning
      <4> QED
        BY <1>0, <4>1 DEF OrderInv, Turns, HasTurn
    <3>3. Outcome(r) = "open"
      BY <1>0, OutcomeIs DEF Meaning
    <3>4. R!Show(r, c)
      BY <1>0, <2>3, <2>4, <3>1, <3>2, <3>3 DEF R!Show, Outcomes, Shown
    <3>5. c \in 0..(MaxChunks - 1)
      BY <1>0, OutboxAssumption
    <3> QED
      BY <3>4, <3>5 DEF R!RepliesNext
  <2> QED
    BY <2>5, <2>6
<1> QED
  BY <1>1, <1>2

\* A row leaves the table's care: delivered, given up, or deleted.
LEMMA SettleReplies ==
    ASSUME IInv, OrderInv, NEW r \in Rows, status[r] \in Active \cup Settled,
           NEW st \in {"pending"} \cup Settled, status' = [status EXCEPT ![r] = st],
           st = "pending" => status[r] \in Active,
           st = "delivered" => status[r] \in Active /\ done[r] = total[r],
           UNCHANGED <<stream, total, log, retried>>
    PROVE  [R!RepliesNext]_(R!repliesVars)
<1>1. Outcomes' = [Outcomes EXCEPT ![r] = Meaning(st)] /\ Shown' = Shown
  <2>1. TypeOK
    BY DEF IInv
  <2>2. Outcomes' = [Outcomes EXCEPT ![r] = Meaning(st)]
    BY <2>1, OutcomeUpdate
  <2>3. Shown' = Shown
    BY DEF Shown, Appeared
  <2> QED
    BY <2>2, <2>3
<1>2. Outcomes[r] = Meaning(status[r])
  BY OutcomeIs DEF Outcomes
<1>3. CASE Meaning(st) = Meaning(status[r])
  <2>1. Outcomes' = Outcomes
    BY <1>1, <1>2, <1>3 DEF Outcomes
  <2> QED
    BY <1>1, <2>1 DEF R!repliesVars, Outcomes, Shown
<1>4. CASE st = "delivered"
  <2>1. Outcomes[r] = "open" /\ Meaning(st) = "delivered"
    BY <1>2, <1>4 DEF Meaning
  <2>2. Appeared(r) = 0..(total[r] - 1)
    <3>1. done[r] \in Nat /\ done[r] = total[r]
      BY <1>4 DEF IInv, TypeOK
    <3>2. \A x \in 0..done[r] : x < total[r] => x \in 0..(total[r] - 1)
      BY <3>1
    <3> QED
      BY <3>1, <3>2, AppearedRange
  <2>3. R!Deliver(r)
    BY <1>1, <2>1, <2>2 DEF R!Deliver, Outcomes, Shown
  <2> QED
    BY <2>3 DEF R!RepliesNext
<1>5. CASE Meaning(st) = "over" /\ Meaning(status[r]) \in {"open", "delivered"}
  <2>1. R!GiveUp(r)
    BY <1>1, <1>2, <1>5 DEF R!GiveUp, Outcomes, Shown
  <2> QED
    BY <2>1 DEF R!RepliesNext
<1>6. Meaning(status[r]) \in {"open", "delivered", "over"}
  BY DEF Meaning
<1>7. CASE st = "pending"
  BY <1>3, <1>7 DEF Meaning
<1>8. CASE st \notin {"pending", "delivered"}
  <2>1. Meaning(st) = "over"
    BY <1>8 DEF Meaning
  <2> QED
    BY <1>3, <1>5, <1>6, <2>1
<1> QED
  BY <1>4, <1>7, <1>8

\* An operator's retry reopens the reply.
LEMMA RetryReplies ==
    ASSUME IInv, NEW r \in Rows, OpRetry(r)
    PROVE  R!RepliesNext
<1>1. /\ status[r] \in {"dead", "discarded"} /\ status' = [status EXCEPT ![r] = "pending"]
      /\ retried' = retried \cup {r} /\ UNCHANGED <<stream, total, log>>
  BY DEF OpRetry, sender, discord
<1>2. Outcomes' = [Outcomes EXCEPT ![r] = "open"]
  BY <1>1, OutcomeUpdate DEF IInv, Meaning
<1>3. Outcomes[r] = "over" /\ Shown' = Shown
  BY <1>1, OutcomeIs DEF Outcomes, Meaning, Shown, Appeared
<1>4. R!Reopen(r)
  BY <1>1, <1>2, <1>3 DEF R!Reopen, Outcomes, Shown
<1> QED
  BY <1>4 DEF R!RepliesNext

\* Every step of the outbox is a step of Replies or leaves it alone.
LEMMA NextReplies ==
    ASSUME IInv, OrderInv, [Next]_vars
    PROVE  [R!RepliesNext]_(R!repliesVars)
<1>0. \A r \in Rows : status[r] \in {"none"} \cup Active \cup Settled
  BY DEF IInv, TypeOK
<1>1. CASE \E s \in Streams, n \in 1..MaxChunks : PostReply(s, n) \/ CrossSend(s, n)
  BY <1>1, EnqueueReplies DEF PostReply, CrossSend
<1>2. CASE ClaimDue
  <2>1. PICK C \in SUBSET {r \in 1..count : Claimable(r)} :
            status' = [r \in Rows |-> IF r \in C THEN "sending" ELSE status[r]]
    BY <1>2 DEF ClaimDue
  <2>2. \A r \in C : status[r] = "pending"
    BY DEF Claimable
  <2>3. UNCHANGED <<stream, total, log, retried>>
    BY <1>2 DEF ClaimDue, discord, bounds
  <2> QED
    BY <2>1, <2>2, <2>3, QuietReplies DEF Meaning
<1>3. CASE Restart
  <2>1. \A r \in Rows : status'[r] = Recovered(r)
    BY <1>3 DEF Restart
  <2> QED
    BY <1>3, <2>1, QuietReplies DEF Restart, Recovered, Meaning, discord, bounds
<1>4. ASSUME UNCHANGED <<stream, total, status, log, retried>>
      PROVE  [R!RepliesNext]_(R!repliesVars)
  BY <1>4, QuietReplies
<1>5. CASE Crash \/ \E n \in nonces : ForgetNonce(n)
  BY <1>4, <1>5 DEF Crash, ForgetNonce, store, discord, bounds
<1>6. ASSUME NEW r \in Rows, RecordChunk(r) \/ Abandon(r) \/ BecomeDue(r)
      PROVE  [R!RepliesNext]_(R!repliesVars)
  BY <1>4, <1>6 DEF RecordChunk, Abandon, BecomeDue, store, sender, discord, bounds
<1>7. ASSUME NEW r \in Rows, MarkDelivered(r) PROVE [R!RepliesNext]_(R!repliesVars)
  <2>1. /\ status[r] = "sending" /\ done[r] = total[r]
        /\ status' = [status EXCEPT ![r] = "delivered"]
        /\ UNCHANGED <<stream, total, log, retried>>
    BY <1>7 DEF MarkDelivered, IsSending, SentAll, IInv, SenderOwnsRow, discord, bounds
  <2> QED
    BY <2>1, SettleReplies
<1>8. ASSUME NEW r \in Rows, NEW kind \in FailureKinds, NEW aged \in BOOLEAN, IsSending(r),
             RecordFailure(r, kind, aged)
      PROVE  [R!RepliesNext]_(R!repliesVars)
  <2>1. PICK st \in {"pending", "dead"} : st = FailedStatus(r, kind, aged)
    BY DEF FailedStatus
  <2>2. status[r] = "sending"
    BY <1>8 DEF IsSending, IInv, SenderOwnsRow
  <2>3. /\ status' = [status EXCEPT ![r] = st]
        /\ UNCHANGED <<stream, total, log, retried>>
    BY <1>8, <2>1, <2>2 DEF RecordFailure, discord, bounds
  <2> QED
    BY <2>1, <2>2, <2>3, SettleReplies
<1>9. ASSUME NEW r \in Rows, OpDiscard(r) \/ Purge(r) PROVE [R!RepliesNext]_(R!repliesVars)
  <2>1. PICK st \in {"discarded", "purged"} : status' = [status EXCEPT ![r] = st]
    BY <1>9 DEF OpDiscard, Purge
  <2>2. status[r] # "none" /\ UNCHANGED <<stream, total, log, retried>>
    BY <1>9 DEF OpDiscard, Discardable, Purge, sender, discord, bounds
  <2> QED
    BY <1>0, <2>1, <2>2, SettleReplies
<1>10. CASE \E r \in Rows : RowStep(r)
  BY <1>6, <1>7, <1>8, <1>9, <1>10, PostChunkReplies, RetryReplies
  DEF RowStep, SenderStep, Refused, AnswerLost, FailureKinds
<1>11. CASE UNCHANGED vars
  BY <1>4, <1>11 DEF vars, store, discord, bounds
<1> QED
  BY <1>1, <1>2, <1>3, <1>5, <1>10, <1>11 DEF Next

\* The empty outbox is the empty Replies.
LEMMA InitReplies == Init => R!RepliesInit
<1> SUFFICES ASSUME Init PROVE R!RepliesInit
  OBVIOUS
<1>1. Outcomes = [r \in Rows |-> "none"]
  BY OutcomeIs DEF Init, Outcomes, Meaning
<1>2. Shown = [r \in Rows |-> {}]
  BY DEF Init, Shown, Appeared
<1> QED
  BY <1>1, <1>2 DEF Init, R!RepliesInit, Outcomes, Shown

\* Table, senders, nonce cache, operator and crashes together implement Replies:
\* one reply after the other per stream, its chunks in order, delivered only when
\* whole (post_to_discord, outbox_pass, outbox_send_row, lib/outbox.py).
THEOREM Refinement == Spec => ImplementsReplies
<1>1. Init => R!RepliesInit
  BY InitReplies
<1>2. IInv /\ OrderInv /\ [Next]_vars => [R!RepliesNext]_(R!repliesVars)
  BY NextReplies
<1> QED
  BY <1>1, <1>2, Inductive, Ordered, PTL DEF Spec, ImplementsReplies, R!RepliesSpec
=============================================================================
