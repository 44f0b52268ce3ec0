------------------------------- MODULE Outbox -------------------------------
(***************************************************************************)
(* The durable Discord outbox: the table and policy of lib/outbox.py, the  *)
(* sender outbox_send_row and its two callers in bin/agent-server.py (the  *)
(* inline pass of post_to_discord and the background outbox_loop), the     *)
(* operator's retry/discard, and a crash and restart of the server.        *)
(*                                                                         *)
(* A row is a number: its place in (created_at, rowid) order.  A stream is *)
(* an (agent, channel_id) pair, the unit of ordering.  The text of a row   *)
(* is abstracted to the number of chunks it splits into.                   *)
(***************************************************************************)
EXTENDS Naturals, Sequences, FiniteSets

CONSTANTS
    Streams,        \* (agent, channel_id) pairs
    MaxRows,        \* bound: rows ever enqueued
    MaxChunks,      \* bound: chunks of one row
    MaxAttempts,    \* MAX_ATTEMPTS of lib/outbox.py
    ClaimLimit,     \* LIMIT of claim_due
    MaxCrashes,     \* bound: server crashes
    MaxRetries,     \* bound: operator retries
    MaxForgets,     \* bound: nonces Discord forgets
    MaxAbandons     \* bound: senders cancelled or stopped by a store error

ASSUME OutboxAssumption ==
    /\ MaxRows \in Nat /\ MaxChunks \in Nat /\ MaxAttempts \in Nat \ {0}
    /\ ClaimLimit \in Nat \ {0}
    /\ MaxCrashes \in Nat /\ MaxRetries \in Nat /\ MaxAbandons \in Nat
    /\ MaxForgets \in Nat

Rows == 1..MaxRows
Active == {"pending", "sending"}
Settled == {"delivered", "dead", "discarded", "purged"}
NoStream == "none"
FailureKinds == {"retry", "ratelimit", "permanent"}

VARIABLES
    \* outbox.db
    count,      \* rows inserted so far: rows 1..count exist
    stream,     \* agent and channel_id
    total,      \* number of chunks of the content
    status,     \* status column ("none": not inserted yet)
    done,       \* chunks_done
    attempts,   \* attempts
    due,        \* next_attempt_at <= now
    \* the server process
    up,         \* the server runs
    inline,     \* rows an inline post_to_discord is sending
    batch,      \* rows the loop's current pass claimed and still has to finish
    idx,        \* the sender's chunk index, in its local loop
    landed,     \* the sender's POST was accepted, its answer not yet handled
    \* Discord
    log,        \* messages that appeared, <<row, chunk>>, oldest first
    nonces,     \* nonces Discord still deduplicates against
    \* history and bounds
    forgot,     \* chunks whose nonce Discord has forgotten
    retried,    \* rows an operator put back with retry
    crashes, retries, abandons

store == <<count, stream, total, status, done, attempts, due>>
sender == <<up, inline, batch, idx, landed>>
discord == <<log, nonces, forgot>>
bounds == <<retried, crashes, retries, abandons>>
vars == <<store, sender, discord, bounds>>

Init ==
    /\ count = 0
    /\ stream = [r \in Rows |-> NoStream]
    /\ total = [r \in Rows |-> 0]
    /\ status = [r \in Rows |-> "none"]
    /\ done = [r \in Rows |-> 0]
    /\ attempts = [r \in Rows |-> 0]
    /\ due = [r \in Rows |-> FALSE]
    /\ up = TRUE
    /\ inline = {} /\ batch = {}
    /\ idx = [r \in Rows |-> 0]
    /\ landed = [r \in Rows |-> FALSE]
    /\ log = <<>> /\ nonces = {} /\ forgot = {}
    /\ retried = {} /\ crashes = 0 /\ retries = 0 /\ abandons = 0

-----------------------------------------------------------------------------
(* Faulty variants of definitions below: each breaks a property. *)

\* claim_due looks only at rows in `sending`
FirstOfStream_SendingOnly(r) ==
    \A q \in 1..count : (q < r /\ stream[q] = stream[r]) => status[q] # "sending"

\* the chunk loop stops one short
SentAll_OffByOne(r) == idx[r] + 1 >= total[r]

\* the attempt limit is compared before the increment
FailedStatus_LateLimit(r, kind, aged) ==
    IF kind = "permanent" \/ attempts[r] > MaxAttempts \/ aged THEN "dead" ELSE "pending"

\* the operator may discard a row in flight
Discardable_Sending == {"pending", "sending", "dead"}

\* boot forgets recover_sending
Recovered_Not(r) == status[r]

\* the nonce changes with every attempt
Nonce_PerAttempt(r, i) == <<r, i + MaxChunks * attempts[r]>>

-----------------------------------------------------------------------------
(* Queries of the table *)

\* Some row of the stream is pending or sending.
OlderActive(s) == \E q \in 1..count : stream[q] = s /\ status[q] \in Active

\* No older pending/sending row of the same stream: the NOT EXISTS of claim_due.
FirstOfStream(r) ==
    \A q \in 1..count : (q < r /\ stream[q] = stream[r]) => status[q] \notin Active

Claimable(r) == status[r] = "pending" /\ due[r] /\ FirstOfStream(r)

\* The nonce of a chunk: 12 hex digits of the row id and the chunk index.
Nonce(r, i) == <<r, i>>

-----------------------------------------------------------------------------
(* Senders.  The loop sends the rows of its batch one after the other, in   *)
(* created_at order; every inline caller sends its own row.                 *)

IsSending(r) == up /\ (r \in inline \/ (r \in batch /\ \A q \in batch : r <= q))

\* The sender of r is through with it.
Leave(r) ==
    /\ inline' = inline \ {r}
    /\ batch' = batch \ {r}
    /\ landed' = [landed EXCEPT ![r] = FALSE]
    /\ idx' = [idx EXCEPT ![r] = 0]     \* a local variable: gone

\* enqueue.  A caller that asks for the row (want) owns it, and sends it, only when
\* no active row of the stream is in the table.
Enqueue(s, n, want) ==
    /\ up /\ count < MaxRows
    /\ LET r == count + 1
           claimed == want /\ ~OlderActive(s)
       IN  /\ count' = r
           /\ stream' = [stream EXCEPT ![r] = s]
           /\ total' = [total EXCEPT ![r] = n]
           /\ status' = [status EXCEPT ![r] = IF claimed THEN "sending" ELSE "pending"]
           /\ due' = [due EXCEPT ![r] = TRUE]
           /\ inline' = IF claimed THEN inline \cup {r} ELSE inline
    /\ UNCHANGED <<done, attempts, up, batch, idx, landed, discord, bounds>>

\* post_to_discord, for a reply with something to show in it: the caller sends it
\* inline when it got the row.  (With the store unusable the reply leaves the
\* outbox's sight: one direct attempt, nothing stored.)
PostReply(s, n) == Enqueue(s, n, TRUE)

\* handle_send, the cross-channel `send` tool, past its checks: the row is left to
\* the loop.
CrossSend(s, n) == Enqueue(s, n, FALSE)

\* outbox_pass: one UPDATE claims up to LIMIT due rows; each is a snapshot
\* whose chunks_done is where its sender starts.
ClaimDue ==
    /\ up /\ batch = {}
    /\ \E C \in SUBSET {r \in 1..count : Claimable(r)} :
         /\ C # {} /\ Cardinality(C) <= ClaimLimit
         /\ \A r \in 1..count : Claimable(r) /\ r \notin C =>     \* oldest first
              Cardinality(C) = ClaimLimit /\ \A c \in C : c < r
         /\ status' = [r \in Rows |-> IF r \in C THEN "sending" ELSE status[r]]
         /\ idx' = [r \in Rows |-> IF r \in C THEN done[r] ELSE idx[r]]
         /\ batch' = C
    /\ UNCHANGED <<count, stream, total, done, attempts, due, up, inline, landed, discord, bounds>>

\* The POST of the next chunk is accepted by Discord, which shows a message
\* unless it remembers the nonce.  The answer is still on its way.  (A first
\* POST refused as too large because of its files changes nothing: the sender
\* posts the chunk again without them, under the same nonce.)
PostChunk(r) ==
    /\ IsSending(r) /\ ~landed[r] /\ idx[r] < total[r]
    /\ landed' = [landed EXCEPT ![r] = TRUE]
    /\ LET n == Nonce(r, idx[r])
       IN  /\ nonces' = nonces \cup {n}
           /\ log' = IF n \in nonces THEN log ELSE Append(log, <<r, idx[r]>>)
    /\ UNCHANGED <<store, up, inline, batch, idx, forgot, bounds>>

\* The 200/201 arrives: record_chunk (guarded by status='sending'), next chunk.
RecordChunk(r) ==
    /\ IsSending(r) /\ landed[r]
    /\ done' = IF status[r] = "sending" THEN [done EXCEPT ![r] = @ + 1] ELSE done
    /\ idx' = [idx EXCEPT ![r] = @ + 1]
    /\ landed' = [landed EXCEPT ![r] = FALSE]
    /\ UNCHANGED <<count, stream, total, status, attempts, due, up, inline, batch, discord, bounds>>

\* The loop over the chunks ended.
SentAll(r) == idx[r] = total[r]

\* mark_delivered, guarded by status='sending'.
MarkDelivered(r) ==
    /\ IsSending(r) /\ ~landed[r] /\ SentAll(r)
    /\ status' = IF status[r] = "sending" THEN [status EXCEPT ![r] = "delivered"] ELSE status
    /\ Leave(r)
    /\ UNCHANGED <<count, stream, total, done, attempts, due, up, discord, bounds>>

\* record_failure's verdict: dead on a permanent failure, at the attempt limit,
\* or when the row is older than max_age_s; else back to pending.
FailedStatus(r, kind, aged) ==
    IF kind = "permanent" \/ attempts[r] + 1 >= MaxAttempts \/ aged THEN "dead" ELSE "pending"

\* record_failure, guarded by status='sending'; a pending row waits for its backoff.
RecordFailure(r, kind, aged) ==
    /\ IF status[r] = "sending"
       THEN /\ status' = [status EXCEPT ![r] = FailedStatus(r, kind, aged)]
            /\ attempts' = [attempts EXCEPT ![r] = @ + 1]
            /\ due' = [due EXCEPT ![r] = FALSE]
       ELSE UNCHANGED <<status, attempts, due>>
    /\ Leave(r)
    /\ UNCHANGED <<count, stream, total, done, up, discord, bounds>>

\* The POST is refused or never reaches Discord (or the row has no token, no
\* visible chunk, an unreadable file): the failure has a kind from classify.
Refused(r) ==
    /\ IsSending(r) /\ ~landed[r] /\ idx[r] < total[r]
    /\ \E kind \in FailureKinds, aged \in BOOLEAN : RecordFailure(r, kind, aged)

\* Discord accepted the POST but the sender sees a timeout, a broken answer, or
\* a store error in record_chunk: a network failure, kind "retry".
AnswerLost(r) ==
    /\ IsSending(r) /\ landed[r]
    /\ \E aged \in BOOLEAN : RecordFailure(r, "retry", aged)

\* The sending task is cancelled, or the store fails while it settles the row:
\* the row stays `sending` with no sender until the next boot.
Abandon(r) ==
    /\ IsSending(r) /\ abandons < MaxAbandons
    /\ abandons' = abandons + 1
    /\ Leave(r)
    /\ UNCHANGED <<store, up, discord, retried, crashes, retries>>

\* The backoff of a row ends.
BecomeDue(r) ==
    /\ status[r] = "pending" /\ ~due[r]
    /\ due' = [due EXCEPT ![r] = TRUE]
    /\ UNCHANGED <<count, stream, total, status, done, attempts, sender, discord, bounds>>

-----------------------------------------------------------------------------
(* Operator, housekeeping, crash, Discord *)

OpRetry(r) ==
    /\ retries < MaxRetries /\ status[r] \in {"dead", "discarded"}
    /\ retries' = retries + 1
    /\ retried' = retried \cup {r}
    /\ status' = [status EXCEPT ![r] = "pending"]
    /\ attempts' = [attempts EXCEPT ![r] = 0]
    /\ due' = [due EXCEPT ![r] = TRUE]
    /\ UNCHANGED <<count, stream, total, done, sender, discord, crashes, abandons>>

\* The statuses discard accepts.
Discardable == {"pending", "dead"}

OpDiscard(r) ==
    /\ status[r] \in Discardable
    /\ status' = [status EXCEPT ![r] = "discarded"]
    /\ due' = [due EXCEPT ![r] = FALSE]
    /\ UNCHANGED <<count, stream, total, done, attempts, sender, discord, bounds>>

\* purge (the purge-data script) deletes settled rows after their retention.
Purge(r) ==
    /\ status[r] \in {"delivered", "dead", "discarded"}
    /\ status' = [status EXCEPT ![r] = "purged"]
    /\ UNCHANGED <<count, stream, total, done, attempts, due, sender, discord, bounds>>

\* The server dies: every sender is gone, the table is as it was.
Crash ==
    /\ up /\ crashes < MaxCrashes
    /\ up' = FALSE /\ crashes' = crashes + 1
    /\ inline' = {} /\ batch' = {}
    /\ landed' = [r \in Rows |-> FALSE]
    /\ idx' = [r \in Rows |-> 0]
    /\ UNCHANGED <<store, discord, retried, retries, abandons>>

\* recover_sending: a row left in `sending` is pending and due again.
Recovered(r) == IF status[r] = "sending" THEN "pending" ELSE status[r]

\* Boot: outbox_loop runs recover_sending before its first pass.
Restart ==
    /\ ~up /\ up' = TRUE
    /\ status' = [r \in Rows |-> Recovered(r)]
    /\ due' = [r \in Rows |-> due[r] \/ status[r] = "sending"]
    /\ UNCHANGED <<count, stream, total, done, attempts, inline, batch, idx, landed, discord, bounds>>

\* Discord deduplicates a nonce only for a while.
ForgetNonce(n) ==
    /\ n \in nonces /\ Cardinality(forgot) < MaxForgets
    /\ nonces' = nonces \ {n}
    /\ forgot' = forgot \cup {n}
    /\ UNCHANGED <<store, sender, log, bounds>>

-----------------------------------------------------------------------------
SenderStep(r) ==
    \/ PostChunk(r) \/ RecordChunk(r) \/ MarkDelivered(r) \/ Refused(r) \/ AnswerLost(r)

RowStep(r) ==
    \/ SenderStep(r) \/ Abandon(r) \/ BecomeDue(r)
    \/ OpRetry(r) \/ OpDiscard(r) \/ Purge(r)

Next ==
    \/ \E s \in Streams, n \in 1..MaxChunks : PostReply(s, n) \/ CrossSend(s, n)
    \/ ClaimDue \/ Crash \/ Restart
    \/ \E r \in Rows : RowStep(r)
    \/ \E n \in nonces : ForgetNonce(n)

Spec == Init /\ [][Next]_vars

\* The loop always runs another pass, a POST always ends (the HTTP client times
\* out), a backoff ends, and supervisord restarts the server.
Fairness ==
    /\ WF_vars(ClaimDue) /\ WF_vars(Restart)
    /\ \A r \in Rows : WF_vars(SenderStep(r)) /\ WF_vars(BecomeDue(r))

FairSpec == Spec /\ Fairness
-----------------------------------------------------------------------------
(* Properties *)

\* The columns and the senders' local state hold values the schema allows; a
\* row never makes more than MAX_ATTEMPTS attempts (record_failure).
TypeOK ==
    /\ count \in 0..MaxRows
    /\ stream \in [Rows -> Streams \cup {NoStream}]
    /\ total \in [Rows -> 0..MaxChunks]
    /\ status \in [Rows -> {"none"} \cup Active \cup Settled]
    /\ done \in [Rows -> Nat]
    /\ attempts \in [Rows -> 0..MaxAttempts]
    /\ due \in [Rows -> BOOLEAN]
    /\ up \in BOOLEAN
    /\ inline \subseteq Rows /\ batch \subseteq Rows
    /\ idx \in [Rows -> Nat]
    /\ landed \in [Rows -> BOOLEAN]
    /\ log \in Seq(Rows \X Nat)
    /\ nonces \subseteq Rows \X Nat
    /\ forgot \subseteq Rows \X Nat
    /\ retried \subseteq Rows
    /\ crashes \in 0..MaxCrashes /\ retries \in 0..MaxRetries /\ abandons \in 0..MaxAbandons

\* A row is sent by one sender at a time, and nobody (the operator, another
\* sender, boot recovery) moves a row out of `sending` or moves its chunks_done
\* under the sender: the guards of record_chunk, mark_delivered and
\* record_failure never fail, and the local index agrees with the table.
SenderOwnsRow ==
    /\ inline \cap batch = {}
    /\ \A r \in inline \cup batch : status[r] = "sending" /\ idx[r] = done[r]

Before(a, b) == a[1] < b[1] \/ (a[1] = b[1] /\ a[2] <= b[2])

\* "a fresh reply never overtakes one in backoff" (post_to_discord): in one
\* channel, rows appear in the order they were enqueued and unmixed, and a row's
\* chunks in their order, whatever fails, crashes or is retried; only a row
\* the operator put back by hand may appear late.
InOrder ==
    \A i, j \in 1..Len(log) :
        LET a == log[i]
            b == log[j]
        IN  (i < j /\ stream[a[1]] = stream[b[1]]
                  /\ (a[1] = b[1] \/ {a[1], b[1]} \cap retried = {}))
            => Before(a, b)

\* A reply marked delivered is on Discord whole: every chunk of it appeared.
DeliveredWhole ==
    \A r \in 1..count :
        status[r] = "delivered" =>
            \A c \in 0..(total[r] - 1) : \E i \in 1..Len(log) : log[i] = <<r, c>>

\* "a POST that succeeded just before a crash is deduplicated by Discord on the
\* retry" (outbox_send_row): a chunk appears twice only when Discord had
\* forgotten its nonce in between.
NoDuplicate ==
    \A i, j \in 1..Len(log) : (i # j /\ log[i] = log[j]) => log[i] \in forgot

\* The refinement mapping: a reply is open while its row is pending or sending, and
\* a chunk has appeared when it is on Discord.
Outcome(r) ==
    CASE status[r] \in Active -> "open"
      [] status[r] \in {"none", "delivered"} -> status[r]
      [] OTHER -> "over"
Appeared(r) == {log[i][2] : i \in {k \in 1..Len(log) : log[k][1] = r}}

R == INSTANCE Replies WITH
         Channels <- Streams, Replying <- Rows, MaxSize <- MaxChunks,
         channel <- stream, size <- total, reopened <- retried,
         outcome <- [r \in Rows |-> Outcome(r)],
         shown <- [r \in Rows |-> Appeared(r)]

\* Table, senders, nonces, crashes and retries together do what Replies says: per
\* channel one reply after the other, its chunks in order, delivered when whole,
\* reopened only by an operator.
ImplementsReplies == R!RepliesSpec

\* Every durable reply is delivered, dead (and visible to the operator) or
\* discarded in the end: no row waits forever behind a failure or a crash.
EverySettled == \A r \in Rows : status[r] # "none" ~> status[r] \in Settled

\* What the configurations bound and exchange.
CONSTANT MaxFaults      \* bound: retries, abandoned sends and forgotten nonces together

FewFaults == retries + abandons + Cardinality(forgot) <= MaxFaults

LOCAL INSTANCE TLC
StreamSymmetry == Permutations(Streams)
=============================================================================
