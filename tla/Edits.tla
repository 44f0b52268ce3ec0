-------------------------------- MODULE Edits --------------------------------
(***************************************************************************)
(* A person's edits of one message an agent may have seen: _message_edited *)
(* of bin/relay.py, handle_message_edit of bin/agent-server.py and         *)
(* edit_decision of lib/discord_ux.py.                                     *)
(*                                                                         *)
(* Each edit event is a task of the relay, then a request of the server.   *)
(* The request gives way at each statement: between load and UPDATE the    *)
(* shard may claim the row.  Texts are version numbers: 0 is the original. *)
(***************************************************************************)
EXTENDS Naturals, FiniteSets, Sequences

CONSTANTS
  MaxEdits,      \* bound: edits the person makes
  MaxFollowups,  \* edit_reroute's max_followups
  MaxReleases,   \* bound: times the row goes back to the queue
  Overlap        \* may an edit be made before the last one has been handled?

EditsAssumption ==
  /\ MaxEdits \in Nat /\ MaxFollowups \in Nat /\ MaxReleases \in Nat /\ Overlap \in BOOLEAN

EditIds == 1..MaxEdits
NoRow == [text |-> 0, status |-> "none"]

VARIABLES
  discord,     \* the version Discord shows
  base,        \* the message's row: text and status
  extra,       \* the follow-up rows, in order of their number
  edit,        \* [EditIds -> the task: stage, text, what its load saw]
  passed,      \* did the message's turn end with PASS or nothing?
  late,        \* has the edit window closed?
  answers,     \* [EditIds -> the status the request answered with]
  shown,       \* versions the agent's turns have been given
  releases

EditsVars == <<discord, base, extra, edit, passed, late, answers, shown, releases>>
rowVars == <<base, extra, passed, shown, releases>>

Idle == [stage |-> "none", text |-> 0, count |-> 0, open |-> 0, tries |-> 0]

EditsInit ==
  /\ discord = 0 /\ base = NoRow /\ extra = <<>>
  /\ edit = [e \in EditIds |-> Idle]
  /\ passed = FALSE /\ late = FALSE
  /\ answers = [e \in EditIds |-> "none"]
  /\ shown = {} /\ releases = 0

----------------------------------------------------------------------------
(* The row and its turns *)

\* The message itself reaches the queue, with the text it was posted with.
Inserted ==
  /\ base.status = "none" /\ (Overlap \/ discord = 0)
  /\ base' = [text |-> 0, status |-> "queued"]
  /\ UNCHANGED <<discord, extra, edit, passed, late, answers, shown, releases>>

\* claim_batch: the rows of one channel that are queued.
QueuedExtra == {i \in 1..Len(extra) : extra[i].status = "queued"}
Claimed(r) == IF r.status = "queued" THEN [r EXCEPT !.status = "inprogress"] ELSE r

Texts == (IF base.status = "queued" THEN {base.text} ELSE {}) \cup {extra[i].text : i \in QueuedExtra}

TurnStarts ==
  /\ base.status # "inprogress" /\ \A i \in 1..Len(extra) : extra[i].status # "inprogress"
  /\ Texts # {}
  /\ base' = Claimed(base)
  /\ extra' = [i \in 1..Len(extra) |-> Claimed(extra[i])]
  /\ shown' = shown \cup Texts
  /\ UNCHANGED <<discord, edit, passed, late, answers, releases>>

Running == base.status = "inprogress" \/ \E i \in 1..Len(extra) : extra[i].status = "inprogress"
Done(r) == IF r.status = "inprogress" THEN [r EXCEPT !.status = "done"] ELSE r

TurnEnds ==
  /\ Running
  /\ base' = Done(base)
  /\ extra' = [i \in 1..Len(extra) |-> Done(extra[i])]
  /\ passed' \in IF base.status = "inprogress" THEN BOOLEAN ELSE {passed}
  /\ UNCHANGED <<discord, edit, late, answers, shown, releases>>

\* hold_batch, release: the rows of the turn are queued again.
Back(r) == IF r.status = "inprogress" THEN [r EXCEPT !.status = "queued"] ELSE r

TurnReleased ==
  /\ Running /\ releases < MaxReleases
  /\ releases' = releases + 1
  /\ base' = Back(base)
  /\ extra' = [i \in 1..Len(extra) |-> Back(extra[i])]
  /\ UNCHANGED <<discord, edit, passed, late, answers, shown>>

----------------------------------------------------------------------------
(* An edit *)

Busy == \E e \in EditIds : edit[e].stage # "none" /\ answers[e] = "none"

\* The person edits; the event starts a task of the relay.
PersonEdits ==
  /\ discord < MaxEdits /\ (Overlap \/ (~Busy /\ base.status # "none"))
  /\ discord' = discord + 1
  /\ edit' = [edit EXCEPT ![discord'] = [Idle EXCEPT !.stage = "event"]]
  /\ UNCHANGED <<rowVars, late, answers>>

\* fetch_message: the text is the one Discord shows now.
Fetch(e) ==
  /\ edit[e].stage = "event"
  /\ edit' = [edit EXCEPT ![e].stage = "load", ![e].text = discord]
  /\ UNCHANGED <<discord, rowVars, late, answers>>

Answer(e, status) ==
  /\ answers' = [answers EXCEPT ![e] = status]
  /\ edit' = [edit EXCEPT ![e].stage = "over"]

\* The newest follow-up that is still queued, 0 when none is.
OpenExtra == IF QueuedExtra = {} THEN 0
             ELSE CHOOSE i \in QueuedExtra : \A j \in QueuedExtra : j <= i

\* edit_decision on what load returned.
Decision(e) ==
  CASE base.status = "none" -> "unknown"
    [] base.status # "none" /\ late -> "too_old"
    [] base.status # "none" /\ ~late /\ base.text = edit[e].text -> "unchanged"
    [] OTHER -> CASE base.status = "queued" -> "update"
                  [] base.status = "done" /\ passed -> "ignored"
                  [] OTHER -> IF OpenExtra # 0 THEN "update_followup"
                              ELSE IF Len(extra) >= MaxFollowups THEN "refused" ELSE "followup"

\* load() and the decision; the second one when the claim won the race.
Load(e) ==
  /\ edit[e].stage = "load"
  /\ IF Decision(e) \in {"update", "update_followup", "followup"}
     THEN /\ edit' = [edit EXCEPT ![e].stage = Decision(e), ![e].count = Len(extra),
                                  ![e].open = OpenExtra, ![e].tries = @ + 1]
          /\ UNCHANGED answers
     ELSE Answer(e, Decision(e))
  /\ UNCHANGED <<discord, rowVars, late>>

\* UPDATE ... WHERE processed = 0: the row count tells whether the claim won.
Won_Always(r) == TRUE
Won(r) == r.status = "queued"

Update(e) ==
  /\ edit[e].stage = "update"
  /\ IF Won(base)
     THEN /\ base' = IF base.status = "queued" THEN [base EXCEPT !.text = edit[e].text] ELSE base
          /\ Answer(e, "updated")
     ELSE /\ UNCHANGED base
          /\ IF edit[e].tries < 2
             THEN edit' = [edit EXCEPT ![e].stage = "load"] /\ UNCHANGED answers
             ELSE Answer(e, "unchanged")
  /\ UNCHANGED <<discord, extra, passed, late, shown, releases>>

FallsThrough_Always(e) == TRUE
FallsThrough(e) == edit[e].count < MaxFollowups

UpdateFollowup(e) ==
  /\ edit[e].stage = "update_followup"
  /\ LET i == edit[e].open
     IN  IF Won(extra[i])
         THEN /\ extra' = IF extra[i].status = "queued" THEN [extra EXCEPT ![i].text = edit[e].text]
                          ELSE extra
              /\ Answer(e, "updated")
         ELSE /\ UNCHANGED extra
              /\ IF FallsThrough(e)
                 THEN edit' = [edit EXCEPT ![e].stage = "followup"] /\ UNCHANGED answers
                 ELSE Answer(e, "refused")
  /\ UNCHANGED <<discord, base, passed, late, shown, releases>>

\* INSERT under the id edit:<message>:<n>; a number that exists is a duplicate.
Followup(e) ==
  /\ edit[e].stage = "followup"
  /\ IF edit[e].count + 1 <= Len(extra)
     THEN UNCHANGED extra /\ Answer(e, "duplicate")
     ELSE /\ extra' = Append(extra, [text |-> edit[e].text, status |-> "queued"])
          /\ Answer(e, "followup")
  /\ UNCHANGED <<discord, base, passed, late, shown, releases>>

WindowCloses ==
  /\ ~late /\ base.status # "none" /\ late' = TRUE
  /\ UNCHANGED <<discord, rowVars, edit, answers>>

EditsNext ==
  \/ Inserted \/ TurnStarts \/ TurnEnds \/ TurnReleased \/ PersonEdits \/ WindowCloses
  \/ \E e \in EditIds : Fetch(e) \/ Load(e) \/ Update(e) \/ UpdateFollowup(e) \/ Followup(e)

EditsSpec == EditsInit /\ [][EditsNext]_EditsVars

----------------------------------------------------------------------------
(* Properties *)

\* The versions an agent's turn has been or will be given.
Given == shown \cup Texts

\* The request answered without giving the text on: it was refused, or lost two claims
\* (with a release between them) and was told unchanged.
Refused(e) == \/ answers[e] \in {"unknown", "too_old", "ignored", "refused"}
              \/ answers[e] = "unchanged" /\ edit[e].tries = 2

\* Once every edit is handled, the agent has been given the text Discord shows, or will
\* be: an edit the server did not refuse is never lost to a claim that raced it.
EditReaches == (discord > 0 /\ ~Busy /\ ~Refused(discord)) => discord \in Given

\* A message never gets more follow-ups than its channel allows, though the number is
\* read before a claim that may force another row.
FollowupsCapped == Len(extra) <= MaxFollowups
=============================================================================
