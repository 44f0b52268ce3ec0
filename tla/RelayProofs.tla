---------------------------- MODULE RelayProofs ----------------------------
(***************************************************************************)
(* What holds of the relay for every size of its queues, limits, clocks    *)
(* and sets of agents, channels and briefs.  One section per component:    *)
(* its inductive invariant, that it holds at first and that each step      *)
(* keeps it.  The last section carries the invariants over to the relay    *)
(* as a whole.                                                             *)
(***************************************************************************)
EXTENDS MCRelay, Integers, FiniteSetTheorems, WellFoundedInduction, TLAPS

\* A set of naturals has a least member.
LEMMA LeastOne ==
  ASSUME NEW S \in SUBSET Nat, S # {} PROVE \E x \in S : \A y \in S : x <= y
<1>1. IsWellFoundedOn(OpToRel(<, Nat), Nat)  BY NatLessThanWellFounded
<1>2. PICK x \in S : \A y \in S : ~(<<y, x>> \in OpToRel(<, Nat))  BY <1>1, WFMin
<1>3. ASSUME NEW y \in S PROVE x <= y
  <2>2. x \in Nat /\ y \in Nat  BY SMT
  <2>1. y < x => <<y, x>> \in OpToRel(<, Nat)  BY <2>2, Zenon DEF OpToRel
  <2>3. ~(y < x)  BY <1>2, <2>1, Zenon
  <2> QED  BY <2>2, <2>3
<1> QED  BY <1>3

\* A set of naturals below a bound has a greatest member.
LEMMA GreatestOne ==
  ASSUME NEW n \in Nat, NEW S \in SUBSET (0 .. n), S # {}
  PROVE  \E x \in S : \A y \in S : y <= x
<1> DEFINE T == {k \in Nat : k <= n /\ n - k \in S}
<1>1. PICK s \in S : TRUE  OBVIOUS
<1>2. n - s \in T  BY <1>1
<1>3. PICK x \in T : \A y \in T : x <= y  BY <1>2, LeastOne
<1>4. \A y \in S : n - y \in T  OBVIOUS
<1>5. n - x \in S /\ \A y \in S : y <= n - x  BY <1>3, <1>4
<1> QED  BY <1>5

-----------------------------------------------------------------------------
(* Inbound *)

\* A row that was taken was given to one turn, the message the flusher has a 202 for is
\* in the table, and the channel has been told of the budget exactly when it is spent.
InboundTypes ==
  /\ itask \in [Msgs -> {"none", "ask", "classify", "send", "command", "dropped", "sent"}]
  /\ file \in [Msgs -> {"none", "spool", "stale", "invalid"}]
  /\ irow \in [Msgs -> {"none", "queued", "done", "flushed"}]
  /\ runs \in [Msgs -> Nat]
  /\ guestTurns \in Nat /\ told \in Nat /\ announced \in BOOLEAN
  /\ firing \in Msgs \cup {0}
TakenAs == \A m \in Msgs : runs[m] = IF irow[m] = "done" THEN 1 ELSE 0
FiredIsIn == firing # 0 => irow[firing] # "none"
ToldOnce ==
  /\ announced <=> guestTurns > GuestLimit
  /\ told = IF announced THEN 1 ELSE 0
InboundInv == InboundTypes /\ TakenAs /\ FiredIsIn /\ NotDropped /\ ToldOnce

LEMMA LimitIsNat == ASSUME InboundAssumption PROVE GuestLimit \in Nat
BY DEF InboundAssumption

LEMMA InboundStarts == ASSUME InboundAssumption PROVE InboundInit => InboundInv
<1> SUFFICES ASSUME InboundInit PROVE InboundInv
    OBVIOUS
<1>1. InboundTypes  BY DEF InboundInit, InboundTypes
<1>2. TakenAs /\ FiredIsIn /\ NotDropped  BY DEF InboundInit, TakenAs, FiredIsIn, NotDropped
<1>3. ToldOnce
  <2>1. ~(0 > GuestLimit)  BY LimitIsNat
  <2> QED  BY <2>1 DEF InboundInit, ToldOnce
<1> QED  BY <1>1, <1>2, <1>3 DEF InboundInv

\* A step of the relay before the POST: no message is sent by it, the table and the spool
\* are not touched, and the guest budget is as the step says.
LEMMA RelayStep ==
  ASSUME InboundAssumption, InboundInv, NEW m, NEW t \in {"ask", "classify", "send", "command", "dropped"},
         itask' = [itask EXCEPT ![m] = t],
         ToldOnce', guestTurns' \in Nat, told' \in Nat, announced' \in BOOLEAN,
         UNCHANGED <<spool, irow, runs, vanished>>
  PROVE  InboundInv'
BY DEF InboundInv, InboundTypes, TakenAs, FiredIsIn, NotDropped, spool

\* Goes sends nothing itself: it leaves the task at a step before the POST.
LEMMA GoesOn ==
  ASSUME NEW m, NEW k, NEW verdict, Goes(m, k, verdict)
  PROVE  \E t \in {"ask", "classify", "send", "command", "dropped"} : itask' = [itask EXCEPT ![m] = t]
BY DEF Goes

\* A request the server accepts leaves every row where it is but puts the message's own
\* in the table, if it was not there.
LEMMA AcceptStep ==
  ASSUME InboundInv, NEW m \in Msgs, Accepts(m)
  PROVE  /\ irow' \in [Msgs -> {"none", "queued", "done", "flushed"}] /\ TakenAs' /\ irow'[m] # "none"
         /\ runs' = runs /\ \A n \in Msgs : irow[n] # "none" => irow'[n] # "none"
<1>1. CASE Duplicate(m)
    BY <1>1 DEF Accepts, Duplicate, InboundInv, InboundTypes, TakenAs
<1>2. CASE ~Duplicate(m)
    BY <1>2 DEF Accepts, Duplicate, InboundInv, InboundTypes, TakenAs
<1> QED  BY <1>1, <1>2

LEMMA InboundSteps ==
  ASSUME InboundAssumption, InboundInv, [InboundNext]_InboundVars PROVE InboundInv'
<1> USE DEF InboundInv
<1>1. ASSUME NEW k \in Speakers, NEW r \in {"none", "agent", "person"}, PersonPosts(k, r)
      PROVE  InboundInv'
  <2>1. PICK t \in {"ask", "classify", "send", "command", "dropped"} : itask' = [itask EXCEPT ![Posted] = t]
      BY <1>1, GoesOn DEF PersonPosts
  <2>2. guestTurns' = 0 /\ announced' = FALSE /\ told' = 0 /\ UNCHANGED <<spool, irow, runs, vanished>>
      BY <1>1 DEF PersonPosts, Announced, server
  <2>3. ~(0 > GuestLimit)  BY LimitIsNat
  <2>4. ToldOnce' /\ guestTurns' \in Nat /\ told' \in Nat /\ announced' \in BOOLEAN
      BY <2>2, <2>3 DEF ToldOnce
  <2> QED  BY <2>1, <2>2, <2>4, RelayStep
<1>2. ASSUME NEW k \in Speakers, GuestPosts(k) PROVE InboundInv'
  <2>1. PICK t \in {"ask", "classify", "send", "command", "dropped"} : itask' = [itask EXCEPT ![Posted] = t]
      BY <1>2, GoesOn DEF GuestPosts
  <2>2. UNCHANGED <<spool, irow, runs, vanished>>  BY <1>2 DEF GuestPosts, server
  <2>3. ToldOnce' /\ guestTurns' \in Nat /\ told' \in Nat /\ announced' \in BOOLEAN
    <3>1. CASE ~Mentions(k)
        BY <1>2, <3>1 DEF GuestPosts, guests, ToldOnce, InboundTypes
    <3>2. CASE Mentions(k)
      <4>1. /\ guestTurns' = guestTurns + 1
            /\ announced' = (announced \/ guestTurns' > GuestLimit)
            /\ told' = IF guestTurns' > GuestLimit /\ ~announced THEN told + 1 ELSE told
          BY <1>2, <3>2 DEF GuestPosts
      <4>2. GuestLimit \in Nat /\ guestTurns \in Nat /\ told \in Nat /\ announced \in BOOLEAN
          BY LimitIsNat DEF InboundTypes
      <4>3. (announced <=> guestTurns > GuestLimit) /\ told = IF announced THEN 1 ELSE 0
          BY DEF ToldOnce
      <4>4. CASE announced
        <5>1. guestTurns > GuestLimit /\ told = 1  BY <4>3, <4>4
        <5>2. guestTurns' > GuestLimit /\ told' = 1  BY <4>1, <4>2, <4>4, <5>1
        <5>3. announced' = TRUE  BY <4>1, <4>4
        <5> QED  BY <4>1, <4>2, <5>2, <5>3 DEF ToldOnce
      <4>5. CASE ~announced /\ guestTurns + 1 > GuestLimit
        <5>1. guestTurns' > GuestLimit /\ told = 0  BY <4>1, <4>3, <4>5
        <5>2. told' = 1  BY <4>1, <4>5, <5>1
        <5>3. announced' = TRUE  BY <4>1, <5>1
        <5> QED  BY <4>1, <4>2, <5>1, <5>2, <5>3 DEF ToldOnce
      <4>6. CASE ~announced /\ ~(guestTurns + 1 > GuestLimit)
          BY <4>1, <4>2, <4>3, <4>6 DEF ToldOnce
      <4> QED  BY <4>4, <4>5, <4>6
    <3> QED  BY <3>1, <3>2
  <2> QED  BY <2>1, <2>2, <2>3, RelayStep
<1>3. ASSUME NEW owner \in BOOLEAN, NEW named \in BOOLEAN, CommandPosts(owner, named)
      PROVE  InboundInv'
  <2>1. PICK t \in {"command", "dropped"} : itask' = [itask EXCEPT ![Posted] = t]
      BY <1>3 DEF CommandPosts
  <2>2. /\ ToldOnce' /\ guestTurns' \in Nat /\ told' \in Nat /\ announced' \in BOOLEAN
        /\ UNCHANGED <<spool, irow, runs, vanished>>
      BY <1>3 DEF CommandPosts, guests, ToldOnce, InboundTypes, server
  <2> QED  BY <2>1, <2>2, RelayStep
<1>4. ASSUME NEW m \in Msgs, Classify(m) \/ AskFails(m) \/ CommandFails(m)
                             \/ \E v \in {"engage", "silent"} : Classified(m, v)
      PROVE  InboundInv'
  <2>1. PICK t \in {"ask", "classify", "send", "command", "dropped"} : itask' = [itask EXCEPT ![m] = t]
      BY <1>4, GoesOn DEF Classify, AskFails, CommandFails, Answered, Classified
  <2>2. UNCHANGED <<guests, spool, irow, runs, vanished>>
      BY <1>4 DEF Classify, AskFails, CommandFails, Classified, server
  <2>3. ToldOnce' /\ guestTurns' \in Nat /\ told' \in Nat /\ announced' \in BOOLEAN
      BY <2>2 DEF guests, ToldOnce, InboundTypes
  <2> QED  BY <2>1, <2>2, <2>3, RelayStep
<1>5. ASSUME NEW m \in Msgs, PostAccepted(m) \/ PostAnswerLost(m) PROVE InboundInv'
  <2>1. /\ irow' \in [Msgs -> {"none", "queued", "done", "flushed"}] /\ TakenAs' /\ irow'[m] # "none"
        /\ runs' = runs /\ \A n \in Msgs : irow[n] # "none" => irow'[n] # "none"
      BY <1>5, AcceptStep DEF PostAccepted, PostAnswerLost
  <2>2. /\ itask' = [itask EXCEPT ![m] = "sent"] /\ (file' = file \/ file' = [file EXCEPT ![m] = "spool"])
        /\ UNCHANGED <<guests, firing, vanished>>
      BY <1>5 DEF PostAccepted, PostAnswerLost, Ends, spool
  <2>3. NotDropped'  BY <2>1, <2>2 DEF NotDropped, InboundTypes
  <2>4. FiredIsIn' /\ ToldOnce'  BY <2>1, <2>2 DEF FiredIsIn, ToldOnce, guests, InboundTypes
  <2>5. InboundTypes'  BY <2>1, <2>2 DEF InboundTypes, guests
  <2> QED  BY <2>1, <2>3, <2>4, <2>5
<1>6. ASSUME NEW m \in Msgs, NEW status \in TransientErrors \cup {"400"}, PostRefused(m, status)
      PROVE  InboundInv'
  <2>1. /\ itask' = [itask EXCEPT ![m] = "sent"]
        /\ file' = IF Spools(status) THEN [file EXCEPT ![m] = "spool"] ELSE file
        /\ vanished' = IF status = "400" THEN vanished \cup {m} ELSE vanished
        /\ UNCHANGED <<irow, runs, guests, firing>>
      BY <1>6 DEF PostRefused, Ends, Refuses, server
  <2>2. Spools(status) \/ status = "400"  BY DEF Spools
  <2>3. NotDropped'  BY <2>1, <2>2 DEF NotDropped, InboundTypes
  <2>4. (InboundTypes /\ TakenAs /\ FiredIsIn /\ ToldOnce)'
      BY <2>1 DEF InboundTypes, TakenAs, FiredIsIn, ToldOnce, guests
  <2> QED  BY <2>3, <2>4
<1>7. ASSUME NEW m \in Msgs, CommandActs(m, TRUE) \/ CommandActs(m, FALSE) PROVE InboundInv'
  <2>1. /\ itask' = [itask EXCEPT ![m] = "dropped"]
        /\ \/ irow' = [n \in Msgs |-> IF irow[n] = "queued" THEN "flushed" ELSE irow[n]]
           \/ irow' = irow
        /\ UNCHANGED <<runs, guests, spool, vanished>>
      BY <1>7 DEF CommandActs, Answered
  <2>2. NotDropped'  BY <2>1 DEF NotDropped, InboundTypes, spool
  <2>3. TakenAs'  BY <2>1 DEF TakenAs, InboundTypes
  <2>4. (InboundTypes /\ FiredIsIn /\ ToldOnce)'
      BY <2>1 DEF InboundTypes, FiredIsIn, ToldOnce, guests, spool
  <2> QED  BY <2>2, <2>3, <2>4
<1>8. ASSUME NEW m \in Msgs, TooOld(m) \/ \E s \in TransientErrors \cup {"400"} : FireRefused(m, s)
      PROVE  InboundInv'
  <2>1. /\ file' = [file EXCEPT ![m] = "stale"] \/ file' = [file EXCEPT ![m] = "invalid"]
        /\ UNCHANGED <<itask, irow, runs, guests, firing, vanished>>
      BY <1>8 DEF TooOld, FireRefused, Refuses, server
  <2>2. NotDropped'  BY <2>1 DEF NotDropped, InboundTypes
  <2>3. (InboundTypes /\ TakenAs /\ FiredIsIn /\ ToldOnce)'
      BY <2>1 DEF InboundTypes, TakenAs, FiredIsIn, ToldOnce, guests
  <2> QED  BY <2>2, <2>3
<1>9. ASSUME NEW m \in Msgs, Fire(m) PROVE InboundInv'
  <2>1. /\ irow' \in [Msgs -> {"none", "queued", "done", "flushed"}] /\ TakenAs' /\ irow'[m] # "none"
        /\ runs' = runs /\ \A n \in Msgs : irow[n] # "none" => irow'[n] # "none"
      BY <1>9, AcceptStep DEF Fire
  <2>2. firing' = m /\ UNCHANGED <<itask, file, guests, vanished>>  BY <1>9 DEF Fire
  <2>3. NotDropped'  BY <2>1, <2>2 DEF NotDropped
  <2>4. (InboundTypes /\ FiredIsIn /\ ToldOnce)'
      BY <2>1, <2>2 DEF InboundTypes, FiredIsIn, ToldOnce, guests
  <2> QED  BY <2>1, <2>3, <2>4
<1>10. ASSUME Unlink PROVE InboundInv'
  <2>1. /\ firing # 0 /\ firing' = 0 /\ file' = [file EXCEPT ![firing] = "none"]
        /\ UNCHANGED <<itask, irow, runs, guests, vanished>>
      BY <1>10 DEF Unlink, server
  <2>2. irow[firing] # "none"  BY <2>1 DEF FiredIsIn
  <2>3. NotDropped'  BY <2>1, <2>2 DEF NotDropped, InboundTypes
  <2>4. (InboundTypes /\ TakenAs /\ FiredIsIn /\ ToldOnce)'
      BY <2>1 DEF InboundTypes, TakenAs, FiredIsIn, ToldOnce, guests
  <2> QED  BY <2>3, <2>4
<1>11. ASSUME NEW m \in Msgs, TurnTakes(m) PROVE InboundInv'
  <2>1. /\ irow[m] = "queued" /\ irow' = [irow EXCEPT ![m] = "done"]
        /\ runs' = [runs EXCEPT ![m] = runs[m] + 1]
        /\ UNCHANGED <<itask, guests, spool, vanished>>
      BY <1>11 DEF TurnTakes
  <2>2. runs[m] = 0  BY <2>1 DEF TakenAs
  <2>3. TakenAs'  BY <2>1, <2>2 DEF TakenAs, InboundTypes
  <2>4. (InboundTypes /\ NotDropped /\ FiredIsIn /\ ToldOnce)'
      BY <2>1, <2>2 DEF InboundTypes, NotDropped, FiredIsIn, ToldOnce, guests, spool
  <2> QED  BY <2>3, <2>4
<1>12. ASSUME RelayRestarts PROVE InboundInv'
  <2>1. InboundTypes'  BY <1>12 DEF RelayRestarts, InboundTypes, spool, server
  <2>2. ToldOnce'  BY <1>12 DEF RelayRestarts, ToldOnce, InboundAssumption
  <2>3. (TakenAs /\ FiredIsIn /\ NotDropped)'
      BY <1>12 DEF RelayRestarts, TakenAs, FiredIsIn, NotDropped, spool, server
  <2> QED  BY <2>1, <2>2, <2>3
<1>13. ASSUME \/ WindowPasses \/ AgentPosts \/ ServerUpDown \/ UNCHANGED InboundVars \/ FlushDies
              \/ \E m \in Msgs : Ages(m)
       PROVE  InboundInv'
  <2>1. UNCHANGED <<itask, irow, runs, guests, file, vanished>> /\ (firing' = firing \/ firing' = 0)
      BY <1>13 DEF WindowPasses, AgentPosts, ServerUpDown, InboundVars, FlushDies, Ages, spool,
                   server, guests
  <2> QED  BY <2>1 DEF InboundTypes, TakenAs, FiredIsIn, NotDropped, ToldOnce, guests
<1> QED
    BY <1>1, <1>2, <1>3, <1>4, <1>5, <1>6, <1>7, <1>8, <1>9, <1>10, <1>11, <1>12, <1>13
       DEF InboundNext

\* For any channel, limits, faults and number of messages: a message is taken by one turn
\* at most and by none once flushed (send_to_agent_server, the flusher and the UNIQUE
\* message_id of the queue).
THEOREM TakenOnceHolds == ASSUME InboundAssumption PROVE InboundSpec => []TakenOnce
<1>1. InboundInv => TakenOnce
  <2> SUFFICES ASSUME InboundInv, NEW m \in Msgs
               PROVE  runs[m] <= IF irow[m] = "flushed" THEN 0 ELSE 1
      BY DEF TakenOnce
  <2>1. runs[m] = IF irow[m] = "done" THEN 1 ELSE 0  BY DEF InboundInv, TakenAs
  <2> QED  BY <2>1
<1> QED  BY <1>1, InboundStarts, InboundSteps, PTL DEF InboundSpec

\* For any channel, limits, faults and number of messages: what the relay has dealt with
\* is in the table or in the spool, unless the server rejected it (send_to_agent_server).
THEOREM NotDroppedHolds == ASSUME InboundAssumption PROVE InboundSpec => []NotDropped
<1>1. InboundInv => NotDropped  BY DEF InboundInv
<1> QED  BY <1>1, InboundStarts, InboundSteps, PTL DEF InboundSpec

\* For any guest limit: the channel is told once that the budget is spent, and has been
\* told whenever it is (allow_bot_message).
THEOREM GuestsToldHolds == ASSUME InboundAssumption PROVE InboundSpec => []GuestsAreTold
<1>1. InboundInv => GuestsAreTold  BY DEF InboundInv, ToldOnce, GuestsAreTold
<1> QED  BY <1>1, InboundStarts, InboundSteps, PTL DEF InboundSpec

-----------------------------------------------------------------------------
(* Edits *)

MessageRow == [text : Nat, status : {"none", "queued", "inprogress", "done"}]
Decided == {"update", "update_followup", "followup"}
EditStages == {"none", "event", "load", "over"} \cup Decided
EditTask == [stage : EditStages, text : Nat, count : Nat, open : Nat, tries : Nat]

Replies == {"none", "unknown", "too_old", "unchanged", "ignored", "refused", "updated", "duplicate", "followup"}

EditTypes ==
    /\ discord \in Nat /\ base \in MessageRow /\ extra \in Seq(MessageRow)
    /\ edit \in [EditIds -> EditTask]
    /\ answers \in [EditIds -> Replies]
    /\ passed \in BOOLEAN /\ late \in BOOLEAN

\* An edit that waits between its load and its write, whatever the others do.
WriteOk(e) ==
    /\ edit[e].stage = "followup" => edit[e].count < MaxFollowups
    /\ edit[e].stage = "update_followup" => edit[e].open \in 1 .. Len(extra)

\* One edit at a time: the last one is the one at work, on the newest version.
EditOk(e) ==
    /\ e > discord => edit[e].stage = "none"
    /\ e <= discord => edit[e].stage # "none"
    /\ e < discord => edit[e].stage = "over"
    /\ answers[e] # "none" <=> edit[e].stage = "over"
    /\ edit[e].stage \in {"load"} \cup Decided => edit[e].text = discord
    /\ edit[e].stage \in Decided => edit[e].count = Len(extra) /\ edit[e].tries \in 1 .. 2
    /\ edit[e].stage = "load" => edit[e].tries \in 0 .. 1
    /\ edit[e].stage = "event" => edit[e].tries = 0
    /\ e = discord /\ edit[e].stage # "over" => base.text < discord
    /\ e = discord /\ edit[e].stage = "over" => Refused(e) \/ e \in Given

EditsInv ==
    /\ EditTypes
    /\ Len(extra) <= MaxFollowups
    /\ \A e \in EditIds : WriteOk(e)
    /\ ~Overlap => /\ discord <= MaxEdits /\ base.text <= discord
                   /\ discord > 0 => base.status # "none"
                   /\ \A e \in EditIds : EditOk(e)

LEMMA EditsStart == ASSUME EditsAssumption PROVE EditsInit => EditsInv
<1> SUFFICES ASSUME EditsInit PROVE EditsInv  OBVIOUS
<1>1. /\ discord = 0 /\ base = NoRow /\ extra = <<>> /\ edit = [e \in EditIds |-> Idle]
      /\ answers = [e \in EditIds |-> "none"]
    BY DEF EditsInit
<1>2. passed \in BOOLEAN /\ late \in BOOLEAN  BY Zenon DEF EditsInit
<1>3. base \in MessageRow /\ base.text = 0  BY <1>1 DEF NoRow, MessageRow
<1>4. extra \in Seq(MessageRow) /\ Len(extra) = 0  BY <1>1
<1>5. Idle \in EditTask /\ Idle.stage = "none"  BY DEF Idle, EditTask, EditStages
<1>6. edit \in [EditIds -> EditTask] /\ \A e \in EditIds : edit[e].stage = "none"  BY <1>1, <1>5
<1>7. answers \in [EditIds -> Replies] /\ \A e \in EditIds : answers[e] = "none"  BY <1>1 DEF Replies
<1>8. EditTypes  BY <1>1, <1>2, <1>3, <1>4, <1>6, <1>7 DEF EditTypes
<1>9. Len(extra) <= MaxFollowups /\ discord <= MaxEdits  BY <1>1, <1>4 DEF EditsAssumption
<1>10. \A e \in EditIds : WriteOk(e)  BY <1>6 DEF WriteOk
<1>11. \A e \in EditIds : EditOk(e)  BY <1>1, <1>6, <1>7 DEF EditOk, EditIds, Decided
<1> QED  BY <1>1, <1>3, <1>8, <1>9, <1>10, <1>11 DEF EditsInv

\* A step of the message's rows: none is given another text, none stops being given.
LEMMA RowsStep ==
  ASSUME EditsAssumption, EditsInv, EditTypes', UNCHANGED <<discord, edit, answers>>,
         Len(extra') = Len(extra), ~Overlap => base'.text = base.text,
         discord > 0 /\ base.status # "none" => base'.status # "none",
         ~Overlap => (\A v \in Nat : v > 0 /\ v \in Given => v \in Given')
  PROVE  EditsInv'
<1>1. \A e \in EditIds : WriteOk(e)'  BY DEF WriteOk, EditsInv
<1>2. ASSUME ~Overlap, NEW e \in EditIds PROVE EditOk(e)'
  <2>1. EditOk(e)  BY <1>2 DEF EditsInv
  <2>2. Refused(e)' <=> Refused(e)  BY DEF Refused
  <2>3. e \in Nat /\ e > 0  BY DEF EditIds
  <2>4. e \in Given => e \in Given'  BY <1>2, <2>3
  <2> QED  BY <1>2, <2>1, <2>2, <2>4 DEF EditOk
<1> QED  BY <1>1, <1>2 DEF EditsInv

\* A step of one edit's task.
LEMMA TaskStep ==
  ASSUME EditsAssumption, EditsInv, EditTypes', NEW e \in EditIds,
         edit[e].stage \notin {"none", "over"},
         \A o \in EditIds : o # e => edit'[o] = edit[o] /\ answers'[o] = answers[o],
         UNCHANGED discord, Len(extra) <= Len(extra'), Len(extra') <= MaxFollowups,
         \A o \in EditIds : o = e => WriteOk(o)',
         ~Overlap => base'.text <= discord /\ base'.status = base.status,
         ~Overlap => \A o \in EditIds : o = e /\ o = discord => EditOk(o)'
  PROVE  EditsInv'
<1>t. EditTypes  BY DEF EditsInv
<1>1. \A o \in EditIds : o # e => edit'[o] = edit[o] /\ answers'[o] = answers[o]
    OBVIOUS
<1>2. ASSUME NEW o \in EditIds PROVE WriteOk(o)'
  <2>1. CASE o = e  BY <2>1
  <2>2. CASE o # e
    <3>1. WriteOk(o)  BY DEF EditsInv
    <3>2. Len(extra) \in Nat /\ Len(extra') \in Nat  BY <1>t DEF EditTypes
    <3> QED  BY <1>1, <2>2, <3>1, <3>2 DEF WriteOk
  <2> QED  BY <2>1, <2>2
<1>3. ASSUME ~Overlap, NEW o \in EditIds PROVE EditOk(o)'
  <2>1. EditOk(o) /\ EditOk(e)  BY <1>3 DEF EditsInv
  <2>2. e = discord  BY <1>t, <2>1 DEF EditOk, EditIds, EditTypes
  <2>3. CASE o = e  BY <1>3, <2>2, <2>3
  <2>4. CASE o # e
    <3>1. o # discord /\ discord \in Nat /\ o \in Nat  BY <1>t, <2>2, <2>4 DEF EditIds, EditTypes
    <3>2. edit[o].stage \in {"none", "over"}  BY <2>1, <3>1 DEF EditOk
    <3> QED  BY <1>1, <2>1, <2>4, <3>1, <3>2 DEF EditOk, Decided
  <2> QED  BY <2>3, <2>4
<1> QED  BY <1>2, <1>3 DEF EditsInv

\* What a turn does to the rows.
LEMMA EachRow ==
  ASSUME EditTypes, NEW q \in [1 .. Len(extra) -> MessageRow]
  PROVE  q \in Seq(MessageRow) /\ Len(q) = Len(extra)
<1>1. Len(extra) \in Nat  BY DEF EditTypes
<1> QED  BY <1>1

LEMMA TurnStartsStep == ASSUME EditsAssumption, EditsInv, TurnStarts PROVE EditsInv'
<1>t. EditTypes  BY DEF EditsInv
<1>1. /\ base' = Claimed(base) /\ extra' = [i \in 1 .. Len(extra) |-> Claimed(extra[i])]
      /\ shown' = shown \cup Texts
      /\ UNCHANGED <<discord, edit, passed, late, answers>>
    BY DEF TurnStarts
<1>2. \A r \in MessageRow : Claimed(r) \in MessageRow /\ Claimed(r).text = r.text
                            /\ (r.status # "none" => Claimed(r).status # "none")
    BY DEF Claimed, MessageRow
<1>3. \A i \in 1 .. Len(extra) : extra[i] \in MessageRow  BY <1>t DEF EditTypes
<1>4. extra' \in [1 .. Len(extra) -> MessageRow]  BY <1>1, <1>2, <1>3
<1>5. extra' \in Seq(MessageRow) /\ Len(extra') = Len(extra)  BY <1>4, <1>t, EachRow
<1>6. base' \in MessageRow /\ base'.text = base.text /\ (base.status # "none" => base'.status # "none")
    BY <1>1, <1>2, <1>t DEF EditTypes
<1>7. EditTypes'  BY <1>1, <1>5, <1>6, <1>t DEF EditTypes
<1>8. \A v \in Nat : v \in Given => v \in Given'  BY <1>1 DEF Given
<1> QED  BY <1>1, <1>5, <1>6, <1>7, <1>8, RowsStep

LEMMA TurnOverStep == ASSUME EditsAssumption, EditsInv, TurnEnds \/ TurnReleased PROVE EditsInv'
<1>t. EditTypes  BY DEF EditsInv
<1> DEFINE New(r) == IF TurnEnds THEN Done(r) ELSE Back(r)
<1>1. /\ base' = New(base) /\ extra' = [i \in 1 .. Len(extra) |-> New(extra[i])]
      /\ UNCHANGED <<discord, edit, late, answers, shown>> /\ passed' \in BOOLEAN
  <2>1. CASE TurnEnds  BY <1>t, <2>1 DEF TurnEnds, EditTypes
  <2>2. CASE TurnReleased /\ ~TurnEnds  BY <1>t, <2>2 DEF TurnReleased, EditTypes
  <2> QED  BY <2>1, <2>2
<1>2. \A r \in MessageRow : /\ New(r) \in MessageRow /\ New(r).text = r.text
                            /\ (r.status # "none" => New(r).status # "none")
                            /\ (r.status = "queued" => New(r).status = "queued")
    BY DEF Done, Back, MessageRow
<1> HIDE DEF New
<1>3. \A i \in 1 .. Len(extra) : extra[i] \in MessageRow  BY <1>t DEF EditTypes
<1>4. extra' \in [1 .. Len(extra) -> MessageRow]  BY <1>1, <1>2, <1>3
<1>5. extra' \in Seq(MessageRow) /\ Len(extra') = Len(extra)  BY <1>4, <1>t, EachRow
<1>6. base \in MessageRow /\ base' \in MessageRow /\ base'.text = base.text
      /\ (base.status # "none" => base'.status # "none")
      /\ (base.status = "queued" => base'.status = "queued")
    BY <1>1, <1>2, <1>t DEF EditTypes
<1>7. EditTypes'  BY <1>1, <1>5, <1>6, <1>t DEF EditTypes
<1>8. \A i \in QueuedExtra : i \in QueuedExtra' /\ extra'[i].text = extra[i].text
    BY <1>1, <1>2, <1>3, <1>5 DEF QueuedExtra
<1>9. \A v \in Nat : v \in Given => v \in Given'
  <2>1. ASSUME NEW v \in Nat, v \in Texts PROVE v \in Texts'
    <3>1. CASE base.status = "queued" /\ v = base.text  BY <1>6, <3>1 DEF Texts
    <3>2. CASE \E i \in QueuedExtra : v = extra[i].text
      <4>1. PICK i \in QueuedExtra : v = extra[i].text  BY <3>2
      <4>2. i \in QueuedExtra' /\ v = extra'[i].text  BY <1>8, <4>1
      <4> QED  BY <4>2 DEF Texts
    <3> QED  BY <2>1, <3>1, <3>2 DEF Texts
  <2> QED  BY <1>1, <2>1 DEF Given
<1> QED  BY <1>1, <1>5, <1>6, <1>7, <1>9, RowsStep

LEMMA LoadStep == ASSUME EditsAssumption, EditsInv, NEW e \in EditIds, Load(e) PROVE EditsInv'
<1>t. EditTypes  BY DEF EditsInv
<1>1. /\ edit[e].stage = "load" /\ UNCHANGED <<discord, base, extra, passed, late, shown>>
    BY DEF Load, rowVars
<1>e. edit[e] \in EditTask /\ e \in Nat /\ e > 0 /\ discord \in Nat  BY <1>t DEF EditTypes, EditIds
<1>l. Len(extra) \in Nat /\ Len(extra) <= MaxFollowups  BY <1>t DEF EditTypes, EditsInv
<1>2. CASE Decision(e) \in Decided
  <2> DEFINE t == [edit[e] EXCEPT !.stage = Decision(e), !.count = Len(extra), !.open = OpenExtra, !.tries = @ + 1]
  <2>1. edit' = [edit EXCEPT ![e] = t] /\ answers' = answers
    <3>1. edit' = [edit EXCEPT ![e].stage = Decision(e), ![e].count = Len(extra),
                               ![e].open = OpenExtra, ![e].tries = @ + 1]
          /\ answers' = answers
        BY <1>2 DEF Load, Decided
    <3> QED  BY <1>t, <3>1 DEF EditTypes
  <2>2. OpenExtra \in Nat /\ (OpenExtra # 0 => OpenExtra \in 1 .. Len(extra))
    <3>1. CASE QueuedExtra = {}  BY <3>1 DEF OpenExtra
    <3>2. CASE QueuedExtra # {}
      <4>1. QueuedExtra \in SUBSET (0 .. Len(extra)) /\ QueuedExtra \subseteq 1 .. Len(extra)
          BY <1>l DEF QueuedExtra
      <4>2. \E x \in QueuedExtra : \A y \in QueuedExtra : y <= x  BY <1>l, <3>2, <4>1, GreatestOne
      <4>3. OpenExtra \in QueuedExtra  BY <3>2, <4>2 DEF OpenExtra
      <4> QED  BY <4>1, <4>3
    <3> QED  BY <3>1, <3>2
  <2>3. /\ t \in EditTask /\ t.stage = Decision(e) /\ t.count = Len(extra) /\ t.open = OpenExtra
        /\ t.tries = edit[e].tries + 1 /\ t.text = edit[e].text
    <3>1. Decision(e) \in EditStages /\ edit[e].tries + 1 \in Nat  BY <1>2, <1>e DEF EditStages, EditTask
    <3> QED  BY <1>e, <1>l, <2>2, <3>1 DEF EditTask
  <2> HIDE DEF t
  <2>4. edit'[e] = t /\ answers' = [answers EXCEPT ![e] = answers[e]] /\ answers[e] \in Replies
      BY <1>t, <2>1 DEF EditTypes
  <2>5. EditTypes'  BY <1>1, <1>t, <2>1, <2>3 DEF EditTypes
  <2>6. Decision(e) = "followup" => Len(extra) < MaxFollowups
      BY <1>l DEF Decision, EditsAssumption
  <2>7. Decision(e) = "update_followup" => OpenExtra # 0  BY DEF Decision
  <2>8. \A o \in EditIds : o = e => WriteOk(o)'  BY <1>1, <2>2, <2>3, <2>4, <2>6, <2>7 DEF WriteOk
  <2>9. ASSUME ~Overlap, NEW o \in EditIds, o = e, o = discord PROVE EditOk(o)'
    <3>1. EditOk(e)  BY <2>9 DEF EditsInv
    <3>2. edit[e].tries \in 0 .. 1 /\ edit[e].text = discord /\ base.text < discord /\ answers[e] = "none"
        BY <1>1, <2>9, <3>1 DEF EditOk
    <3>3. edit'[e].stage \in Decided /\ edit'[e].tries \in 1 .. 2 /\ edit'[e].text = discord
          /\ edit'[e].count = Len(extra)
        BY <1>2, <2>3, <2>4, <3>2
    <3>4. answers'[e] = "none"  BY <2>1, <3>2
    <3> QED  BY <1>1, <1>e, <2>9, <3>2, <3>3, <3>4 DEF EditOk, Decided
  <2>10. ~Overlap => base'.text <= discord /\ base'.status = base.status  BY <1>1 DEF EditsInv
  <2>z. \A o \in EditIds : o # e => edit'[o] = edit[o] /\ answers'[o] = answers[o]
      BY <1>t, <2>1 DEF EditTypes
  <2> QED  BY <1>1, <1>l, <2>1, <2>3, <2>4, <2>5, <2>8, <2>9, <2>10, <2>z, TaskStep
<1>3. CASE Decision(e) \notin Decided
  <2> DEFINE t == [edit[e] EXCEPT !.stage = "over"]
             a == Decision(e)
  <2>1. edit' = [edit EXCEPT ![e] = t] /\ answers' = [answers EXCEPT ![e] = a]
    <3>1. edit' = [edit EXCEPT ![e].stage = "over"] /\ answers' = [answers EXCEPT ![e] = a]
        BY <1>3 DEF Load, Answer, Decided
    <3> QED  BY <1>t, <3>1 DEF EditTypes
  <2>2. a \in {"unknown", "too_old", "ignored", "refused", "unchanged"}  BY <1>3 DEF Decision, Decided
  <2>3. t \in EditTask /\ t.stage = "over" /\ t.tries = edit[e].tries  BY <1>e DEF EditTask, EditStages
  <2>4. a = "unchanged" => base.text = edit[e].text  BY DEF Decision
  <2> HIDE DEF t, a
  <2>5. a \in Replies /\ a # "none"  BY <2>2 DEF Replies
  <2>6. edit'[e] = t /\ answers'[e] = a  BY <1>t, <2>1 DEF EditTypes
  <2>7. EditTypes'  BY <1>1, <1>t, <2>1, <2>3, <2>5 DEF EditTypes
  <2>8. \A o \in EditIds : o = e => WriteOk(o)'  BY <2>3, <2>6 DEF WriteOk
  <2>9. ASSUME ~Overlap, NEW o \in EditIds, o = e, o = discord PROVE EditOk(o)'
    <3>1. EditOk(e)  BY <2>9 DEF EditsInv
    <3>2. edit[e].text = discord /\ base.text < discord  BY <1>1, <2>9, <3>1 DEF EditOk
    <3>3. base.text \in Nat  BY <1>t DEF EditTypes, MessageRow
    <3>4. a # "unchanged"  BY <1>e, <2>4, <3>2, <3>3
    <3>5. Refused(o)'  BY <2>2, <2>6, <2>9, <3>4 DEF Refused
    <3> QED  BY <1>1, <1>e, <2>3, <2>5, <2>6, <2>9, <3>5 DEF EditOk, Decided
  <2>10. ~Overlap => base'.text <= discord /\ base'.status = base.status  BY <1>1 DEF EditsInv
  <2>z. \A o \in EditIds : o # e => edit'[o] = edit[o] /\ answers'[o] = answers[o]
      BY <1>t, <2>1 DEF EditTypes
  <2> QED  BY <1>1, <1>l, <2>1, <2>3, <2>5, <2>7, <2>8, <2>9, <2>10, <2>z, TaskStep
<1> QED  BY <1>2, <1>3

LEMMA UpdateStep == ASSUME EditsAssumption, EditsInv, NEW e \in EditIds, Update(e) PROVE EditsInv'
<1>t. EditTypes  BY DEF EditsInv
<1>1. /\ edit[e].stage = "update" /\ UNCHANGED <<discord, extra, passed, late, shown>>
    BY DEF Update
<1>e. edit[e] \in EditTask /\ e \in Nat /\ e > 0 /\ discord \in Nat /\ base \in MessageRow
    BY <1>t DEF EditTypes, EditIds
<1>l. Len(extra) \in Nat /\ Len(extra) <= MaxFollowups  BY <1>t DEF EditTypes, EditsInv
<1>o. ASSUME ~Overlap, e = discord
      PROVE /\ edit[e].tries \in 1 .. 2 /\ edit[e].text = discord /\ base.text < discord
            /\ answers[e] = "none"
  <2>1. EditOk(e)  BY <1>o DEF EditsInv
  <2> QED  BY <1>1, <1>o, <2>1 DEF EditOk, Decided
<1> DEFINE Over == [edit[e] EXCEPT !.stage = "over"]
<1>v. Over \in EditTask /\ Over.stage = "over" /\ Over.tries = edit[e].tries  BY <1>e DEF EditTask, EditStages
<1>2. CASE base.status = "queued"
  <2>1. /\ base' = [base EXCEPT !.text = edit[e].text]
        /\ edit' = [edit EXCEPT ![e] = Over] /\ answers' = [answers EXCEPT ![e] = "updated"]
    <3>1. /\ base' = [base EXCEPT !.text = edit[e].text]
          /\ edit' = [edit EXCEPT ![e].stage = "over"] /\ answers' = [answers EXCEPT ![e] = "updated"]
        BY <1>2 DEF Update, Won, Answer
    <3> QED  BY <1>t, <3>1 DEF EditTypes
  <2> HIDE DEF Over
  <2>2. base' \in MessageRow /\ base'.text = edit[e].text /\ base'.status = base.status
      BY <1>e, <2>1 DEF MessageRow, EditTask
  <2>3. edit'[e] = Over /\ answers'[e] = "updated"  BY <1>t, <2>1 DEF EditTypes
  <2>4. EditTypes'  BY <1>1, <1>t, <1>v, <2>1, <2>2 DEF EditTypes, Replies
  <2>5. \A o \in EditIds : o = e => WriteOk(o)'  BY <1>v, <2>3 DEF WriteOk
  <2>6. ASSUME ~Overlap PROVE e = discord
    <3>1. EditOk(e)  BY <2>6 DEF EditsInv
    <3> QED  BY <1>1, <1>e, <3>1 DEF EditOk
  <2>8. ASSUME ~Overlap PROVE base'.text <= discord /\ base'.status = base.status
      BY <1>e, <1>o, <2>2, <2>6, <2>8
  <2>7. ASSUME ~Overlap, NEW o \in EditIds, o = e, o = discord PROVE EditOk(o)'
    <3>1. e = discord /\ base'.text = discord  BY <1>o, <2>2, <2>6, <2>7
    <3>2. e \in Given'  BY <1>2, <2>2, <3>1 DEF Given, Texts
    <3> QED  BY <1>1, <1>e, <1>v, <2>3, <2>7, <3>1, <3>2 DEF EditOk, Decided
  <2>z. \A o \in EditIds : o # e => edit'[o] = edit[o] /\ answers'[o] = answers[o]
      BY <1>t, <2>1 DEF EditTypes
  <2> QED  BY <1>1, <1>l, <1>v, <2>1, <2>2, <2>4, <2>5, <2>7, <2>8, <2>z, TaskStep
<1>3. CASE base.status # "queued" /\ edit[e].tries < 2
  <2> DEFINE t == [edit[e] EXCEPT !.stage = "load"]
  <2>1. base' = base /\ edit' = [edit EXCEPT ![e] = t] /\ answers' = answers
    <3>1. base' = base /\ edit' = [edit EXCEPT ![e].stage = "load"] /\ answers' = answers
        BY <1>3 DEF Update, Won
    <3> QED  BY <1>t, <3>1 DEF EditTypes
  <2>2. t \in EditTask /\ t.stage = "load" /\ t.tries = edit[e].tries /\ t.text = edit[e].text
      BY <1>e DEF EditTask, EditStages
  <2> HIDE DEF t
  <2>3. edit'[e] = t /\ answers' = [answers EXCEPT ![e] = answers[e]] /\ answers[e] \in Replies
      BY <1>t, <2>1 DEF EditTypes
  <2>4. EditTypes'  BY <1>1, <1>t, <2>1, <2>2 DEF EditTypes
  <2>5. \A o \in EditIds : o = e => WriteOk(o)'  BY <2>2, <2>3 DEF WriteOk
  <2>6. ASSUME ~Overlap, NEW o \in EditIds, o = e, o = discord PROVE EditOk(o)'
    <3>1. edit'[e].tries \in 0 .. 1  BY <1>3, <1>o, <2>2, <2>3, <2>6
    <3> QED  BY <1>1, <1>e, <1>o, <2>1, <2>2, <2>3, <2>6, <3>1 DEF EditOk, Decided
  <2>7. ~Overlap => base'.text <= discord /\ base'.status = base.status  BY <2>1 DEF EditsInv
  <2>z. \A o \in EditIds : o # e => edit'[o] = edit[o] /\ answers'[o] = answers[o]
      BY <1>t, <2>1 DEF EditTypes
  <2> QED  BY <1>1, <1>l, <2>1, <2>2, <2>3, <2>4, <2>5, <2>6, <2>7, <2>z, TaskStep
<1>4. CASE base.status # "queued" /\ ~(edit[e].tries < 2)
  <2>1. base' = base /\ edit' = [edit EXCEPT ![e] = Over] /\ answers' = [answers EXCEPT ![e] = "unchanged"]
    <3>1. base' = base /\ edit' = [edit EXCEPT ![e].stage = "over"] /\ answers' = [answers EXCEPT ![e] = "unchanged"]
        BY <1>4 DEF Update, Won, Answer
    <3> QED  BY <1>t, <3>1 DEF EditTypes
  <2> HIDE DEF Over
  <2>3. edit'[e] = Over /\ answers'[e] = "unchanged"  BY <1>t, <2>1 DEF EditTypes
  <2>4. EditTypes'  BY <1>1, <1>t, <1>v, <2>1 DEF EditTypes, Replies
  <2>5. \A o \in EditIds : o = e => WriteOk(o)'  BY <1>v, <2>3 DEF WriteOk
  <2>6. ASSUME ~Overlap, NEW o \in EditIds, o = e, o = discord PROVE EditOk(o)'
    <3>1. edit'[e].tries = 2  BY <1>4, <1>o, <1>v, <2>3, <2>6
    <3>2. Refused(o)'  BY <2>3, <2>6, <3>1 DEF Refused
    <3> QED  BY <1>1, <1>e, <1>v, <2>3, <2>6, <3>2 DEF EditOk, Decided
  <2>7. ~Overlap => base'.text <= discord /\ base'.status = base.status  BY <2>1 DEF EditsInv
  <2>z. \A o \in EditIds : o # e => edit'[o] = edit[o] /\ answers'[o] = answers[o]
      BY <1>t, <2>1 DEF EditTypes
  <2> QED  BY <1>1, <1>l, <1>v, <2>1, <2>4, <2>5, <2>6, <2>7, <2>z, TaskStep
<1> QED  BY <1>2, <1>3, <1>4

LEMMA UpdateFollowupStep ==
  ASSUME EditsAssumption, EditsInv, NEW e \in EditIds, UpdateFollowup(e) PROVE EditsInv'
<1>t. EditTypes  BY DEF EditsInv
<1> DEFINE i == edit[e].open
<1>1. /\ edit[e].stage = "update_followup" /\ UNCHANGED <<discord, base, passed, late, shown>>
    BY DEF UpdateFollowup
<1>e. edit[e] \in EditTask /\ e \in Nat /\ e > 0 /\ discord \in Nat /\ extra \in Seq(MessageRow)
    BY <1>t DEF EditTypes, EditIds
<1>l. Len(extra) \in Nat /\ Len(extra) <= MaxFollowups  BY <1>t DEF EditTypes, EditsInv
<1>i. i \in 1 .. Len(extra) /\ extra[i] \in MessageRow
  <2>1. WriteOk(e)  BY DEF EditsInv
  <2>2. i \in 1 .. Len(extra)  BY <1>1, <2>1 DEF WriteOk
  <2> QED  BY <1>e, <2>2
<1>o. ASSUME ~Overlap
      PROVE /\ e = discord /\ edit[e].tries \in 1 .. 2 /\ edit[e].text = discord /\ base.text < discord
            /\ answers[e] = "none" /\ edit[e].count = Len(extra)
  <2>1. EditOk(e)  BY <1>o DEF EditsInv
  <2>2. e = discord  BY <1>1, <1>e, <2>1 DEF EditOk
  <2> QED  BY <1>1, <2>1, <2>2 DEF EditOk, Decided
<1>b. ~Overlap => base'.text <= discord /\ base'.status = base.status  BY <1>1 DEF EditsInv
<1> DEFINE Over == [edit[e] EXCEPT !.stage = "over"]
<1>v. Over \in EditTask /\ Over.stage = "over" /\ Over.tries = edit[e].tries  BY <1>e DEF EditTask, EditStages
<1>2. CASE extra[i].status = "queued"
  <2> DEFINE r == [extra[i] EXCEPT !.text = edit[e].text]
  <2>1. /\ extra' = [extra EXCEPT ![i] = r]
        /\ edit' = [edit EXCEPT ![e] = Over] /\ answers' = [answers EXCEPT ![e] = "updated"]
    <3>1. /\ extra' = [extra EXCEPT ![i].text = edit[e].text]
          /\ edit' = [edit EXCEPT ![e].stage = "over"] /\ answers' = [answers EXCEPT ![e] = "updated"]
        BY <1>2 DEF UpdateFollowup, Won, Answer
    <3>2. extra' = [extra EXCEPT ![i] = r]  BY <1>e, <1>i, <3>1
    <3> QED  BY <1>t, <3>1, <3>2 DEF EditTypes
  <2>2. r \in MessageRow /\ r.text = edit[e].text /\ r.status = "queued"
      BY <1>2, <1>e, <1>i DEF MessageRow, EditTask
  <2> HIDE DEF Over, r, i
  <2>3. extra' \in Seq(MessageRow) /\ Len(extra') = Len(extra) /\ extra'[i] = r  BY <1>e, <1>i, <2>1, <2>2
  <2>4. edit'[e] = Over /\ answers'[e] = "updated"  BY <1>t, <2>1 DEF EditTypes
  <2>5. EditTypes'  BY <1>1, <1>t, <1>v, <2>1, <2>3 DEF EditTypes, Replies
  <2>6. \A o \in EditIds : o = e => WriteOk(o)'  BY <1>v, <2>4 DEF WriteOk
  <2>7. ASSUME ~Overlap, NEW o \in EditIds, o = e, o = discord PROVE EditOk(o)'
    <3>1. i \in QueuedExtra' /\ extra'[i].text = discord  BY <1>i, <1>o, <2>2, <2>3, <2>7 DEF QueuedExtra
    <3>2. discord \in Given'  BY <3>1 DEF Given, Texts
    <3>3. e = discord  BY <1>o, <2>7
    <3> QED  BY <2>7, <1>1, <1>e, <1>v, <2>4, <3>2, <3>3 DEF EditOk, Decided
  <2>z. \A o \in EditIds : o # e => edit'[o] = edit[o] /\ answers'[o] = answers[o]
      BY <1>t, <2>1 DEF EditTypes
  <2> QED  BY <1>1, <1>b, <1>l, <1>v, <2>1, <2>3, <2>5, <2>6, <2>7, <2>z, TaskStep
<1>3. CASE extra[i].status # "queued" /\ edit[e].count < MaxFollowups
  <2> DEFINE t == [edit[e] EXCEPT !.stage = "followup"]
  <2>1. extra' = extra /\ edit' = [edit EXCEPT ![e] = t] /\ answers' = answers
    <3>1. extra' = extra /\ edit' = [edit EXCEPT ![e].stage = "followup"] /\ answers' = answers
        BY <1>3 DEF UpdateFollowup, Won, FallsThrough
    <3> QED  BY <1>t, <3>1 DEF EditTypes
  <2>2. /\ t \in EditTask /\ t.stage = "followup" /\ t.tries = edit[e].tries /\ t.text = edit[e].text
        /\ t.count = edit[e].count
      BY <1>e DEF EditTask, EditStages, Decided
  <2> HIDE DEF t
  <2>3. edit'[e] = t /\ answers' = [answers EXCEPT ![e] = answers[e]] /\ answers[e] \in Replies
      BY <1>t, <2>1 DEF EditTypes
  <2>4. EditTypes'  BY <1>1, <1>t, <2>1, <2>2 DEF EditTypes
  <2>5. \A o \in EditIds : o = e => WriteOk(o)'  BY <1>3, <2>2, <2>3 DEF WriteOk
  <2>6. ASSUME ~Overlap, NEW o \in EditIds, o = e, o = discord PROVE EditOk(o)'
    <3>1. e = discord /\ edit[e].tries \in 1 .. 2 /\ edit[e].text = discord /\ base.text < discord
          /\ answers[e] = "none" /\ edit[e].count = Len(extra)
        BY <1>o, <2>6
    <3> QED  BY <2>6, <1>1, <1>e, <2>1, <2>2, <2>3, <3>1 DEF EditOk, Decided
  <2>z. \A o \in EditIds : o # e => edit'[o] = edit[o] /\ answers'[o] = answers[o]
      BY <1>t, <2>1 DEF EditTypes
  <2> QED  BY <1>1, <1>b, <1>l, <2>1, <2>2, <2>3, <2>4, <2>5, <2>6, <2>z, TaskStep
<1>4. CASE extra[i].status # "queued" /\ ~(edit[e].count < MaxFollowups)
  <2>1. extra' = extra /\ edit' = [edit EXCEPT ![e] = Over] /\ answers' = [answers EXCEPT ![e] = "refused"]
    <3>1. extra' = extra /\ edit' = [edit EXCEPT ![e].stage = "over"] /\ answers' = [answers EXCEPT ![e] = "refused"]
        BY <1>4 DEF UpdateFollowup, Won, FallsThrough, Answer
    <3> QED  BY <1>t, <3>1 DEF EditTypes
  <2> HIDE DEF Over
  <2>3. edit'[e] = Over /\ answers'[e] = "refused"  BY <1>t, <2>1 DEF EditTypes
  <2>4. EditTypes'  BY <1>1, <1>t, <1>v, <2>1 DEF EditTypes, Replies
  <2>5. \A o \in EditIds : o = e => WriteOk(o)'  BY <1>v, <2>3 DEF WriteOk
  <2>6. ASSUME ~Overlap, NEW o \in EditIds, o = e, o = discord PROVE EditOk(o)'
    <3>1. e = discord  BY <1>o, <2>6
    <3>2. Refused(o)'  BY <2>3, <2>6 DEF Refused
    <3> QED  BY <2>6, <1>1, <1>e, <1>v, <2>3, <3>1, <3>2 DEF EditOk, Decided
  <2>z. \A o \in EditIds : o # e => edit'[o] = edit[o] /\ answers'[o] = answers[o]
      BY <1>t, <2>1 DEF EditTypes
  <2> QED  BY <1>1, <1>b, <1>l, <1>v, <2>1, <2>4, <2>5, <2>6, <2>z, TaskStep
<1> QED  BY <1>2, <1>3, <1>4

LEMMA FollowupStep == ASSUME EditsAssumption, EditsInv, NEW e \in EditIds, Followup(e) PROVE EditsInv'
<1>t. EditTypes  BY DEF EditsInv
<1>1. /\ edit[e].stage = "followup" /\ UNCHANGED <<discord, base, passed, late, shown>>
    BY DEF Followup
<1>e. edit[e] \in EditTask /\ e \in Nat /\ e > 0 /\ discord \in Nat /\ extra \in Seq(MessageRow)
    BY <1>t DEF EditTypes, EditIds
<1>l. Len(extra) \in Nat /\ Len(extra) <= MaxFollowups  BY <1>t DEF EditTypes, EditsInv
<1>c. edit[e].count \in Nat /\ edit[e].count < MaxFollowups
  <2>1. WriteOk(e)  BY DEF EditsInv
  <2> QED  BY <1>1, <1>e, <2>1 DEF WriteOk, EditTask
<1>o. ASSUME ~Overlap
      PROVE /\ e = discord /\ edit[e].text = discord /\ edit[e].count = Len(extra)
  <2>1. EditOk(e)  BY <1>o DEF EditsInv
  <2>2. e = discord  BY <1>1, <1>e, <2>1 DEF EditOk
  <2> QED  BY <1>1, <2>1, <2>2 DEF EditOk, Decided
<1>b. ~Overlap => base'.text <= discord /\ base'.status = base.status  BY <1>1 DEF EditsInv
<1> DEFINE Over == [edit[e] EXCEPT !.stage = "over"]
<1>v. Over \in EditTask /\ Over.stage = "over" /\ Over.tries = edit[e].tries  BY <1>e DEF EditTask, EditStages
<1>2. CASE edit[e].count + 1 <= Len(extra)
  <2>1. extra' = extra /\ edit' = [edit EXCEPT ![e] = Over] /\ answers' = [answers EXCEPT ![e] = "duplicate"]
    <3>1. extra' = extra /\ edit' = [edit EXCEPT ![e].stage = "over"] /\ answers' = [answers EXCEPT ![e] = "duplicate"]
        BY <1>2 DEF Followup, Answer
    <3> QED  BY <1>t, <3>1 DEF EditTypes
  <2> HIDE DEF Over
  <2>3. edit'[e] = Over /\ answers'[e] = "duplicate"  BY <1>t, <2>1 DEF EditTypes
  <2>4. EditTypes'  BY <1>1, <1>t, <1>v, <2>1 DEF EditTypes, Replies
  <2>5. \A o \in EditIds : o = e => WriteOk(o)'  BY <1>v, <2>3 DEF WriteOk
  <2>6. Overlap  BY <1>2, <1>l, <1>o
  <2>z. \A o \in EditIds : o # e => edit'[o] = edit[o] /\ answers'[o] = answers[o]
      BY <1>t, <2>1 DEF EditTypes
  <2> QED  BY <1>1, <1>b, <1>l, <1>v, <2>1, <2>4, <2>5, <2>6, <2>z, TaskStep
<1>3. CASE ~(edit[e].count + 1 <= Len(extra))
  <2> DEFINE r == [text |-> edit[e].text, status |-> "queued"]
             n == Len(extra) + 1
  <2>1. /\ extra' = Append(extra, r) /\ edit' = [edit EXCEPT ![e] = Over]
        /\ answers' = [answers EXCEPT ![e] = "followup"]
    <3>1. /\ extra' = Append(extra, r) /\ edit' = [edit EXCEPT ![e].stage = "over"]
          /\ answers' = [answers EXCEPT ![e] = "followup"]
        BY <1>3 DEF Followup, Answer
    <3> QED  BY <1>t, <3>1 DEF EditTypes
  <2>2. r \in MessageRow /\ r.text = edit[e].text /\ r.status = "queued"
      BY <1>e DEF MessageRow, EditTask
  <2> HIDE DEF Over, r
  <2>3. extra' \in Seq(MessageRow) /\ Len(extra') = n /\ extra'[n] = r /\ n \in 1 .. n
      BY <1>e, <1>l, <2>1, <2>2
  <2>4. edit'[e] = Over /\ answers'[e] = "followup"  BY <1>t, <2>1 DEF EditTypes
  <2>5. EditTypes'  BY <1>1, <1>t, <1>v, <2>1, <2>3 DEF EditTypes, Replies
  <2>6. \A o \in EditIds : o = e => WriteOk(o)'  BY <1>v, <2>4 DEF WriteOk
  <2>7. Len(extra) <= Len(extra') /\ Len(extra') <= MaxFollowups
      BY <1>3, <1>c, <1>l, <2>3 DEF EditsAssumption
  <2>8. ASSUME ~Overlap, NEW o \in EditIds, o = e, o = discord PROVE EditOk(o)'
    <3>1. n \in QueuedExtra' /\ extra'[n].text = discord  BY <1>o, <2>2, <2>3, <2>8 DEF QueuedExtra
    <3>2. discord \in Given'  BY <3>1 DEF Given, Texts
    <3>3. e = discord  BY <1>o, <2>8
    <3> QED  BY <2>8, <1>1, <1>e, <1>v, <2>4, <3>2, <3>3 DEF EditOk, Decided
  <2>z. \A o \in EditIds : o # e => edit'[o] = edit[o] /\ answers'[o] = answers[o]
      BY <1>t, <2>1 DEF EditTypes
  <2> QED  BY <1>1, <1>b, <1>v, <2>1, <2>5, <2>6, <2>7, <2>8, <2>z, TaskStep
<1> QED  BY <1>2, <1>3

LEMMA EditsSteps == ASSUME EditsAssumption, EditsInv, [EditsNext]_EditsVars PROVE EditsInv'
<1>t. EditTypes  BY DEF EditsInv
<1>1. CASE Inserted
  <2>1. /\ base.status = "none" /\ (Overlap \/ discord = 0) /\ base' = [text |-> 0, status |-> "queued"]
        /\ UNCHANGED <<discord, extra, edit, passed, late, answers, shown>>
      BY <1>1 DEF Inserted
  <2>2. base' \in MessageRow /\ base'.text = 0 /\ base'.status # "none"  BY <2>1 DEF MessageRow
  <2>3. EditTypes'  BY <1>t, <2>1, <2>2 DEF EditTypes
  <2>4. ~Overlap => base'.text = base.text
    <3>1. base.text \in Nat /\ discord \in Nat  BY <1>t DEF EditTypes, MessageRow
    <3> QED  BY <2>1, <2>2, <3>1 DEF EditsInv
  <2>5. \A v \in Nat : v \in Given => v \in Given'  BY <2>1 DEF Given, Texts, QueuedExtra
  <2> QED  BY <2>1, <2>2, <2>3, <2>4, <2>5, RowsStep
<1>2. CASE WindowCloses \/ UNCHANGED EditsVars
  <2>1. /\ UNCHANGED <<discord, base, extra, edit, passed, answers, shown>> /\ late' \in BOOLEAN
    <3>1. CASE WindowCloses
      <4>1. late' = TRUE  BY <3>1 DEF WindowCloses
      <4>2. late' \in BOOLEAN  BY <4>1, Zenon
      <4> QED  BY <3>1, <4>2 DEF WindowCloses, rowVars
    <3>2. CASE UNCHANGED EditsVars  BY <1>t, <3>2 DEF EditsVars, EditTypes
    <3> QED  BY <1>2, <3>1, <3>2
  <2>2. EditTypes'  BY <1>t, <2>1 DEF EditTypes
  <2>3. \A v \in Nat : v \in Given => v \in Given'  BY <2>1 DEF Given, Texts, QueuedExtra
  <2> QED  BY <2>1, <2>2, <2>3, RowsStep
<1>3. CASE PersonEdits
  <2> DEFINE d == discord + 1
             t == [Idle EXCEPT !.stage = "event"]
  <2>1. /\ discord < MaxEdits /\ discord' = d
        /\ Overlap \/ (~Busy /\ base.status # "none")
        /\ edit' = [edit EXCEPT ![d] = t]
        /\ UNCHANGED <<base, extra, passed, shown, late, answers>>
      BY <1>3 DEF PersonEdits, rowVars
  <2>2. t \in EditTask /\ t.stage = "event" /\ t.tries = 0  BY DEF Idle, EditTask, EditStages
  <2> HIDE DEF t
  <2>3. d \in EditIds /\ d \in Nat /\ discord \in Nat /\ MaxEdits \in Nat
      BY <1>t, <2>1 DEF EditIds, EditTypes, EditsAssumption
  <2>4. EditTypes'  BY <1>t, <2>1, <2>2, <2>3 DEF EditTypes
  <2>5. \A e \in EditIds : edit'[e] = IF e = d THEN t ELSE edit[e]  BY <1>t, <2>1 DEF EditTypes
  <2>6. \A e \in EditIds : WriteOk(e)'  BY <2>1, <2>2, <2>5 DEF WriteOk, EditsInv
  <2>7. ASSUME ~Overlap
        PROVE /\ discord' <= MaxEdits /\ base'.text <= discord' /\ base'.text < discord'
              /\ base'.status # "none"
    <3>1. base.text \in Nat /\ base.text <= discord  BY <1>t, <2>7 DEF EditTypes, MessageRow, EditsInv
    <3> QED  BY <2>1, <2>3, <2>7, <3>1
  <2>8. ASSUME ~Overlap, NEW e \in EditIds PROVE EditOk(e)'
    <3>1. EditOk(e) /\ e \in Nat  BY <2>8 DEF EditsInv, EditIds
    <3>2. CASE e = d
      <4>1. edit[e].stage = "none"  BY <2>3, <3>1, <3>2 DEF EditOk
      <4>2. answers'[e] = "none"  BY <2>1, <3>1, <4>1 DEF EditOk
      <4>3. edit'[e].stage = "event" /\ edit'[e].tries = 0  BY <2>2, <2>5, <3>2
      <4> QED  BY <2>1, <2>7, <2>8, <3>2, <4>2, <4>3 DEF EditOk, Decided
    <3>3. CASE e # d
      <4>1. edit'[e] = edit[e] /\ answers'[e] = answers[e]  BY <2>1, <2>5, <3>3
      <4>2. edit[e].stage = "none" \/ edit[e].stage = "over"
        <5>1. edit[e].stage = "none" \/ answers[e] # "none"  BY <2>1, <2>8 DEF Busy
        <5> QED  BY <3>1, <5>1 DEF EditOk
      <4>3. (e > d => e > discord) /\ (e <= d => e <= discord)  BY <2>3, <3>1, <3>3
      <4> QED  BY <2>1, <3>1, <3>3, <4>1, <4>2, <4>3 DEF EditOk, Decided
    <3> QED  BY <3>2, <3>3
  <2>9. (Len(extra) <= MaxFollowups)'  BY <2>1 DEF EditsInv
  <2> QED  BY <2>4, <2>6, <2>7, <2>8, <2>9 DEF EditsInv
<1>4. ASSUME NEW e \in EditIds, Fetch(e) PROVE EditsInv'
  <2> DEFINE t == [edit[e] EXCEPT !.stage = "load", !.text = discord]
  <2>1. /\ edit[e].stage = "event" /\ edit' = [edit EXCEPT ![e] = t]
        /\ UNCHANGED <<discord, base, extra, passed, shown, late, answers>>
    <3>1. /\ edit[e].stage = "event" /\ edit' = [edit EXCEPT ![e].stage = "load", ![e].text = discord]
          /\ UNCHANGED <<discord, base, extra, passed, shown, late, answers>>
        BY <1>4 DEF Fetch, rowVars
    <3> QED  BY <1>t, <3>1 DEF EditTypes
  <2>e. edit[e] \in EditTask /\ discord \in Nat /\ e \in Nat  BY <1>t DEF EditTypes, EditIds
  <2>2. t \in EditTask /\ t.stage = "load" /\ t.text = discord /\ t.tries = edit[e].tries
      BY <2>e DEF EditTask, EditStages
  <2> HIDE DEF t
  <2>3. edit'[e] = t /\ answers' = [answers EXCEPT ![e] = answers[e]] /\ answers[e] \in Replies
      BY <1>t, <2>1 DEF EditTypes
  <2>4. EditTypes'  BY <1>t, <2>1, <2>2 DEF EditTypes
  <2>5. \A o \in EditIds : o = e => WriteOk(o)'  BY <2>2, <2>3 DEF WriteOk
  <2>6. ASSUME ~Overlap, NEW o \in EditIds, o = e, o = discord PROVE EditOk(o)'
    <3>1. EditOk(e)  BY <2>6 DEF EditsInv
    <3>2. edit[e].tries = 0 /\ base.text < discord /\ answers[e] = "none"  BY <2>1, <2>6, <3>1 DEF EditOk
    <3> QED  BY <2>1, <2>2, <2>3, <2>6, <2>e, <3>2 DEF EditOk, Decided
  <2>7. ~Overlap => base'.text <= discord /\ base'.status = base.status  BY <2>1 DEF EditsInv
  <2>8. Len(extra) \in Nat /\ Len(extra) <= MaxFollowups  BY <1>t DEF EditTypes, EditsInv
  <2>z. \A o \in EditIds : o # e => edit'[o] = edit[o] /\ answers'[o] = answers[o]
      BY <1>t, <2>1 DEF EditTypes
  <2> QED  BY <2>1, <2>2, <2>3, <2>4, <2>5, <2>6, <2>7, <2>8, <2>z, TaskStep
<1> QED  BY <1>1, <1>2, <1>3, <1>4, TurnStartsStep, TurnOverStep, LoadStep, UpdateStep, UpdateFollowupStep,
            FollowupStep DEF EditsNext

LEMMA EditsSafe ==
  ASSUME EditsAssumption, EditsInv
  PROVE  FollowupsCapped /\ (~Overlap => EditReaches)
<1>1. FollowupsCapped  BY DEF EditsInv, FollowupsCapped
<1>2. ASSUME ~Overlap, discord > 0, ~Busy, ~Refused(discord) PROVE discord \in Given
  <2>1. discord \in EditIds  BY <1>2 DEF EditIds, EditsInv, EditTypes, EditsAssumption
  <2>2. EditOk(discord)  BY <1>2, <2>1 DEF EditsInv
  <2>3. edit[discord].stage # "none"  BY <2>1, <2>2 DEF EditOk, EditIds
  <2>4. edit[discord].stage = "over"  BY <1>2, <2>1, <2>2, <2>3 DEF Busy, EditOk
  <2> QED  BY <1>2, <2>2, <2>4 DEF EditOk
<1> QED  BY <1>1, <1>2 DEF EditReaches

-----------------------------------------------------------------------------
(* Reactions *)

LEMMA ElementsCount ==
  ASSUME NEW S, NEW s \in Seq(S), NEW T \in SUBSET {s[i] : i \in 1 .. Len(s)}
  PROVE  IsFiniteSet(T) /\ Cardinality(T) <= Len(s)
<1> DEFINE all == {s[i] : i \in 1 .. Len(s)}
           f == [i \in 1 .. Len(s) |-> s[i]]
<1>1. f \in Surjection(1 .. Len(s), all)
  <2>1. f \in [1 .. Len(s) -> all]  OBVIOUS
  <2>2. \A t \in all : \E i \in 1 .. Len(s) : f[i] = t  OBVIOUS
  <2> QED  BY <2>1, <2>2, Zenon DEF Surjection
<1>2. Len(s) \in Nat /\ IsFiniteSet(1 .. Len(s)) /\ Cardinality(1 .. Len(s)) = Len(s)
  <2>1. Len(s) \in Nat  OBVIOUS
  <2> QED  BY <2>1, FS_Interval
<1>4. T \subseteq all  OBVIOUS
<1> HIDE DEF f, all
<1>3. IsFiniteSet(all) /\ Cardinality(all) <= Len(s)
  <2>1. Cardinality(all) <= Cardinality(1 .. Len(s)) /\ IsFiniteSet(all)  BY <1>1, <1>2, FS_Surjection, Zenon
  <2> QED  BY <1>2, <2>1, Zenon
<1>5. IsFiniteSet(T) /\ Cardinality(T) <= Cardinality(all)  BY <1>3, <1>4, FS_Subset
<1>6. Cardinality(T) \in Nat /\ Cardinality(all) \in Nat  BY <1>3, <1>5, FS_CardinalityType
<1> QED  BY <1>2, <1>3, <1>5, <1>6

ReactTypes ==
    /\ now \in Nat /\ now <= MaxNow /\ made \in Nat
    /\ task \in [Events -> {"none", "begun", "fetching", "done"}]
    /\ key \in [Events -> Keys]
    /\ sees \in [Events -> Nat] /\ sent \in [Events -> Nat]
    /\ seen \in [Keys -> Nat]
    /\ rate \in Seq(Events)
    /\ overlap \in BOOLEAN

Counts(b) == \E i \in 1 .. Len(rate) : rate[i] = b
Fresh(b, t) == t < sent[b] + Cooldown

NoticeOk(b) ==
    /\ sent[b] <= now /\ task[b] = "done"
    /\ seen[key[b]] # Never /\ sent[b] <= seen[key[b]]
    /\ Fresh(b, now) => Counts(b)

\* What a task saw at its checks is still so while it waits for its message.
FetchOk(e) ==
    /\ sees[e] <= now
    /\ \A b \in Notices : sent[b] <= sees[e] /\ (Fresh(b, sees[e]) => Counts(b))
    /\ Len(rate) < Rate /\ ~Cooling(e, sees[e])

ReactInv ==
    /\ ReactTypes
    /\ \A e \in Events : e > made => task[e] = "none"
    /\ ~overlap => /\ \A e, o \in Events : task[e] = "fetching" /\ task[o] = "fetching" => e = o
                   /\ \A b \in Notices : NoticeOk(b)
                   /\ \A e \in Events : task[e] = "fetching" => FetchOk(e)
                   /\ Spared

LEMMA ReactStarts == ASSUME ReactAssumption PROVE ReactInit => ReactInv
<1> SUFFICES ASSUME ReactInit PROVE ReactInv  OBVIOUS
<1>1. ReactTypes
  <2> DEFINE one == CHOOSE k \in Keys : TRUE
  <2>1. one \in Keys  BY DEF ReactAssumption
  <2> HIDE DEF one
  <2>2. Never \in Nat  BY DEF Never, ReactAssumption
  <2>3. key = [e \in Events |-> one]  BY DEF ReactInit, one
  <2>4. key \in [Events -> Keys]  BY <2>1, <2>3
  <2>5. seen = [k \in Keys |-> Never] /\ sent = [e \in Events |-> Never]  BY DEF ReactInit
  <2>9. seen \in [Keys -> Nat] /\ sent \in [Events -> Nat]  BY <2>2, <2>5
  <2>6. task \in [Events -> {"none", "begun", "fetching", "done"}] /\ sees \in [Events -> Nat]  BY DEF ReactInit
  <2>7. rate \in Seq(Events)  BY DEF ReactInit
  <2>8. now \in Nat /\ now <= MaxNow /\ made \in Nat  BY DEF ReactInit, ReactAssumption
  <2>10. overlap \in BOOLEAN  BY Zenon DEF ReactInit
  <2> QED  BY <2>10, <2>4, <2>6, <2>7, <2>8, <2>9 DEF ReactTypes
<1>2. Notices = {}  BY DEF ReactInit, Notices
<1>3. Spared  BY <1>2 DEF Spared
<1>4. \A e \in Events : task[e] = "none"  BY DEF ReactInit
<1> QED  BY <1>1, <1>2, <1>3, <1>4 DEF ReactInv

\* The deque loses some of its old end, and nothing that still counts.
LEMMA RecentIs ==
  ASSUME ReactAssumption, ReactTypes, NEW t \in Nat
  PROVE  /\ Recent(t) \in Seq(Events)
         /\ \A b \in Events : Fresh(b, t) /\ Counts(b) => \E i \in 1 .. Len(Recent(t)) : Recent(t)[i] = b
<1> DEFINE I == {i \in 1 .. Len(rate) : t < sent[rate[i]] + Cooldown}
<1>1. Recent(t) = IF I = {} THEN <<>> ELSE SubSeq(rate, Min(I), Len(rate))
    BY DEF Recent
<1>2. rate \in Seq(Events) /\ Len(rate) \in Nat  BY DEF ReactTypes
<1>3. CASE I = {}
  <2>1. Recent(t) = <<>>  BY <1>1, <1>3
  <2>2. \A b \in Events : ~(Fresh(b, t) /\ Counts(b))  BY <1>3 DEF Fresh, Counts
  <2> QED  BY <2>1, <2>2
<1>4. CASE I # {}
  <2>1. I \in SUBSET Nat  BY <1>2
  <2>2. \E x \in I : \A y \in I : x <= y  BY <1>4, <2>1, LeastOne
  <2>3. Min(I) \in I /\ \A y \in I : Min(I) <= y
    <3> HIDE DEF I
    <3> QED  BY <2>2 DEF Min
  <2> DEFINE m == Min(I)
  <2>4. m \in 1 .. Len(rate) /\ \A y \in I : m <= y  BY <2>3
  <2>5. Recent(t) = SubSeq(rate, m, Len(rate))  BY <1>1, <1>4, <2>4
  <2> HIDE DEF m
  <2>6. /\ Recent(t) \in Seq(Events) /\ Len(Recent(t)) = Len(rate) - m + 1
        /\ \A i \in 1 .. Len(rate) - m + 1 : Recent(t)[i] = rate[m + i - 1]
      BY <1>2, <2>4, <2>5
  <2>7. ASSUME NEW b \in Events, Fresh(b, t), Counts(b) PROVE \E i \in 1 .. Len(Recent(t)) : Recent(t)[i] = b
    <3>1. PICK i \in 1 .. Len(rate) : rate[i] = b  BY <2>7 DEF Counts
    <3>2. i \in I  BY <2>7, <3>1 DEF Fresh
    <3>3. m <= i  BY <2>4, <3>2
    <3>4. i - m + 1 \in 1 .. Len(Recent(t)) /\ m + (i - m + 1) - 1 = i  BY <1>2, <2>4, <2>6, <3>3
    <3>5. Recent(t)[i - m + 1] = b  BY <2>6, <3>1, <3>4
    <3> QED  BY <3>4, <3>5
  <2> QED  BY <2>6, <2>7
<1> QED  BY <1>3, <1>4

\* A step that accounts for nothing.
LEMMA NoneAccounted ==
  ASSUME ReactAssumption, ReactInv, ReactTypes',
         UNCHANGED <<seen, sent>>, now <= now', overlap => overlap',
         \A e \in Events : e > made' => task'[e] = "none",
         ~overlap' => /\ \A e, o \in Events : task'[e] = "fetching" /\ task'[o] = "fetching" => e = o
                      /\ \A b \in Notices : /\ task'[b] = "done" /\ key'[b] = key[b]
                                            /\ Fresh(b, now') /\ Counts(b) => Counts(b)'
                      /\ \A e \in Events : task'[e] = "fetching" => FetchOk(e)'
  PROVE  ReactInv'
<1> SUFFICES ASSUME ~overlap' PROVE (\A b \in Notices : NoticeOk(b)') /\ Notices' = Notices /\ Spared'
    BY DEF ReactInv
<1>1. Notices' = Notices  BY DEF Notices
<1>2. Notices \subseteq Events  BY DEF Notices
<1>3. ASSUME NEW b \in Notices PROVE NoticeOk(b)'
  <2>1. NoticeOk(b)  BY DEF ReactInv
  <2>2. Fresh(b, now') => Fresh(b, now)
      BY <1>2 DEF Fresh, ReactInv, ReactTypes, ReactAssumption
  <2>3. sent[b] <= now'  BY <1>2, <2>1 DEF NoticeOk, ReactInv, ReactTypes
  <2>4. Fresh(b, now)' <=> Fresh(b, now')  BY DEF Fresh
  <2> QED  BY <2>1, <2>2, <2>3, <2>4 DEF NoticeOk, Never
<1>4. Spared'
  <2>1. Spared  BY DEF ReactInv
  <2>2. \A a, b \in Notices : Near(a, b)' <=> Near(a, b)  BY DEF Near
  <2>3. \A a \in Notices : {b \in Notices : Near(a, b)'} = {b \in Notices : Near(a, b)}  BY <2>2
  <2>4. \A a, b \in Notices' : (a # b /\ key'[a] = key'[b]) => ~Near(a, b)'
      BY <1>1, <2>1, <2>2 DEF Spared
  <2>5. \A a \in Notices' : Cardinality({b \in Notices' : Near(a, b)'}) <= Rate
      BY <1>1, <2>1, <2>3 DEF Spared
  <2> QED  BY <2>4, <2>5 DEF Spared
<1> QED  BY <1>1, <1>3, <1>4

LEMMA ChecksStep == ASSUME ReactAssumption, ReactInv, NEW e \in Events, Checks(e) PROVE ReactInv'
<1>t. ReactTypes  BY DEF ReactInv
<1>1. /\ task[e] = "begun" /\ sees' = [sees EXCEPT ![e] = now]
      /\ UNCHANGED <<now, key, seen, sent, made>>
    BY DEF Checks
<1>n. \A b \in Notices : b \in Events  BY DEF Notices
<1>2. CASE Cooling(e, now)
  <2>1. task' = [task EXCEPT ![e] = "done"] /\ UNCHANGED <<rate, overlap>>  BY <1>2 DEF Checks
  <2>2. ReactTypes'  BY <1>1, <1>t, <2>1 DEF ReactTypes
  <2>3. ASSUME NEW o \in Events, task'[o] = "fetching", ~overlap' PROVE FetchOk(o)'
    <3>1. o # e /\ task[o] = "fetching"  BY <1>t, <2>1, <2>3 DEF ReactTypes
    <3>2. FetchOk(o)  BY <2>1, <2>3, <3>1 DEF ReactInv
    <3>3. sees'[o] = sees[o]  BY <1>1, <1>t, <3>1 DEF ReactTypes
    <3>4. \A b : Fresh(b, sees[o])' <=> Fresh(b, sees[o])  BY <1>1, <3>3 DEF Fresh
    <3>5. Notices' = Notices  BY <1>1 DEF Notices
    <3>6. \A b : Counts(b)' <=> Counts(b)  BY <2>1 DEF Counts
    <3>7. Cooling(o, sees[o])' <=> Cooling(o, sees[o])  BY <1>1, <3>3 DEF Cooling, Never
    <3> QED  BY <1>1, <2>1, <3>2, <3>3, <3>4, <3>5, <3>6, <3>7 DEF FetchOk
  <2>4. \A o \in Events : o > made' => task'[o] = "none"  BY <1>1, <1>t, <2>1 DEF ReactInv, ReactTypes
  <2>5. ASSUME ~overlap', NEW b \in Notices
        PROVE task'[b] = "done" /\ key'[b] = key[b] /\ (Counts(b) => Counts(b)')
      BY <1>1, <1>n, <1>t, <2>1, <2>5 DEF ReactInv, ReactTypes, NoticeOk, Counts
  <2>6. ASSUME ~overlap', NEW p \in Events, NEW o \in Events, task'[p] = "fetching", task'[o] = "fetching"
        PROVE p = o
      BY <1>1, <1>t, <2>1, <2>6 DEF ReactInv, ReactTypes
  <2>7. now <= now' /\ (overlap => overlap')  BY <1>1, <1>t, <2>1 DEF ReactTypes
  <2> QED  BY <1>1, <2>2, <2>3, <2>4, <2>5, <2>6, <2>7, NoneAccounted
<1>3. CASE ~Cooling(e, now)
  <2>1. /\ rate' = Recent(now)
        /\ task' = [task EXCEPT ![e] = IF Len(Recent(now)) >= Rate THEN "done" ELSE "fetching"]
        /\ overlap' = (overlap \/ \E o \in Events : task[o] = "fetching")
      BY <1>3 DEF Checks
  <2>0. now \in Nat  BY <1>t DEF ReactTypes
  <2>r. /\ rate' \in Seq(Events)
        /\ \A b \in Events : Fresh(b, now) /\ Counts(b) => Counts(b)'
      BY <1>t, <2>0, <2>1, RecentIs DEF Counts
  <2>2. ReactTypes'  BY <1>1, <1>t, <2>1, <2>r DEF ReactTypes
  <2>3. ASSUME NEW o \in Events, task'[o] = "fetching", ~overlap' PROVE o = e /\ FetchOk(o)'
    <3>1. o = e  BY <1>t, <2>1, <2>3 DEF ReactTypes
    <3>2. sees'[e] = now /\ now' = now  BY <1>1, <1>t DEF ReactTypes
    <3>3. Len(rate') < Rate
      <4>1. Len(Recent(now)) \in Nat /\ task'[e] = IF Len(Recent(now)) >= Rate THEN "done" ELSE "fetching"
          BY <1>t, <2>1, <2>r DEF ReactTypes
      <4> QED  BY <2>1, <2>3, <3>1, <4>1 DEF ReactAssumption
    <3>4. Notices' = Notices  BY <1>1 DEF Notices
    <3>5. \A b \in Notices : sent[b] <= now /\ (Fresh(b, now) => Counts(b)')
        BY <1>n, <2>1, <2>3, <2>r DEF ReactInv, NoticeOk
    <3>6. \A b : Fresh(b, sees[e])' <=> Fresh(b, now)  BY <1>1, <3>2 DEF Fresh
    <3>7. ~Cooling(e, sees[e])'  BY <1>1, <1>3, <3>2 DEF Cooling, Never
    <3>8. now <= now  BY <2>0
    <3> QED  BY <1>1, <3>1, <3>2, <3>3, <3>4, <3>5, <3>6, <3>7, <3>8 DEF FetchOk
  <2>4. \A o \in Events : o > made' => task'[o] = "none"  BY <1>1, <1>t, <2>1 DEF ReactInv, ReactTypes
  <2>5. ASSUME ~overlap', NEW b \in Notices
        PROVE task'[b] = "done" /\ key'[b] = key[b] /\ (Fresh(b, now') /\ Counts(b) => Counts(b)')
      BY <1>1, <1>n, <1>t, <2>1, <2>5, <2>r DEF ReactInv, ReactTypes, NoticeOk
  <2>6. ASSUME ~overlap', NEW p \in Events, NEW o \in Events, task'[p] = "fetching", task'[o] = "fetching"
        PROVE p = o
      BY <2>3, <2>6
  <2>7. now <= now' /\ (overlap => overlap')
    <3>1. now <= now'  BY <1>1, <2>0
    <3>2. overlap => overlap'  BY <2>1, Zenon
    <3> QED  BY <3>1, <3>2
  <2> QED  BY <1>1, <2>2, <2>3, <2>4, <2>5, <2>6, <2>7, NoneAccounted
<1> QED  BY <1>2, <1>3

LEMMA AccountsStep == ASSUME ReactAssumption, ReactInv, NEW e \in Events, Accounts(e) PROVE ReactInv'
<1>t. ReactTypes  BY DEF ReactInv
<1>1. /\ task[e] = "fetching" /\ task' = [task EXCEPT ![e] = "done"]
      /\ seen' = [seen EXCEPT ![key[e]] = sees[e]]
      /\ rate' = Append(rate, e)
      /\ sent' = [sent EXCEPT ![e] = sees[e]]
      /\ UNCHANGED <<now, key, sees, made, overlap>>
    BY DEF Accounts
<1>2. ReactTypes'  BY <1>1, <1>t DEF ReactTypes
<1>3. \A o \in Events : o > made' => task'[o] = "none"  BY <1>1, <1>t DEF ReactInv, ReactTypes
<1> SUFFICES ASSUME ~overlap'
             PROVE /\ \A p, o \in Events : task'[p] = "fetching" /\ task'[o] = "fetching" => p = o
                   /\ \A b \in Notices' : NoticeOk(b)'
                   /\ \A o \in Events : task'[o] = "fetching" => FetchOk(o)'
                   /\ Spared'
    BY <1>2, <1>3 DEF ReactInv
<1>o. ~overlap  BY <1>1
<1>4. \A o \in Events : task'[o] # "fetching"  BY <1>1, <1>t, <1>o DEF ReactInv, ReactTypes
<1>5. FetchOk(e) /\ \A b \in Notices : b \in Events /\ NoticeOk(b)  BY <1>1, <1>o DEF ReactInv, Notices
<1> DEFINE t == sees[e]
<1>6. t \in Nat /\ t <= now /\ t # Never /\ now' = now /\ now \in Nat
    BY <1>1, <1>5, <1>t DEF FetchOk, ReactTypes, Never, ReactAssumption
<1>7. e \notin Notices /\ Notices' = Notices \cup {e} /\ sent'[e] = t /\ \A b \in Notices : sent'[b] = sent[b] /\ b # e
  <2>1. e \notin Notices  BY <1>1, <1>5 DEF NoticeOk
  <2>2. sent'[e] = t /\ \A b \in Events : b # e => sent'[b] = sent[b]  BY <1>1, <1>t DEF ReactTypes
  <2> QED  BY <1>6, <2>1, <2>2 DEF Notices, Never
<1>8. \A b \in Notices : sent[b] \in Nat /\ sent[b] <= t /\ (Fresh(b, t) => Counts(b))
    BY <1>5, <1>t DEF FetchOk, ReactTypes
<1>9. /\ rate' \in Seq(Events) /\ Len(rate') = Len(rate) + 1 /\ rate'[Len(rate) + 1] = e
      /\ \A i \in 1 .. Len(rate) : rate'[i] = rate[i]
      /\ Len(rate) \in Nat
    BY <1>1, <1>t DEF ReactTypes
<1>10. Counts(e)' /\ \A b : Counts(b) => Counts(b)'
  <2>1. 1 .. Len(rate) \subseteq 1 .. Len(rate') /\ Len(rate) + 1 \in 1 .. Len(rate')  BY <1>9
  <2> QED  BY <1>9, <2>1 DEF Counts
<1>11. ASSUME NEW b \in Notices' PROVE NoticeOk(b)'
  <2>1. CASE b = e
    <3>1. seen'[key'[e]] = t  BY <1>1, <1>t DEF ReactTypes
    <3>2. task'[e] = "done"  BY <1>1, <1>t DEF ReactTypes
    <3> QED  BY <1>6, <1>7, <1>10, <2>1, <3>1, <3>2 DEF NoticeOk, Never
  <2>2. CASE b # e
    <3>1. b \in Notices /\ NoticeOk(b) /\ b \in Events  BY <1>5, <1>7, <2>2
    <3>2. task'[b] = task[b] /\ key'[b] = key[b] /\ sent'[b] = sent[b]  BY <1>1, <1>7, <1>t, <2>2, <3>1 DEF ReactTypes
    <3>3. seen'[key[b]] = seen[key[b]] \/ (seen'[key[b]] = t)  BY <1>1, <1>t, <3>1 DEF ReactTypes
    <3>4. Fresh(b, now)' <=> Fresh(b, now)  BY <1>6, <3>2 DEF Fresh
    <3>5. Counts(b) => Counts(b)'  BY <1>10
    <3> HIDE DEF t
    <3> QED  BY <1>6, <1>8, <3>1, <3>2, <3>3, <3>4, <3>5 DEF NoticeOk, Never
  <2> QED  BY <2>1, <2>2
<1> HIDE DEF t
<1>s. Spared  BY <1>o DEF ReactInv
<1>c. Cooldown \in Nat \ {0}  BY DEF ReactAssumption
<1>n. \A a, b \in Notices : Near(a, b)' <=> Near(a, b)  BY <1>7 DEF Near
<1>12. ASSUME NEW a \in Notices', NEW b \in Notices', a # b, key'[a] = key'[b] PROVE ~Near(a, b)'
  <2>0. \A d \in Notices : key[d] = key[e] => sent[d] + Cooldown <= t
    <3> SUFFICES ASSUME NEW d \in Notices, key[d] = key[e] PROVE sent[d] + Cooldown <= t  OBVIOUS
    <3>1. ~Cooling(e, t)  BY <1>5 DEF FetchOk, t
    <3>2. seen[key[e]] # Never /\ sent[d] <= seen[key[e]]  BY <1>5 DEF NoticeOk
    <3>3. seen[key[e]] \in Nat  BY <1>t DEF ReactTypes
    <3>4. ~(t < seen[key[e]] + Cooldown)  BY <3>1, <3>2 DEF Cooling
    <3> QED  BY <1>6, <1>8, <1>c, <3>2, <3>3, <3>4
  <2>1. CASE a \in Notices /\ b \in Notices  BY <1>1, <1>12, <1>n, <1>s, <2>1 DEF Spared
  <2>2. CASE a = e
    <3>1. b \in Notices /\ sent'[b] = sent[b] /\ sent'[a] = t /\ key[b] = key[e]  BY <1>1, <1>7, <1>12, <2>2
    <3>2. sent[b] + Cooldown <= t /\ sent[b] \in Nat  BY <1>8, <2>0, <3>1
    <3> QED  BY <1>6, <1>c, <3>1, <3>2 DEF Near
  <2>3. CASE b = e
    <3>1. a \in Notices /\ sent'[a] = sent[a] /\ sent'[b] = t /\ key[a] = key[e]  BY <1>1, <1>7, <1>12, <2>3
    <3>2. sent[a] + Cooldown <= t /\ sent[a] \in Nat  BY <1>8, <2>0, <3>1
    <3> QED  BY <1>6, <1>c, <3>1, <3>2 DEF Near
  <2> QED  BY <1>7, <2>1, <2>2, <2>3
<1>13. ASSUME NEW a \in Notices' PROVE Cardinality({b \in Notices' : Near(a, b)'}) <= Rate
  <2>1. CASE a \in Notices /\ ~Near(a, e)'
    <3>1. {b \in Notices' : Near(a, b)'} = {b \in Notices : Near(a, b)}  BY <1>7, <1>n, <2>1
    <3> QED  BY <1>s, <2>1, <3>1 DEF Spared
  <2>2. CASE a = e \/ Near(a, e)'
    <3> DEFINE N == {b \in Notices' : Near(a, b)'}
    <3>1. ASSUME NEW b \in N PROVE Counts(b)'
      <4>1. CASE b = e  BY <1>10, <4>1
      <4>2. CASE b # e
        <5>1. b \in Notices /\ sent'[b] = sent[b] /\ sent[b] \in Nat  BY <1>7, <1>8, <4>2
        <5>2. sent'[a] <= sent[b] /\ sent'[a] \in Nat /\ (a # e => t < sent'[a] + Cooldown)
              /\ (a = e => sent'[a] = t)
            BY <1>7, <1>8, <1>6, <2>2, <5>1 DEF Near
        <5>3. t < sent[b] + Cooldown  BY <1>6, <1>c, <5>1, <5>2
        <5> QED  BY <1>8, <1>10, <5>1, <5>3 DEF Fresh
      <4> QED  BY <4>1, <4>2
    <3>2. N \in SUBSET {rate'[i] : i \in 1 .. Len(rate')}  BY <3>1 DEF Counts
    <3> HIDE DEF N
    <3>3. IsFiniteSet(N) /\ Cardinality(N) <= Len(rate')  BY <1>9, <3>2, ElementsCount
    <3>4. Cardinality(N) \in Nat  BY <3>3, FS_CardinalityType
    <3>5. Len(rate) < Rate  BY <1>5 DEF FetchOk
    <3>6. Cardinality(N) <= Rate  BY <1>9, <3>3, <3>4, <3>5 DEF ReactAssumption
    <3> QED  BY <3>6 DEF N
  <2> QED  BY <1>7, <2>1, <2>2
<1>14. Spared'  BY <1>12, <1>13 DEF Spared
<1> QED  BY <1>4, <1>11, <1>14

LEMMA ReactSteps == ASSUME ReactAssumption, ReactInv, [ReactNext]_ReactVars PROVE ReactInv'
<1>t. ReactTypes  BY DEF ReactInv
<1>n. \A b \in Notices : b \in Events  BY DEF Notices
\* Nothing a waiting task saw changes.
<1>k. ASSUME UNCHANGED <<sees, seen, rate, sent>>, now <= now', now' \in Nat, NEW o \in Events, FetchOk(o), key'[o] = key[o]
      PROVE FetchOk(o)'
  <2>1. sees[o] <= now'  BY <1>k, <1>t DEF FetchOk, ReactTypes
  <2>2. Notices' = Notices /\ \A b : (Fresh(b, sees[o])' <=> Fresh(b, sees[o])) /\ (Counts(b)' <=> Counts(b))
      BY <1>k DEF Notices, Fresh, Counts
  <2>3. Cooling(o, sees[o])' <=> Cooling(o, sees[o])  BY <1>k DEF Cooling, Never
  <2> QED  BY <1>k, <2>1, <2>2, <2>3 DEF FetchOk
<1>1. ASSUME NEW k \in Keys, React(k) PROVE ReactInv'
  <2> DEFINE n == made + 1
  <2>1. /\ made < MaxEvents /\ made' = n /\ task' = [task EXCEPT ![n] = "begun"] /\ key' = [key EXCEPT ![n] = k]
        /\ UNCHANGED <<now, sees, seen, rate, sent, overlap>>
      BY <1>1 DEF React
  <2>2. n \in Events /\ task[n] = "none"  BY <1>t, <2>1 DEF ReactInv, ReactTypes, Events, ReactAssumption
  <2> HIDE DEF n
  <2>3. ReactTypes'  BY <1>t, <2>1, <2>2 DEF ReactTypes, Events
  <2>4. \A o \in Events : o # n => task'[o] = task[o] /\ key'[o] = key[o]  BY <1>t, <2>1 DEF ReactTypes
  <2>5. task'[n] = "begun"  BY <1>t, <2>1, <2>2 DEF ReactTypes
  <2>6. \A o \in Events : o > made' => task'[o] = "none"
    <3>1. \A o \in Events : o > n => o > made /\ o # n  BY <1>t DEF ReactTypes, Events, n
    <3> QED  BY <2>1, <2>4, <3>1 DEF ReactInv
  <2>7. ASSUME ~overlap', NEW b \in Notices
        PROVE task'[b] = "done" /\ key'[b] = key[b] /\ (Counts(b) => Counts(b)')
      BY <1>n, <2>1, <2>2, <2>4, <2>7 DEF ReactInv, NoticeOk, Counts
  <2>8. now <= now' /\ now' \in Nat /\ (overlap => overlap')  BY <1>t, <2>1 DEF ReactTypes
  <2>9. ASSUME ~overlap', NEW o \in Events, task'[o] = "fetching" PROVE FetchOk(o)'
    <3>1. o # n /\ task[o] = "fetching" /\ key'[o] = key[o]  BY <2>4, <2>5, <2>9
    <3>2. FetchOk(o)  BY <2>1, <2>9, <3>1 DEF ReactInv
    <3> QED  BY <1>k, <2>1, <2>8, <3>1, <3>2
  <2>10. ASSUME ~overlap', NEW p \in Events, NEW o \in Events, task'[p] = "fetching", task'[o] = "fetching"
         PROVE p = o
      BY <2>1, <2>4, <2>5, <2>10 DEF ReactInv
  <2> QED  BY <2>1, <2>3, <2>6, <2>7, <2>8, <2>9, <2>10, NoneAccounted
<1>2. ASSUME NEW e \in Events, NotHuman(e) \/ NoNotice(e) PROVE ReactInv'
  <2>1. /\ task[e] # "none" /\ task' = [task EXCEPT ![e] = "done"]
        /\ UNCHANGED <<now, key, sees, seen, rate, sent, made, overlap>>
      BY <1>2 DEF NotHuman, NoNotice
  <2>3. ReactTypes'  BY <1>t, <2>1 DEF ReactTypes
  <2>4. \A o \in Events : task'[o] = IF o = e THEN "done" ELSE task[o]  BY <1>t, <2>1 DEF ReactTypes
  <2>6. \A o \in Events : o > made' => task'[o] = "none"  BY <2>1, <2>4 DEF ReactInv
  <2>7. ASSUME ~overlap', NEW b \in Notices
        PROVE task'[b] = "done" /\ key'[b] = key[b] /\ (Counts(b) => Counts(b)')
      BY <1>n, <2>1, <2>4, <2>7 DEF ReactInv, NoticeOk, Counts
  <2>8. now <= now' /\ now' \in Nat /\ (overlap => overlap')  BY <1>t, <2>1 DEF ReactTypes
  <2>9. ASSUME ~overlap', NEW o \in Events, task'[o] = "fetching" PROVE FetchOk(o)'
    <3>2. FetchOk(o)  BY <2>1, <2>4, <2>9 DEF ReactInv
    <3> QED  BY <1>k, <2>1, <2>8, <3>2
  <2>10. ASSUME ~overlap', NEW p \in Events, NEW o \in Events, task'[p] = "fetching", task'[o] = "fetching"
         PROVE p = o
      BY <2>1, <2>4, <2>10 DEF ReactInv
  <2> QED  BY <2>1, <2>3, <2>6, <2>7, <2>8, <2>9, <2>10, NoneAccounted
<1>3. ASSUME Clock \/ UNCHANGED ReactVars PROVE ReactInv'
  <2>1. /\ now' \in Nat /\ now <= now' /\ now' <= MaxNow
        /\ UNCHANGED <<task, key, sees, seen, rate, sent, made, overlap>>
      BY <1>3, <1>t DEF Clock, ReactVars, ReactTypes, ReactAssumption
  <2>3. ReactTypes'  BY <1>t, <2>1 DEF ReactTypes
  <2>6. \A o \in Events : o > made' => task'[o] = "none"  BY <2>1 DEF ReactInv
  <2>7. ASSUME ~overlap', NEW b \in Notices
        PROVE task'[b] = "done" /\ key'[b] = key[b] /\ (Counts(b) => Counts(b)')
      BY <1>n, <2>1, <2>7 DEF ReactInv, NoticeOk, Counts
  <2>9. ASSUME ~overlap', NEW o \in Events, task'[o] = "fetching" PROVE FetchOk(o)'
    <3>2. FetchOk(o)  BY <2>1, <2>9 DEF ReactInv
    <3> QED  BY <1>k, <2>1, <3>2
  <2>10. ASSUME ~overlap', NEW p \in Events, NEW o \in Events, task'[p] = "fetching", task'[o] = "fetching"
         PROVE p = o
      BY <2>1, <2>10 DEF ReactInv
  <2> QED  BY <2>1, <2>3, <2>6, <2>7, <2>9, <2>10, NoneAccounted
<1> QED  BY <1>1, <1>2, <1>3, ChecksStep, AccountsStep DEF ReactNext

LEMMA ReactSafe == ReactInv => SparedAlone
BY DEF ReactInv, SparedAlone

-----------------------------------------------------------------------------
(* RelayConfig *)

Pair == [{1, 2} -> Nat]

ConfigTypes ==
    /\ agents \in Nat /\ channels \in Nat /\ read \in Nat /\ configTold \in Nat
    /\ held \in Pair /\ saved \in Pair
    /\ mtimes \in Nat \X Nat /\ failed \in Nat \X Nat /\ current \in Nat \X Nat
    /\ step \in {"idle", "agents", "channels", "times"}

\* A version that was read and loads: later versions have other numbers.
GoodAgents(v) == v # 0 /\ v <= agents /\ <<"agents", v>> \notin bad
GoodChannels(v) == v <= channels /\ <<"channels", v>> \notin bad
Whole(h) == GoodAgents(h[1]) /\ GoodChannels(h[2])

HeldOk ==
    /\ step = "idle" => Whole(held)
    /\ step # "idle" => Whole(saved)
    /\ step = "agents" => held = saved
    /\ step \in {"channels", "times"} => /\ read # 0 => GoodAgents(read)
                                         /\ held[1] = read /\ GoodChannels(held[2])

Below(s, t) == s[1] <= t[1] /\ s[2] <= t[2]
Sum(s) == s[1] + s[2]

\* Each failure is logged at versions later than those of the last log or the last load.
ToldOk ==
    /\ Below(failed, Times) /\ Below(mtimes, Times) /\ Below(<<1, 1>>, mtimes)
    /\ step # "idle" => /\ Below(failed, current) /\ Below(mtimes, current) /\ Below(current, Times)
                        /\ mtimes # current
    /\ configTold + 2 <= (IF failed = NoTimes THEN Sum(mtimes) ELSE Sum(failed))

ConfigInv == ConfigTypes /\ HeldOk /\ ToldOk

LEMMA ConfigStarts == ConfigInit => ConfigInv
<1> SUFFICES ASSUME ConfigInit PROVE ConfigInv  OBVIOUS
<1> USE DEF ConfigInit
<1>1. ConfigTypes  BY DEF ConfigTypes, Pair, NoTimes
<1>2. HeldOk  BY DEF HeldOk, Whole, GoodAgents, GoodChannels
<1>3. ToldOk  BY DEF ToldOk, Below, Sum, Times, NoTimes
<1> QED  BY <1>1, <1>2, <1>3 DEF ConfigInv

LEMMA ConfigHeld == ASSUME ConfigTypes, HeldOk, [ConfigNext]_ConfigVars PROVE HeldOk' /\ ConfigTypes'
<1> USE DEF ConfigTypes
<1>1. ASSUME NEW f \in {"agents", "channels"}, NEW ok \in BOOLEAN, Writes(f, ok) PROVE HeldOk' /\ ConfigTypes'
  <2>1. ConfigTypes'  BY <1>1 DEF Writes
  <2>2. \A v \in Nat : (GoodAgents(v) => GoodAgents(v)') /\ (GoodChannels(v) => GoodChannels(v)')
      BY <1>1 DEF Writes, GoodAgents, GoodChannels
  <2>3. UNCHANGED <<held, saved, step, read>>  BY <1>1 DEF Writes
  <2>4. \A p \in Pair : p[1] \in Nat /\ p[2] \in Nat  BY DEF Pair
  <2>5. Whole(held) => Whole(held)'  BY <2>2, <2>3, <2>4 DEF Whole
  <2>6. Whole(saved) => Whole(saved)'  BY <2>2, <2>3, <2>4 DEF Whole
  <2>7. step \in {"channels", "times"} => (GoodChannels(held[2]) => GoodChannels(held[2])') /\ (GoodAgents(read) => GoodAgents(read)')
      BY <2>2, <2>3, <2>4
  <2> QED  BY <2>1, <2>3, <2>5, <2>6, <2>7 DEF HeldOk
<1>2. CASE ChecksConfig
  <2>1. /\ step = "idle" /\ step' = "agents" /\ saved' = held /\ current' = <<agents, channels>>
        /\ UNCHANGED <<agents, channels, bad, held, mtimes, failed, read, configTold>>
      BY <1>2 DEF ChecksConfig, Times
  <2>2. ConfigTypes'  BY <2>1
  <2>3. HeldOk'  BY <2>1 DEF HeldOk, Whole, GoodAgents, GoodChannels
  <2> QED  BY <2>2, <2>3
<1>3. CASE ReadAgents
  <2>1. /\ step = "agents" /\ step' = "channels" /\ held' = [held EXCEPT ![1] = read']
        /\ read' = IF Parses(agents) THEN agents ELSE 0
        /\ UNCHANGED <<agents, channels, bad, mtimes, failed, saved, current, configTold>>
      BY <1>3 DEF ReadAgents
  <2>2. read' \in Nat /\ held' \in Pair /\ held'[1] = read' /\ held'[2] = held[2]  BY <2>1 DEF Pair
  <2>3. ConfigTypes'  BY <2>1, <2>2
  <2>4. HeldOk'  BY <2>1, <2>2 DEF HeldOk, Whole, GoodAgents, GoodChannels, Parses
  <2> QED  BY <2>3, <2>4
<1>4. CASE ReadChannels
  <2>1. CASE <<"channels", channels>> \in bad
    <3>1. /\ step = "channels" /\ step' = "idle" /\ held' = saved /\ failed' = current
          /\ configTold' = (IF News THEN configTold + 1 ELSE configTold)
          /\ UNCHANGED <<agents, channels, bad, mtimes, read, saved, current>>
        BY <1>4, <2>1 DEF ReadChannels, Fails, Restored
    <3>2. ConfigTypes'  BY <3>1
    <3>3. HeldOk'  BY <3>1 DEF HeldOk, Whole, GoodAgents, GoodChannels
    <3> QED  BY <3>2, <3>3
  <2>2. CASE <<"channels", channels>> \notin bad
    <3>1. /\ step = "channels" /\ step' = "times" /\ held' = [held EXCEPT ![2] = channels]
          /\ UNCHANGED <<agents, channels, bad, mtimes, read, saved, current, configTold, failed>>
        BY <1>4, <2>2 DEF ReadChannels
    <3>2. held' \in Pair /\ held'[2] = channels /\ held'[1] = held[1]  BY <3>1 DEF Pair
    <3>3. ConfigTypes'  BY <3>1, <3>2
    <3>4. HeldOk'  BY <2>2, <3>1, <3>2 DEF HeldOk, Whole, GoodAgents, GoodChannels
    <3> QED  BY <3>3, <3>4
  <2> QED  BY <2>1, <2>2
<1>5. CASE TakeTimes
  <2>1. /\ step = "times" /\ step' = "idle" /\ mtimes' = <<agents, channels>>
        /\ held' = (IF read = 0 THEN saved ELSE held)
        /\ failed' = (IF read = 0 THEN current ELSE NoTimes)
        /\ configTold' \in {configTold, configTold + 1}
        /\ UNCHANGED <<agents, channels, bad, read, saved, current>>
      BY <1>5 DEF TakeTimes, Fails, Restored, Times
  <2>2. ConfigTypes'  BY <2>1 DEF NoTimes
  <2>3. HeldOk'  BY <2>1 DEF HeldOk, Whole, GoodAgents, GoodChannels
  <2> QED  BY <2>2, <2>3
<1>6. CASE UNCHANGED ConfigVars
  <2>1. UNCHANGED <<agents, channels, bad, held, mtimes, failed, step, read, saved, current, configTold>>
      BY <1>6 DEF ConfigVars
  <2>2. ConfigTypes'  BY <2>1
  <2>3. HeldOk'  BY <2>1 DEF HeldOk, Whole, GoodAgents, GoodChannels
  <2> QED  BY <2>2, <2>3
<1> QED  BY <1>1, <1>2, <1>3, <1>4, <1>5, <1>6 DEF ConfigNext, Reloads

LEMMA LaterSum ==
  ASSUME NEW s \in Nat \X Nat, NEW t \in Nat \X Nat, Below(s, t), s # t PROVE Sum(s) + 1 <= Sum(t)
<1>1. s = <<s[1], s[2]>> /\ t = <<t[1], t[2]>> /\ s[1] \in Nat /\ s[2] \in Nat /\ t[1] \in Nat /\ t[2] \in Nat
    OBVIOUS
<1>2. s[1] # t[1] \/ s[2] # t[2]  BY <1>1
<1> QED  BY <1>1, <1>2 DEF Below, Sum

LEMMA ConfigTolds == ASSUME ConfigTypes, ToldOk, [ConfigNext]_ConfigVars PROVE ToldOk'
<1> USE DEF ConfigTypes
<1>t. /\ Times = <<agents, channels>> /\ Times' = <<agents', channels'>>
      /\ mtimes = <<mtimes[1], mtimes[2]>> /\ failed = <<failed[1], failed[2]>> /\ current = <<current[1], current[2]>>
      /\ {mtimes[1], mtimes[2], failed[1], failed[2], current[1], current[2]} \subseteq Nat
    BY DEF Times
<1>1. ASSUME NEW f \in {"agents", "channels"}, NEW ok \in BOOLEAN, Writes(f, ok) PROVE ToldOk'
  <2>1. /\ agents' \in {agents, agents + 1} /\ channels' \in {channels, channels + 1}
        /\ UNCHANGED <<mtimes, failed, step, current, configTold>>
      BY <1>1 DEF Writes
  <2> QED  BY <1>t, <2>1 DEF ToldOk, Below, Sum
<1>2. CASE ChecksConfig
  <2>1. /\ step = "idle" /\ Times # mtimes /\ current' = Times /\ step' = "agents"
        /\ UNCHANGED <<agents, channels, mtimes, failed, configTold>>
      BY <1>2 DEF ChecksConfig, Changed
  <2> QED  BY <1>t, <2>1 DEF ToldOk, Below, Sum
<1>3. CASE ReadAgents
  <2>1. step # "idle" /\ UNCHANGED <<agents, channels, mtimes, failed, current, configTold>>
      BY <1>3 DEF ReadAgents
  <2> QED  BY <1>t, <2>1 DEF ToldOk, Below, Sum
\* The counts after a failure at the versions of the load.
<1>f. ASSUME step # "idle", configTold' = (IF News THEN configTold + 1 ELSE configTold)
      PROVE configTold' + 2 <= Sum(current) /\ current # NoTimes
  <2>1. current # NoTimes  BY <1>t, <1>f DEF ToldOk, Below, NoTimes
  <2>2. CASE failed = current  BY <1>f, <2>1, <2>2 DEF ToldOk, News
  <2>3. CASE failed # current
    <3>1. Sum(failed) + 1 <= Sum(current) /\ Sum(mtimes) + 1 <= Sum(current)
        BY <1>f, <2>3, LaterSum DEF ToldOk
    <3>2. Sum(failed) \in Nat /\ Sum(mtimes) \in Nat /\ Sum(current) \in Nat  BY <1>t DEF Sum
    <3>3. configTold' = configTold + 1  BY <1>f, <2>3 DEF News
    <3> QED  BY <2>1, <3>1, <3>2, <3>3 DEF ToldOk
  <2> QED  BY <2>2, <2>3
<1>4. CASE ReadChannels
  <2>1. CASE <<"channels", channels>> \in bad
    <3>1. /\ step = "channels" /\ step' = "idle" /\ failed' = current
          /\ configTold' = (IF News THEN configTold + 1 ELSE configTold)
          /\ UNCHANGED <<agents, channels, mtimes, current>>
        BY <1>4, <2>1 DEF ReadChannels, Fails
    <3>2. configTold' + 2 <= Sum(current) /\ current # NoTimes  BY <1>f, <3>1
    <3> QED  BY <1>t, <3>1, <3>2 DEF ToldOk, Below, Sum
  <2>2. CASE <<"channels", channels>> \notin bad
    <3>1. step # "idle" /\ UNCHANGED <<agents, channels, mtimes, current, configTold, failed>>
        BY <1>4, <2>2 DEF ReadChannels
    <3> QED  BY <1>t, <3>1 DEF ToldOk, Below, Sum
  <2> QED  BY <2>1, <2>2
<1>5. CASE TakeTimes
  <2>1. step # "idle" /\ step' = "idle" /\ mtimes' = Times /\ UNCHANGED <<agents, channels, current>>
      BY <1>5 DEF TakeTimes, Fails
  <2>2. CASE read = 0
    <3>1. failed' = current /\ configTold' = (IF News THEN configTold + 1 ELSE configTold)
        BY <1>5, <2>2 DEF TakeTimes, Fails
    <3>2. configTold' + 2 <= Sum(current) /\ current # NoTimes  BY <1>f, <2>1, <3>1
    <3> QED  BY <1>t, <2>1, <3>1, <3>2 DEF ToldOk, Below, Sum
  <2>3. CASE read # 0
    <3>1. failed' = NoTimes /\ configTold' = configTold  BY <1>5, <2>3 DEF TakeTimes
    <3>2. failed'[1] = 0 /\ failed'[2] = 0  BY <3>1 DEF NoTimes
    <3> QED  BY <1>t, <2>1, <3>1, <3>2 DEF ToldOk, Below, Sum
  <2> QED  BY <2>2, <2>3
<1>6. CASE UNCHANGED ConfigVars
  <2>1. UNCHANGED <<agents, channels, mtimes, failed, step, current, configTold>>  BY <1>6 DEF ConfigVars
  <2> QED  BY <1>t, <2>1 DEF ToldOk, Below, Sum
<1> QED  BY <1>1, <1>2, <1>3, <1>4, <1>5, <1>6 DEF ConfigNext, Reloads

LEMMA ConfigSteps == ConfigInv /\ [ConfigNext]_ConfigVars => ConfigInv'
BY ConfigHeld, ConfigTolds DEF ConfigInv

LEMMA ConfigSafe == ConfigInv => HeldIsWhole /\ LoggedOnce
<1> SUFFICES ASSUME ConfigInv PROVE HeldIsWhole /\ LoggedOnce  OBVIOUS
<1>1. HeldIsWhole  BY DEF ConfigInv, HeldOk, Whole, GoodAgents, GoodChannels, HeldIsWhole
<1>2. LoggedOnce
  <2>1. /\ configTold \in Nat /\ agents \in Nat /\ channels \in Nat
        /\ failed[1] \in Nat /\ failed[2] \in Nat /\ mtimes[1] \in Nat /\ mtimes[2] \in Nat
      BY DEF ConfigInv, ConfigTypes
  <2> QED  BY <2>1 DEF ConfigInv, ToldOk, Below, Sum, Times, LoggedOnce
<1> QED  BY <1>1, <1>2

-----------------------------------------------------------------------------
(* Watch *)

AlertSet == [kind : {"outage", "recovery", "dead"}, of : Nat]

WatchTypes ==
    /\ linked \in BOOLEAN /\ overdue \in BOOLEAN /\ downSince \in BOOLEAN /\ alerted \in BOOLEAN
    /\ outages \in Nat /\ dead \in Nat /\ alertedDead \in Nat
    /\ pending \in Seq(AlertSet) /\ walk \in Seq(AlertSet) /\ posted \in Seq(AlertSet)

\* An alert other than one about dead letters stands once in a queue.
Sole(s) == \A i, j \in 1 .. Len(s) : s[i] = s[j] /\ s[i].kind # "dead" => i = j
Within(a, s) == \E i \in 1 .. Len(s) : s[i] = a

\* An alert of the present episode tells what happened in it.
Told(a) ==
    /\ a.of <= outages
    /\ a.kind = "recovery" /\ a.of = outages => linked
    /\ a.kind = "outage" /\ a.of = outages => linked \/ alerted

WatchInv ==
    /\ WatchTypes
    /\ downSince <=> ~linked
    /\ Sole(pending) /\ Sole(walk) /\ Sole(posted)
    /\ \A a \in AlertSet : a.kind # "dead" =>
         /\ Within(a, pending) => Told(a) /\ ~Within(a, posted)
         /\ Within(a, posted) => Told(a)
         /\ Within(a, walk) => Within(a, pending)

LEMMA WatchStarts == ASSUME WatchAssumption PROVE WatchInit => WatchInv
<1> SUFFICES ASSUME WatchInit PROVE WatchInv  OBVIOUS
<1>1. pending = <<>> /\ walk = <<>> /\ posted = <<>>  BY DEF WatchInit
<1>2. pending \in Seq(AlertSet) /\ walk \in Seq(AlertSet) /\ posted \in Seq(AlertSet)  BY <1>1
<1>3. linked \in BOOLEAN /\ overdue \in BOOLEAN /\ downSince \in BOOLEAN /\ alerted \in BOOLEAN
    BY Zenon DEF WatchInit
<1>4. outages \in Nat /\ dead \in Nat /\ alertedDead \in Nat  BY DEF WatchInit
<1>5. Sole(pending) /\ Sole(walk) /\ Sole(posted)  BY <1>1 DEF Sole
<1>6. \A a : ~Within(a, pending) /\ ~Within(a, posted) /\ ~Within(a, walk)  BY <1>1 DEF Within
<1>7. downSince <=> ~linked  BY Zenon DEF WatchInit
<1> QED  BY <1>2, <1>3, <1>4, <1>5, <1>6, <1>7 DEF WatchInv, WatchTypes

\* One more at the end of a queue.
LEMMA OneMore ==
  ASSUME NEW s \in Seq(AlertSet), NEW a \in AlertSet
  PROVE  /\ Append(s, a) \in Seq(AlertSet)
         /\ \A b : Within(b, Append(s, a)) <=> Within(b, s) \/ b = a
         /\ Sole(s) /\ (a.kind # "dead" => ~Within(a, s)) => Sole(Append(s, a))
<1> DEFINE q == Append(s, a)
<1>1. /\ q \in Seq(AlertSet) /\ Len(s) \in Nat /\ Len(q) = Len(s) + 1 /\ q[Len(s) + 1] = a
      /\ \A i \in 1 .. Len(s) : q[i] = s[i]
    OBVIOUS
<1> HIDE DEF q
<1>2. ASSUME NEW b PROVE Within(b, q) <=> Within(b, s) \/ b = a
  <2>1. \A i \in 1 .. Len(q) : i \in 1 .. Len(s) \/ i = Len(s) + 1  BY <1>1
  <2>2. \A i \in 1 .. Len(s) : i \in 1 .. Len(q)  BY <1>1
  <2>3. Len(s) + 1 \in 1 .. Len(q)  BY <1>1
  <2> QED  BY <1>1, <2>1, <2>2, <2>3 DEF Within
<1>3. ASSUME Sole(s), a.kind # "dead" => ~Within(a, s) PROVE Sole(q)
  <2> SUFFICES ASSUME NEW i \in 1 .. Len(q), NEW j \in 1 .. Len(q), q[i] = q[j], q[i].kind # "dead"
               PROVE i = j
      BY DEF Sole
  <2>1. CASE i \in 1 .. Len(s) /\ j \in 1 .. Len(s)  BY <1>1, <1>3, <2>1 DEF Sole
  <2>2. CASE i \in 1 .. Len(s) /\ j = Len(s) + 1  BY <1>1, <1>3, <2>2 DEF Within
  <2>3. CASE j \in 1 .. Len(s) /\ i = Len(s) + 1  BY <1>1, <1>3, <2>3 DEF Within
  <2>4. CASE i = Len(s) + 1 /\ j = Len(s) + 1  BY <2>4
  <2>5. /\ i \in 1 .. Len(s) \/ i = Len(s) + 1
        /\ j \in 1 .. Len(s) \/ j = Len(s) + 1
      BY <1>1
  <2> QED  BY <2>1, <2>2, <2>3, <2>4, <2>5
<1>4. Sole(s) /\ (a.kind # "dead" => ~Within(a, s)) => Sole(q)  BY <1>3
<1> QED  BY <1>1, <1>2, <1>4 DEF q

\* What delivered leaves.
LEMMA WithoutIs ==
  ASSUME NEW s \in Seq(AlertSet), NEW a \in AlertSet, Sole(s)
  PROVE  /\ Without(s, a) \in Seq(AlertSet) /\ Sole(Without(s, a))
         /\ \A b : Within(b, Without(s, a)) => Within(b, s)
         /\ \A b : b # a /\ Within(b, s) => Within(b, Without(s, a))
         /\ a.kind # "dead" => ~Within(a, Without(s, a))
<1>1. CASE ~Within(a, s)
  <2>1. Without(s, a) = s  BY <1>1 DEF Without, Within
  <2> QED  BY <1>1, <2>1
<1>2. CASE Within(a, s)
  <2> DEFINE I == {i \in 1 .. Len(s) : s[i] = a}
  <2>0. Len(s) \in Nat  OBVIOUS
  <2>1. I \in SUBSET Nat /\ I # {}  BY <1>2, <2>0 DEF Within
  <2>2. PICK x \in I : \A y \in I : x <= y  BY <2>1, LeastOne
  <2> DEFINE First(j) == s[j] = a /\ \A k \in 1 .. (j - 1) : s[k] # a
             m == CHOOSE j \in 1 .. Len(s) : First(j)
  <2>3. First(x)  BY <2>0, <2>2
  <2>4. m \in 1 .. Len(s) /\ s[m] = a
    <3>1. x \in 1 .. Len(s)  BY <2>2
    <3> HIDE DEF First
    <3>2. m \in 1 .. Len(s) /\ First(m)  BY <2>3, <3>1
    <3> QED  BY <3>2 DEF First
  <2> DEFINE l == SubSeq(s, 1, m - 1)
             r == SubSeq(s, m + 1, Len(s))
             w == Without(s, a)
  <2>5. w = l \o r  BY <1>2 DEF Without, Within
  <2> HIDE DEF m, I, w
  <2>6. /\ l \in Seq(AlertSet) /\ Len(l) = m - 1 /\ \A i \in 1 .. (m - 1) : l[i] = s[i]
      BY <2>0, <2>4
  <2>7. /\ r \in Seq(AlertSet) /\ Len(r) = Len(s) - m /\ \A i \in 1 .. (Len(s) - m) : r[i] = s[m + i]
      BY <2>0, <2>4
  <2> HIDE DEF l, r
  <2>8. /\ w \in Seq(AlertSet) /\ Len(w) = Len(s) - 1
        /\ \A i \in 1 .. (Len(s) - 1) : w[i] = IF i < m THEN s[i] ELSE s[i + 1]
    <3>0. \A u, v \in Seq(AlertSet) : u \o v \in Seq(AlertSet) /\ Len(u \o v) = Len(u) + Len(v)  OBVIOUS
    <3>1. w \in Seq(AlertSet) /\ Len(w) = Len(l) + Len(r)  BY <2>5, <2>6, <2>7, <3>0
    <3>2. Len(w) = Len(s) - 1  BY <2>0, <2>4, <2>6, <2>7, <3>1
    <3>3. ASSUME NEW i \in 1 .. (Len(s) - 1) PROVE w[i] = IF i < m THEN s[i] ELSE s[i + 1]
      <4>1. CASE i < m
        <5>1. i \in 1 .. (m - 1)  BY <2>4, <4>1
        <5>2. w[i] = l[i]  BY <2>5, <2>6, <2>7, <5>1
        <5> QED  BY <2>6, <4>1, <5>1, <5>2
      <4>2. CASE ~(i < m)
        <5>1. i - (m - 1) \in 1 .. (Len(s) - m) /\ m + (i - (m - 1)) = i + 1  BY <2>0, <2>4, <4>2
        <5>2. w[i] = r[i - (m - 1)]  BY <2>4, <2>5, <2>6, <2>7, <4>2, <5>1
        <5> QED  BY <2>7, <4>2, <5>1, <5>2
      <4> QED  BY <4>1, <4>2
    <3> QED  BY <3>1, <3>2, <3>3
  <2> DEFINE f(i) == IF i < m THEN i ELSE i + 1
  <2>9. ASSUME NEW i \in 1 .. Len(w) PROVE f(i) \in 1 .. Len(s) /\ f(i) # m /\ w[i] = s[f(i)]
      BY <2>0, <2>4, <2>8
  <2>10. ASSUME NEW i \in 1 .. Len(w), NEW j \in 1 .. Len(w), f(i) = f(j) PROVE i = j
      BY <2>0, <2>4, <2>8, <2>10
  <2>11. Sole(w)
    <3> SUFFICES ASSUME NEW i \in 1 .. Len(w), NEW j \in 1 .. Len(w), w[i] = w[j], w[i].kind # "dead"
                 PROVE i = j
        BY DEF Sole
    <3> HIDE DEF f
    <3>1. f(i) \in 1 .. Len(s) /\ f(j) \in 1 .. Len(s) /\ s[f(i)] = s[f(j)] /\ s[f(i)].kind # "dead"  BY <2>9
    <3>2. f(i) = f(j)  BY <3>1 DEF Sole
    <3> QED  BY <2>10, <3>2
  <2>12. \A b : Within(b, w) => Within(b, s)
    <3> HIDE DEF f
    <3> QED  BY <2>9 DEF Within
  <2>13. ASSUME NEW b, b # a, Within(b, s) PROVE Within(b, w)
    <3>1. PICK i \in 1 .. Len(s) : s[i] = b  BY <2>13 DEF Within
    <3>2. i # m  BY <2>4, <2>13, <3>1
    <3>3. CASE i < m
      <4>1. i \in 1 .. Len(w)  BY <2>0, <2>4, <2>8, <3>3
      <4>2. w[i] = b  BY <2>8, <3>1, <3>3, <4>1
      <4> QED  BY <4>1, <4>2 DEF Within
    <3>4. CASE i > m
      <4>1. i - 1 \in 1 .. Len(w) /\ ~(i - 1 < m) /\ (i - 1) + 1 = i  BY <2>0, <2>4, <2>8, <3>4
      <4>2. w[i - 1] = b  BY <2>8, <3>1, <4>1
      <4> QED  BY <4>1, <4>2 DEF Within
    <3> QED  BY <2>4, <3>2, <3>3, <3>4
  <2>14. ASSUME a.kind # "dead", Within(a, w) PROVE FALSE
    <3> HIDE DEF f
    <3>1. PICK i \in 1 .. Len(w) : w[i] = a  BY <2>14 DEF Within
    <3>2. f(i) \in 1 .. Len(s) /\ f(i) # m /\ s[f(i)] = a  BY <2>9, <3>1
    <3> QED  BY <2>4, <2>14, <3>2 DEF Sole
  <2> QED  BY <2>8, <2>11, <2>12, <2>13, <2>14 DEF w
<1> QED  BY <1>1, <1>2

\* The rest of the walk.
LEMMA RestIs ==
  ASSUME NEW s \in Seq(AlertSet), s # <<>>, Sole(s)
  PROVE  /\ Tail(s) \in Seq(AlertSet) /\ Head(s) \in AlertSet /\ Sole(Tail(s))
         /\ Within(Head(s), s)
         /\ \A b : Within(b, Tail(s)) => Within(b, s)
         /\ Head(s).kind # "dead" => ~Within(Head(s), Tail(s))
<1> DEFINE q == Tail(s)
           h == Head(s)
<1>1. /\ Len(s) \in Nat /\ Len(s) > 0 /\ h = s[1] /\ h \in AlertSet /\ q \in Seq(AlertSet)
      /\ Len(q) = Len(s) - 1 /\ \A i \in 1 .. Len(q) : q[i] = s[i + 1]
    OBVIOUS
<1> HIDE DEF q, h
<1>2. \A i \in 1 .. Len(q) : i + 1 \in 1 .. Len(s) /\ i + 1 # 1  BY <1>1
<1>3. 1 \in 1 .. Len(s)  BY <1>1
<1>4. Sole(q)
  <2> SUFFICES ASSUME NEW i \in 1 .. Len(q), NEW j \in 1 .. Len(q), q[i] = q[j], q[i].kind # "dead"
               PROVE i = j
      BY DEF Sole
  <2>1. i + 1 = j + 1  BY <1>1, <1>2 DEF Sole
  <2> QED  BY <1>1, <2>1
<1>5. Within(h, s)  BY <1>1, <1>3 DEF Within
<1>6. \A b : Within(b, q) => Within(b, s)  BY <1>1, <1>2 DEF Within
<1>7. ASSUME h.kind # "dead", Within(h, q) PROVE FALSE
  <2>1. PICK i \in 1 .. Len(q) : q[i] = h  BY <1>7 DEF Within
  <2>2. s[i + 1] = s[1]  BY <1>1, <2>1
  <2> QED  BY <1>1, <1>2, <1>3, <1>7, <2>2 DEF Sole
<1> QED  BY <1>1, <1>4, <1>5, <1>6, <1>7 DEF q, h

LEMMA WatchSteps == ASSUME WatchInv, [WatchNext]_WatchVars PROVE WatchInv'
<1>t. WatchTypes  BY DEF WatchInv
<1> DEFINE Live == {a \in AlertSet : a.kind # "dead"}
<1>a. \A n \in Nat, k \in {"outage", "recovery", "dead"} :
        Alert(k, n) \in AlertSet /\ Alert(k, n).kind = k /\ Alert(k, n).of = n
    BY DEF Alert, AlertSet
<1>n. \A a \in AlertSet : a.of \in Nat  BY DEF AlertSet
<1>1. CASE LinkLost
  <2>1. /\ linked /\ linked' = FALSE /\ outages' = outages + 1 /\ overdue' = FALSE /\ downSince' = TRUE
        /\ UNCHANGED <<dead, alerted, alertedDead, pending, walk, posted>>
      BY <1>1 DEF LinkLost
  <2>2. WatchTypes'
    <3>1. linked' \in BOOLEAN /\ overdue' \in BOOLEAN /\ downSince' \in BOOLEAN  BY <2>1, Zenon
    <3> QED  BY <1>t, <2>1, <3>1 DEF WatchTypes
  <2>3. \A a \in AlertSet : Told(a) => Told(a)'
      BY <1>n, <1>t, <2>1 DEF Told, WatchTypes
  <2>4. (downSince <=> ~linked)'  BY <2>1
  <2>5. (Sole(pending) /\ Sole(walk) /\ Sole(posted))'  BY <2>1 DEF WatchInv
  <2>6. \A a : /\ Within(a, pending)' <=> Within(a, pending)
               /\ Within(a, posted)' <=> Within(a, posted)
               /\ Within(a, walk)' <=> Within(a, walk)
      BY <2>1
  <2> QED  BY <2>2, <2>3, <2>4, <2>5, <2>6 DEF WatchInv
<1>2. CASE LinkBack
  <2> DEFINE a == Alert("recovery", outages)
  <2>1. /\ ~linked /\ linked' = TRUE /\ overdue' = FALSE /\ downSince' = FALSE /\ alerted' = FALSE
        /\ pending' = IF alerted THEN Append(pending, a) ELSE pending
        /\ UNCHANGED <<outages, dead, alertedDead, walk, posted>>
      BY <1>2 DEF LinkBack
  <2>2. a \in AlertSet /\ a.kind = "recovery" /\ a.of = outages  BY <1>a, <1>t DEF WatchTypes
  <2> HIDE DEF a
  <2>3. ~Told(a)  BY <2>1, <2>2 DEF Told
  <2>4. ~Within(a, pending) /\ ~Within(a, posted)  BY <2>2, <2>3 DEF WatchInv
  <2>5. /\ pending' \in Seq(AlertSet) /\ Sole(pending')
        /\ \A b : Within(b, pending) => Within(b, pending')
        /\ \A b : Within(b, pending') => Within(b, pending) \/ b = a
    <3>1. pending \in Seq(AlertSet) /\ Sole(pending)  BY DEF WatchInv, WatchTypes
    <3>2. CASE alerted
      <4>1. pending' = Append(pending, a)  BY <2>1, <3>2
      <4> QED  BY <2>2, <2>4, <3>1, <4>1, OneMore
    <3>3. CASE ~alerted
      <4>1. pending' = pending  BY <2>1, <3>3
      <4> QED  BY <3>1, <4>1
    <3> QED  BY <3>2, <3>3
  <2>l. linked' /\ outages' = outages  BY <2>1
  <2>6. \A b \in AlertSet : Told(b) => Told(b)'  BY <2>l DEF Told
  <2>7. \A b : b = a => Told(b)'  BY <1>t, <2>l, <2>2 DEF Told, WatchTypes
  <2>8. WatchTypes'
    <3>1. linked' \in BOOLEAN /\ overdue' \in BOOLEAN /\ downSince' \in BOOLEAN /\ alerted' \in BOOLEAN
        BY <2>1, Zenon
    <3> QED  BY <1>t, <2>1, <2>5, <3>1 DEF WatchTypes
  <2>9. (downSince <=> ~linked)'  BY <2>1
  <2>10. (Sole(pending) /\ Sole(walk) /\ Sole(posted))'  BY <2>1, <2>5 DEF WatchInv
  <2>11. \A b : /\ Within(b, posted)' <=> Within(b, posted)
                /\ Within(b, walk)' <=> Within(b, walk)
                /\ Within(b, pending)' <=> Within(b, pending')
      BY <2>1 DEF Within
  <2>12. ASSUME NEW b \in AlertSet, b.kind # "dead"
         PROVE /\ Within(b, pending)' => Told(b)' /\ ~Within(b, posted)'
               /\ Within(b, posted)' => Told(b)'
               /\ Within(b, walk)' => Within(b, pending)'
    <3>1. /\ Within(b, pending) => Told(b) /\ ~Within(b, posted)
          /\ Within(b, posted) => Told(b)
          /\ Within(b, walk) => Within(b, pending)
        BY <2>12 DEF WatchInv
    <3>2. Told(b) => Told(b)'  BY <2>6
    <3> QED  BY <2>4, <2>5, <2>7, <2>11, <3>1, <3>2
  <2> QED  BY <2>8, <2>9, <2>10, <2>12 DEF WatchInv
<1>3. CASE OutageLasts \/ PostDies \/ OperatorRetries
  <2>1. /\ overdue' \in BOOLEAN /\ dead' \in Nat
        /\ UNCHANGED <<linked, outages, downSince, alerted, alertedDead, pending, walk, posted>>
    <3>1. CASE OutageLasts
      <4>1. overdue' \in BOOLEAN  BY <3>1, Zenon DEF OutageLasts
      <4> QED  BY <1>t, <3>1, <4>1 DEF OutageLasts, WatchTypes, alerts
    <3>2. CASE PostDies  BY <1>t, <3>2 DEF PostDies, WatchTypes, alerts
    <3>3. CASE OperatorRetries  BY <1>t, <3>3 DEF OperatorRetries, WatchTypes, alerts
    <3> QED  BY <1>3, <3>1, <3>2, <3>3
  <2>2. WatchTypes'  BY <1>t, <2>1 DEF WatchTypes
  <2>3. \A a : Told(a)' <=> Told(a)  BY <2>1 DEF Told
  <2>6. \A a : /\ Within(a, pending)' <=> Within(a, pending)
               /\ Within(a, posted)' <=> Within(a, posted)
               /\ Within(a, walk)' <=> Within(a, walk)
      BY <2>1
  <2>7. (downSince <=> ~linked)' /\ (Sole(pending) /\ Sole(walk) /\ Sole(posted))'  BY <2>1 DEF WatchInv
  <2> QED  BY <2>2, <2>3, <2>6, <2>7 DEF WatchInv
<1>4. CASE WatchTick
  <2> DEFINE o == Alert("outage", outages)
             d == Alert("dead", dead)
             due == downSince /\ ~alerted /\ overdue
             more == alertedDead # 0 /\ dead + 1 > alertedDead
             mid == IF due THEN Append(pending, o) ELSE pending
  <2>p. pending \in Seq(AlertSet) /\ Sole(pending)  BY DEF WatchInv, WatchTypes
  <2>a. /\ o \in AlertSet /\ o.kind = "outage" /\ o.of = outages /\ d \in AlertSet /\ d.kind = "dead"
      BY <1>a, <1>t DEF WatchTypes
  <2>1. /\ walk = <<>> /\ alertedDead' = dead + 1 /\ walk' = pending'
        /\ UNCHANGED <<linked, outages, overdue, dead, downSince, posted>>
      BY <1>4 DEF WatchTick
  <2>2. /\ pending' = pending \o (IF due THEN <<o>> ELSE <<>>) \o (IF more THEN <<d>> ELSE <<>>)
        /\ alerted' = IF (IF due THEN <<o>> ELSE <<>>) # <<>> THEN TRUE ELSE alerted
      BY <1>4 DEF WatchTick, AlertedOutage
  <2> HIDE DEF o, d
  <2>s. \A x : x \in AlertSet => \A s \in Seq(AlertSet) : s \o <<x>> = Append(s, x)  OBVIOUS
  <2>e. \A s \in Seq(AlertSet) : s \o <<>> = s  OBVIOUS
  <2>3. mid = pending \o (IF due THEN <<o>> ELSE <<>>) /\ mid \in Seq(AlertSet)
    <3>1. CASE due
      <4>1. pending \o <<o>> = Append(pending, o) /\ Append(pending, o) \in Seq(AlertSet)  BY <2>a, <2>p, <2>s
      <4> QED  BY <3>1, <4>1
    <3>2. CASE ~due
      <4>1. pending \o <<>> = pending  BY <2>p, <2>e
      <4> QED  BY <2>p, <3>2, <4>1
    <3> QED  BY <3>1, <3>2
  <2>4. pending' = IF more THEN Append(mid, d) ELSE mid
    <3>0. pending' = mid \o (IF more THEN <<d>> ELSE <<>>)  BY <2>2, <2>3
    <3> HIDE DEF mid, more
    <3>1. CASE more
      <4>1. mid \o <<d>> = Append(mid, d)  BY <2>a, <2>3, <2>s
      <4> QED  BY <3>0, <3>1, <4>1
    <3>2. CASE ~more
      <4>1. mid \o <<>> = mid  BY <2>3, <2>e
      <4> QED  BY <3>0, <3>2, <4>1
    <3> QED  BY <3>1, <3>2
  <2>5. alerted' <=> alerted \/ due
    <3>1. <<o>> # <<>>  OBVIOUS
    <3>2. CASE due
      <4>1. alerted' = TRUE  BY <2>2, <3>1, <3>2, Zenon
      <4> QED  BY <3>2, <4>1
    <3>3. CASE ~due
      <4>1. alerted' = alerted  BY <2>2, <3>3, Zenon
      <4> QED  BY <3>3, <4>1
    <3> QED  BY <3>2, <3>3
  <2>6. alerted' \in BOOLEAN
    <3>1. CASE due
      <4>1. alerted' = TRUE
        <5>1. <<o>> # <<>>  OBVIOUS
        <5> QED  BY <2>2, <3>1, <5>1, Zenon
      <4> QED  BY <4>1, Zenon
    <3>2. CASE ~due
      <4>1. alerted' = alerted  BY <2>2, <3>2, Zenon
      <4>2. alerted \in BOOLEAN  BY <1>t DEF WatchTypes
      <4> QED  BY <4>1, <4>2, Zenon
    <3> QED  BY <3>1, <3>2
  <2>7. /\ Sole(mid)
        /\ \A b : Within(b, mid) <=> Within(b, pending) \/ (due /\ b = o)
    <3>1. CASE due
      <4>1. ~Told(o)  BY <2>a, <3>1 DEF Told, WatchInv
      <4>2. ~Within(o, pending)  BY <2>a, <4>1 DEF WatchInv
      <4> QED  BY <2>a, <2>p, <3>1, <4>2, OneMore
    <3>2. CASE ~due  BY <2>p, <3>2
    <3> QED  BY <3>1, <3>2
  <2>8. /\ pending' \in Seq(AlertSet) /\ Sole(pending')
        /\ \A b : Within(b, pending') <=> Within(b, pending) \/ (due /\ b = o) \/ (more /\ b = d)
    <3> HIDE DEF mid, due, more
    <3>1. CASE more
      <4>1. pending' = Append(mid, d)  BY <2>4, <3>1
      <4>2. /\ Append(mid, d) \in Seq(AlertSet) /\ Sole(Append(mid, d))
            /\ \A b : Within(b, Append(mid, d)) <=> Within(b, mid) \/ b = d
          BY <2>3, <2>7, <2>a, OneMore
      <4> QED  BY <2>7, <3>1, <4>1, <4>2
    <3>2. CASE ~more
      <4>1. pending' = mid  BY <2>4, <3>2
      <4> QED  BY <2>3, <2>7, <3>2, <4>1
    <3> QED  BY <3>1, <3>2
  <2>l. (linked' <=> linked) /\ (alerted => alerted') /\ (due => alerted') /\ outages' = outages  BY <2>1, <2>5
  <2>9. \A b \in AlertSet : Told(b) => Told(b)'  BY <2>l DEF Told
  <2>10. /\ \A b : due /\ b = o => Told(b)'
         /\ due => ~Within(o, posted)
    <3> HIDE DEF due
    <3>1. \A b : due /\ b = o => Told(b)'  BY <1>t, <2>l, <2>a DEF Told, WatchTypes
    <3> USE DEF due
    <3>2. due => ~Told(o)  BY <2>a DEF Told, WatchInv
    <3> QED  BY <2>a, <3>1, <3>2 DEF WatchInv
  <2> HIDE DEF due, more, mid
  <2>11. WatchTypes'
    <3>1. dead + 1 \in Nat  BY <1>t DEF WatchTypes
    <3> QED  BY <1>t, <2>1, <2>6, <2>8, <3>1 DEF WatchTypes
  <2>12. (downSince <=> ~linked)' /\ (Sole(pending) /\ Sole(walk) /\ Sole(posted))'
      BY <2>1, <2>8 DEF WatchInv
  <2>13. \A b : /\ Within(b, posted)' <=> Within(b, posted)
                /\ Within(b, walk)' <=> Within(b, pending')
                /\ Within(b, pending)' <=> Within(b, pending')
      BY <2>1 DEF Within
  <2>14. ASSUME NEW b \in AlertSet, b.kind # "dead"
         PROVE /\ Within(b, pending)' => Told(b)' /\ ~Within(b, posted)'
               /\ Within(b, posted)' => Told(b)'
               /\ Within(b, walk)' => Within(b, pending)'
    <3>1. /\ Within(b, pending) => Told(b) /\ ~Within(b, posted)
          /\ Within(b, posted) => Told(b)
        BY <2>14 DEF WatchInv
    <3>2. b # d  BY <2>14, <2>a
    <3> QED  BY <2>8, <2>9, <2>10, <2>13, <3>1, <3>2
  <2> QED  BY <2>11, <2>12, <2>14 DEF WatchInv
<1>5. CASE WebhookTakes
  <2> DEFINE h == Head(walk)
  <2>1. /\ walk # <<>> /\ pending' = Without(pending, h) /\ posted' = Append(posted, h) /\ walk' = Tail(walk)
        /\ UNCHANGED <<linked, outages, overdue, dead, downSince, alerted, alertedDead>>
      BY <1>5 DEF WebhookTakes
  <2>2. /\ pending \in Seq(AlertSet) /\ walk \in Seq(AlertSet) /\ posted \in Seq(AlertSet)
        /\ Sole(pending) /\ Sole(walk) /\ Sole(posted)
      BY DEF WatchInv, WatchTypes
  <2>3. /\ walk' \in Seq(AlertSet) /\ h \in AlertSet /\ Sole(walk') /\ Within(h, walk)
        /\ \A b : Within(b, walk') => Within(b, walk)
        /\ h.kind # "dead" => ~Within(h, walk')
      BY <2>1, <2>2, RestIs
  <2> HIDE DEF h
  <2>4. /\ pending' \in Seq(AlertSet) /\ Sole(pending')
        /\ \A b : Within(b, pending') => Within(b, pending)
        /\ \A b : b # h /\ Within(b, pending) => Within(b, pending')
        /\ h.kind # "dead" => ~Within(h, pending')
      BY <2>1, <2>2, <2>3, WithoutIs
  <2>5. h.kind # "dead" => Within(h, pending) /\ Told(h) /\ ~Within(h, posted)
      BY <2>3 DEF WatchInv
  <2>6. /\ posted' \in Seq(AlertSet) /\ Sole(posted')
        /\ \A b : Within(b, posted') <=> Within(b, posted) \/ b = h
    <3>1. /\ Append(posted, h) \in Seq(AlertSet)
          /\ \A b : Within(b, Append(posted, h)) <=> Within(b, posted) \/ b = h
          /\ Sole(posted) /\ (h.kind # "dead" => ~Within(h, posted)) => Sole(Append(posted, h))
        BY <2>2, <2>3, OneMore
    <3> QED  BY <2>1, <2>2, <2>5, <3>1
  <2>7. WatchTypes'  BY <1>t, <2>1, <2>3, <2>4, <2>6 DEF WatchTypes
  <2>8. \A b : Told(b)' <=> Told(b)  BY <2>1 DEF Told
  <2>9. \A b : /\ Within(b, posted)' <=> Within(b, posted')
               /\ Within(b, walk)' <=> Within(b, walk')
               /\ Within(b, pending)' <=> Within(b, pending')
      BY DEF Within
  <2>10. ASSUME NEW b \in AlertSet, b.kind # "dead"
         PROVE /\ Within(b, pending)' => Told(b)' /\ ~Within(b, posted)'
               /\ Within(b, posted)' => Told(b)'
               /\ Within(b, walk)' => Within(b, pending)'
    <3>1. /\ Within(b, pending) => Told(b) /\ ~Within(b, posted)
          /\ Within(b, posted) => Told(b)
          /\ Within(b, walk) => Within(b, pending)
        BY <2>10 DEF WatchInv
    <3> QED  BY <2>3, <2>4, <2>5, <2>6, <2>8, <2>9, <2>10, <3>1
  <2>11. (downSince <=> ~linked)'  BY <2>1 DEF WatchInv
  <2>12. (Sole(pending) /\ Sole(walk) /\ Sole(posted))'  BY <2>3, <2>4, <2>6 DEF Sole
  <2> QED  BY <2>7, <2>10, <2>11, <2>12 DEF WatchInv
<1>6. CASE WebhookRefuses
  <2>1. /\ walk # <<>> /\ walk' = Tail(walk)
        /\ UNCHANGED <<linked, outages, overdue, dead, downSince, alerted, alertedDead, pending, posted>>
      BY <1>6 DEF WebhookRefuses
  <2>2. walk \in Seq(AlertSet) /\ Sole(walk)  BY DEF WatchInv, WatchTypes
  <2>3. /\ walk' \in Seq(AlertSet) /\ Sole(walk')
        /\ \A b : Within(b, walk') => Within(b, walk)
      BY <2>1, <2>2, RestIs
  <2>7. WatchTypes'  BY <1>t, <2>1, <2>3 DEF WatchTypes
  <2>8. \A b : Told(b)' <=> Told(b)  BY <2>1 DEF Told
  <2>9. \A b : /\ Within(b, posted)' <=> Within(b, posted)
               /\ Within(b, walk)' <=> Within(b, walk')
               /\ Within(b, pending)' <=> Within(b, pending)
      BY <2>1 DEF Within
  <2>11. (downSince <=> ~linked)'  BY <2>1 DEF WatchInv
  <2>12. (Sole(pending) /\ Sole(walk) /\ Sole(posted))'  BY <2>1, <2>3 DEF Sole, WatchInv
  <2> QED  BY <2>3, <2>7, <2>8, <2>9, <2>11, <2>12 DEF WatchInv
<1>7. CASE UNCHANGED WatchVars
  <2>1. UNCHANGED <<linked, outages, overdue, dead, downSince, alerted, alertedDead, pending, walk, posted>>
      BY <1>7 DEF WatchVars, alerts
  <2> QED  BY <2>1 DEF WatchInv, WatchTypes, Sole, Within, Told
<1> QED  BY <1>1, <1>2, <1>3, <1>4, <1>5, <1>6, <1>7 DEF WatchNext

LEMMA WatchSafe == WatchInv => OnceEach
BY DEF WatchInv, OnceEach, Sole

-----------------------------------------------------------------------------
(* Sends *)

\* The limited sends of this server's run: those whose slot is still in the limiter are
\* its last ones; the others are a whole window old.
Logged == [at : Nat, limit : Nat]
Off == Len(sendsSent) - Len(hits)

SendTypes ==
    /\ sendsNow \in Nat /\ sendsTold \in Nat
    /\ hits \in Seq(Nat) /\ sendsSent \in Seq(Logged)

InStep ==
    /\ Len(hits) <= Len(sendsSent)
    /\ \A i \in 1 .. Len(hits) : hits[i] = sendsSent[Off + i].at
    /\ \A i \in 1 .. Len(sendsSent) : sendsSent[i].at <= sendsNow
    /\ \A i \in 1 .. Len(sendsSent) : i <= Off => sendsSent[i].at + Window <= sendsNow
    /\ Len(hits) > 0 => Len(hits) <= sendsSent[Len(sendsSent)].limit

\* The slot an agent was told of is the oldest one it holds.
SlotOk ==
    sendsTold # 0 => \/ Len(hits) < PerHour
                     \/ UnderLarger
                     \/ Len(hits) > 0 /\ hits[1] + Window + 1 <= sendsTold

SendInv == SendTypes /\ InStep /\ SlotOk /\ WindowKept

LEMMA PerHourIs == ASSUME SendsAssumption PROVE PerHour \in Nat \ {0}
BY DEF PerHour, SendsAssumption

LEMMA TrimIs ==
  ASSUME SendsAssumption, sendsNow \in Nat, NEW q \in Seq(Nat)
  PROVE  /\ Trim(q) \in Seq(Nat)
         /\ \E k \in 0 .. Len(q) : /\ Len(Trim(q)) = Len(q) - k
                                   /\ \A i \in 1 .. (Len(q) - k) : Trim(q)[i] = q[k + i]
                                   /\ \A i \in 1 .. k : q[i] + Window <= sendsNow
                                   /\ k = Len(q) \/ q[k + 1] + Window > sendsNow
<1> DEFINE Y == {i \in 1 .. Len(q) : sendsNow - q[i] < Window}
<1>1. Trim(q) = IF Y = {} THEN <<>> ELSE SubSeq(q, Min(Y), Len(q))  BY DEF Trim
<1>2. Len(q) \in Nat /\ \A i \in 1 .. Len(q) : q[i] \in Nat  OBVIOUS
<1>3. Window \in Nat  BY DEF SendsAssumption
<1>4. \A i \in 1 .. Len(q) : i \notin Y => q[i] + Window <= sendsNow  BY <1>2, <1>3
<1>5. CASE Y = {}
  <2>1. Trim(q) = <<>> /\ Len(Trim(q)) = 0  BY <1>1, <1>5
  <2>2. \A i \in 1 .. Len(q) : q[i] + Window <= sendsNow  BY <1>4, <1>5
  <2>3. Len(q) \in 0 .. Len(q) /\ Len(q) - Len(q) = 0  BY <1>2
  <2>4. Trim(q) \in Seq(Nat)  BY <2>1
  <2> QED  BY <1>2, <2>1, <2>2, <2>3, <2>4
<1>6. CASE Y # {}
  <2>1. Y \in SUBSET Nat  BY <1>2
  <2>2. \E x \in Y : \A y \in Y : x <= y  BY <1>6, <2>1, LeastOne
  <2>3. Min(Y) \in Y /\ \A y \in Y : Min(Y) <= y
    <3> HIDE DEF Y
    <3> QED  BY <2>2 DEF Min
  <2> DEFINE m == Min(Y)
  <2>4. m \in 1 .. Len(q) /\ (\A y \in Y : m <= y) /\ sendsNow - q[m] < Window  BY <2>3
  <2>5. Trim(q) = SubSeq(q, m, Len(q))  BY <1>1, <1>6
  <2> HIDE DEF m
  <2>6. /\ Trim(q) \in Seq(Nat) /\ Len(Trim(q)) = Len(q) - m + 1
        /\ \A i \in 1 .. Len(q) - m + 1 : Trim(q)[i] = q[m + i - 1]
      BY <1>2, <2>4, <2>5
  <2>7. \A i \in 1 .. Len(q) : i < m => i \notin Y
    <3> HIDE DEF Y
    <3> QED  BY <1>2, <2>4
  <2> DEFINE k == m - 1
  <2>8. k \in 0 .. Len(q) /\ Len(Trim(q)) = Len(q) - k  BY <1>2, <2>4, <2>6
  <2>9. \A i \in 1 .. (Len(q) - k) : Trim(q)[i] = q[k + i]
    <3> SUFFICES ASSUME NEW i \in 1 .. (Len(q) - k) PROVE Trim(q)[i] = q[k + i]  OBVIOUS
    <3>1. i \in 1 .. Len(q) - m + 1 /\ k + i = m + i - 1  BY <1>2, <2>4
    <3> QED  BY <2>6, <3>1
  <2>10. \A i \in 1 .. k : q[i] + Window <= sendsNow
    <3> SUFFICES ASSUME NEW i \in 1 .. k PROVE q[i] + Window <= sendsNow  OBVIOUS
    <3>1. i \in 1 .. Len(q) /\ i < m  BY <1>2, <2>4
    <3> HIDE DEF Y
    <3> QED  BY <1>4, <2>7, <3>1
  <2>11. k + 1 = m /\ q[m] + Window > sendsNow  BY <1>2, <1>3, <2>4
  <2> HIDE DEF k
  <2> QED  BY <2>6, <2>8, <2>9, <2>10, <2>11
<1> QED  BY <1>5, <1>6

\* A set of consecutive numbers has as many as its ends tell.
LEMMA RunCount ==
  ASSUME NEW a \in Nat, NEW b \in Nat, a <= b, NEW T \in SUBSET ((a + 1) .. b)
  PROVE  Cardinality(T) \in Nat /\ Cardinality(T) <= b - a
<1>1. IsFiniteSet((a + 1) .. b) /\ Cardinality((a + 1) .. b) <= b - a /\ Cardinality((a + 1) .. b) \in Nat
  <2>1. a + 1 \in Int /\ b \in Int  OBVIOUS
  <2>2. IsFiniteSet((a + 1) .. b) /\ Cardinality((a + 1) .. b) = IF a + 1 > b THEN 0 ELSE b - (a + 1) + 1
      BY <2>1, FS_Interval
  <2> QED  BY <2>2
<1>2. IsFiniteSet(T) /\ Cardinality(T) <= Cardinality((a + 1) .. b)  BY <1>1, FS_Subset
<1>3. Cardinality(T) \in Nat  BY <1>2, FS_CardinalityType
<1> QED  BY <1>1, <1>2, <1>3

LEMMA SendStarts == ASSUME SendsAssumption PROVE SendInit => SendInv
<1> SUFFICES ASSUME SendInit PROVE SendInv  OBVIOUS
<1>1. hits = <<>> /\ sendsSent = <<>> /\ sendsTold = 0 /\ sendsNow = 1  BY DEF SendInit
<1>2. hits \in Seq(Nat) /\ sendsSent \in Seq(Logged) /\ Len(hits) = 0 /\ Len(sendsSent) = 0  BY <1>1
<1>3. SendTypes  BY <1>1, <1>2 DEF SendTypes
<1>4. InStep  BY <1>2 DEF InStep
<1>5. SlotOk  BY <1>1 DEF SlotOk
<1>6. WindowKept  BY <1>1 DEF WindowKept
<1> QED  BY <1>3, <1>4, <1>5, <1>6 DEF SendInv

\* A limited send that is taken.
LEMMA TakenStep ==
  ASSUME SendsAssumption, SendInv, Len(Trim(hits)) < PerHour, hits' = Append(Trim(hits), sendsNow),
         sendsSent' = Append(sendsSent, [at |-> sendsNow, limit |-> PerHour]), sendsTold' = 0,
         UNCHANGED <<sendsNow, config>>
  PROVE  SendInv'
<1> DEFINE q == Trim(hits)
           l == [at |-> sendsNow, limit |-> PerHour]
           n == Len(sendsSent)
<1>t. SendTypes /\ InStep /\ WindowKept  BY DEF SendInv
<1>p. PerHour \in Nat \ {0}  BY PerHourIs
<1>w. Window \in Nat \ {0} /\ sendsNow \in Nat  BY <1>t DEF SendsAssumption, SendTypes
<1>l. l \in Logged /\ l.at = sendsNow /\ l.limit = PerHour  BY <1>p, <1>w DEF Logged
<1>q. hits \in Seq(Nat) /\ sendsSent \in Seq(Logged) /\ Len(hits) \in Nat /\ n \in Nat
  <2>1. hits \in Seq(Nat) /\ sendsSent \in Seq(Logged)  BY <1>t DEF SendTypes
  <2> QED  BY <2>1
<1>a. \A i \in 1 .. n : sendsSent[i].at \in Nat
  <2>1. \A i \in 1 .. n : sendsSent[i] \in Logged  BY <1>q
  <2> QED  BY <2>1 DEF Logged
<1>1. /\ q \in Seq(Nat) /\ Len(q) \in Nat
      /\ \E k \in 0 .. Len(hits) : /\ Len(q) = Len(hits) - k
                                   /\ \A i \in 1 .. (Len(hits) - k) : q[i] = hits[k + i]
                                   /\ \A i \in 1 .. k : hits[i] + Window <= sendsNow
  <2>1. q \in Seq(Nat)  BY <1>q, <1>w, TrimIs
  <2>2. Len(q) \in Nat  BY <2>1
  <2> QED  BY <1>q, <1>w, <2>1, <2>2, TrimIs
<1>2. PICK k \in 0 .. Len(hits) : /\ Len(q) = Len(hits) - k
                                  /\ \A i \in 1 .. (Len(hits) - k) : q[i] = hits[k + i]
                                  /\ \A i \in 1 .. k : hits[i] + Window <= sendsNow
    BY <1>1
<1> HIDE DEF q, l
<1>3. /\ hits' \in Seq(Nat) /\ Len(hits') = Len(q) + 1 /\ hits'[Len(q) + 1] = sendsNow
      /\ \A i \in 1 .. Len(q) : hits'[i] = q[i]
  <2>1. hits' = Append(q, sendsNow)  BY DEF q
  <2> QED  BY <1>1, <1>w, <2>1
<1>4. /\ sendsSent' \in Seq(Logged) /\ Len(sendsSent') = n + 1 /\ sendsSent'[n + 1] = l
      /\ \A i \in 1 .. n : sendsSent'[i] = sendsSent[i]
  <2>1. sendsSent' = Append(sendsSent, l)  BY DEF l
  <2> QED  BY <1>l, <1>q, <2>1
<1>5. SendTypes'
  <2>1. sendsTold' \in Nat /\ sendsNow' \in Nat  BY <1>w
  <2> QED  BY <1>3, <1>4, <2>1 DEF SendTypes
<1>i. /\ Len(hits) <= n /\ Off = n - Len(hits)
      /\ \A i \in 1 .. Len(hits) : hits[i] = sendsSent[Off + i].at
      /\ \A i \in 1 .. n : sendsSent[i].at <= sendsNow
      /\ \A i \in 1 .. n : i <= Off => sendsSent[i].at + Window <= sendsNow
    BY <1>t DEF InStep, Off
<1> DEFINE o == n - Len(q)
<1>o. o \in Nat /\ o = n - Len(hits) + k /\ Off' = o /\ o <= n
  <2>a. Len(q) \in Nat  BY <1>1
  <2>b. k \in 0 .. Len(hits) /\ Len(q) = Len(hits) - k  BY <1>2
  <2>0. Len(q) \in Nat /\ Len(q) = Len(hits) - k /\ k \in Nat  BY <2>a, <2>b, <1>q
  <2>1. o \in Nat /\ o = n - Len(hits) + k /\ o <= n  BY <2>0, <1>i, <1>q
  <2>2. Off' = Len(sendsSent') - Len(hits')  BY DEF Off
  <2>c. Len(hits') = Len(q) + 1 /\ Len(sendsSent') = n + 1  BY <1>3, <1>4
  <2>3. Off' = o
    <3>1. \A x, y \in Nat : (x + 1) - (y + 1) = x - y  OBVIOUS
    <3>2. n \in Nat /\ Len(q) \in Nat  BY <1>q, <2>0
    <3> HIDE DEF n
    <3>3. (n + 1) - (Len(q) + 1) = n - Len(q)  BY <3>1, <3>2, Zenon
    <3>4. Off' = (n + 1) - (Len(q) + 1)  BY <2>2, <2>c, Zenon
    <3> QED  BY <3>3, <3>4, Zenon
  <2> QED  BY <2>1, <2>3
<1>6. \A i \in 1 .. n : i <= o => sendsSent[i].at + Window <= sendsNow
  <2> SUFFICES ASSUME NEW i \in 1 .. n, i <= o PROVE sendsSent[i].at + Window <= sendsNow  OBVIOUS
  <2>1. CASE i <= Off  BY <1>i, <2>1
  <2>2. CASE i > Off
    <3>1. i - Off \in 1 .. k /\ Off + (i - Off) = i /\ i - Off \in 1 .. Len(hits)
        BY <1>2, <1>i, <1>o, <1>q, <2>2
    <3>2. hits[i - Off] = sendsSent[i].at /\ hits[i - Off] + Window <= sendsNow  BY <1>2, <1>i, <3>1
    <3> QED  BY <3>2
  <2> QED  BY <1>i, <1>q, <2>1, <2>2
<1>7. InStep'
  <2>1. Len(hits') <= Len(sendsSent')  BY <1>1, <1>3, <1>4, <1>o, <1>q
  <2>2. ASSUME NEW i \in 1 .. Len(hits') PROVE hits'[i] = sendsSent'[o + i].at
    <3>1. CASE i = Len(q) + 1
      <4>1. o + i = n + 1  BY <1>1, <1>q, <3>1
      <4> QED  BY <1>3, <1>4, <1>l, <3>1, <4>1
    <3>2. CASE i # Len(q) + 1
      <4>1. i \in 1 .. Len(q) /\ k + i \in 1 .. Len(hits) /\ o + i \in 1 .. n /\ Off + (k + i) = o + i
            /\ i \in 1 .. (Len(hits) - k)
        <5>1. i \in Nat /\ 1 <= i /\ i <= Len(q)  BY <1>1, <1>3, <3>2
        <5>2. Len(q) = Len(hits) - k /\ k \in Nat /\ Off = n - Len(hits) /\ o = Off + k  BY <1>2, <1>i, <1>o, <1>q
        <5> QED  BY <1>i, <1>q, <5>1, <5>2
      <4>2. hits'[i] = hits[k + i]  BY <1>2, <1>3, <4>1
      <4>3. hits[k + i] = sendsSent[o + i].at  BY <1>i, <4>1
      <4> QED  BY <1>4, <4>1, <4>2, <4>3
    <3> QED  BY <3>1, <3>2
  <2>3. ASSUME NEW i \in 1 .. Len(sendsSent') PROVE sendsSent'[i].at <= sendsNow
    <3>1. CASE i = n + 1  BY <1>4, <1>l, <1>w, <3>1
    <3>2. CASE i # n + 1
      <4>1. i \in 1 .. n  BY <1>4, <1>q, <3>2
      <4> QED  BY <1>4, <1>i, <4>1
    <3> QED  BY <3>1, <3>2
  <2>4. ASSUME NEW i \in 1 .. Len(sendsSent'), i <= o PROVE sendsSent'[i].at + Window <= sendsNow
    <3>1. i \in 1 .. n  BY <1>4, <1>o, <1>q, <2>4
    <3> QED  BY <1>4, <1>6, <2>4, <3>1
  <2>5. Len(hits') <= sendsSent'[Len(sendsSent')].limit  BY <1>1, <1>3, <1>4, <1>l, <1>p DEF q
  <2> QED  BY <1>o, <2>1, <2>2, <2>3, <2>4, <2>5 DEF InStep
<1>8. WindowKept'
  <2> SUFFICES ASSUME NEW i \in 1 .. Len(sendsSent')
               PROVE Cardinality({j \in 1 .. i : sendsSent'[i].at - sendsSent'[j].at < Window}) <= sendsSent'[i].limit
    <3>1. DOMAIN sendsSent' = 1 .. Len(sendsSent')  BY <1>4
    <3> QED  BY <3>1 DEF WindowKept
  <2>1. CASE i = n + 1
    <3> DEFINE T == {j \in 1 .. i : sendsSent'[i].at - sendsSent'[j].at < Window}
    <3>1. T \subseteq (o + 1) .. (n + 1)
      <4> SUFFICES ASSUME NEW j \in 1 .. (n + 1), j <= o PROVE ~(sendsSent'[i].at - sendsSent'[j].at < Window)
        <5>1. \A j \in 1 .. (n + 1) : ~(j <= o) => j \in (o + 1) .. (n + 1)
          <6> HIDE DEF o, n
          <6> QED  BY <1>o, <1>q
        <5>2. \A j \in T : j \in 1 .. (n + 1) /\ sendsSent'[i].at - sendsSent'[j].at < Window  BY <2>1
        <5> QED  BY <5>1, <5>2
      <4>1. j \in 1 .. n /\ sendsSent'[j] = sendsSent[j]  BY <1>4, <1>o, <1>q
      <4>2. sendsSent[j].at + Window <= sendsNow /\ sendsSent[j].at \in Nat  BY <1>6, <1>a, <4>1
      <4> QED  BY <1>4, <1>l, <1>w, <2>1, <4>1, <4>2
    <3> HIDE DEF T
    <3>2. Cardinality(T) \in Nat /\ Cardinality(T) <= (n + 1) - o
      <4>1. n + 1 \in Nat /\ o \in Nat /\ o <= n + 1  BY <1>o, <1>q
      <4> HIDE DEF o, n
      <4> QED  BY <3>1, <4>1, RunCount
    <3>3. (n + 1) - o = Len(q) + 1  BY <1>1, <1>q
    <3>4. sendsSent'[i].limit = PerHour  BY <1>4, <1>l, <2>1
    <3>5. Cardinality(T) <= sendsSent'[i].limit  BY <1>1, <1>p, <3>2, <3>3, <3>4 DEF q
    <3> QED  BY <3>5 DEF T
  <2>2. CASE i # n + 1
    <3>1. i \in 1 .. n /\ \A j \in 1 .. i : sendsSent'[j] = sendsSent[j]  BY <1>4, <1>q, <2>2
    <3>2. {j \in 1 .. i : sendsSent'[i].at - sendsSent'[j].at < Window}
            = {j \in 1 .. i : sendsSent[i].at - sendsSent[j].at < Window}
        BY <1>4, <3>1
    <3>3. i \in DOMAIN sendsSent  BY <1>q, <3>1
    <3> QED  BY <1>4, <1>t, <3>1, <3>2, <3>3 DEF WindowKept
  <2> QED  BY <2>1, <2>2
<1>9. SlotOk'  BY DEF SlotOk
<1> QED  BY <1>5, <1>7, <1>8, <1>9 DEF SendInv

\* One that is refused, and told when to try again.
LEMMA RefusedStep ==
  ASSUME SendsAssumption, SendInv, Len(Trim(hits)) >= PerHour, hits' = Trim(hits),
         sendsTold' = IF sendsTold = 0 THEN Trim(hits)[1] + Window + 1 ELSE sendsTold,
         UNCHANGED <<sendsSent, sendsNow, config>>
  PROVE  SendInv'
<1> DEFINE q == Trim(hits)
           n == Len(sendsSent)
<1>t. SendTypes /\ InStep /\ SlotOk /\ WindowKept  BY DEF SendInv
<1>p. PerHour \in Nat \ {0} /\ PerHour' = PerHour
  <2>1. PerHour' = PerHour  BY DEF PerHour
  <2> QED  BY <2>1, PerHourIs
<1>w. Window \in Nat \ {0} /\ sendsNow \in Nat  BY <1>t DEF SendsAssumption, SendTypes
<1>q. hits \in Seq(Nat) /\ sendsSent \in Seq(Logged) /\ Len(hits) \in Nat /\ n \in Nat
  <2>1. hits \in Seq(Nat) /\ sendsSent \in Seq(Logged)  BY <1>t DEF SendTypes
  <2> QED  BY <2>1
<1>1. q \in Seq(Nat)  BY <1>q, <1>w, TrimIs
<1>2. PICK k \in 0 .. Len(hits) : /\ Len(q) = Len(hits) - k
                                  /\ \A i \in 1 .. (Len(hits) - k) : q[i] = hits[k + i]
                                  /\ \A i \in 1 .. k : hits[i] + Window <= sendsNow
    BY <1>q, <1>w, TrimIs
<1> HIDE DEF q
<1>h. hits' = q  BY DEF q
<1>3. Len(q) \in Nat /\ Len(q) >= PerHour /\ q[1] \in Nat /\ Len(q) > 0
  <2>1. Len(q) \in Nat /\ Len(q) >= PerHour  BY <1>1 DEF q
  <2>2. 1 \in 1 .. Len(q)  BY <1>p, <2>1
  <2> QED  BY <1>1, <1>p, <2>1, <2>2
<1>4. sendsTold' = IF sendsTold = 0 THEN q[1] + Window + 1 ELSE sendsTold  BY DEF q
<1>5. SendTypes'
  <2>1. sendsTold' \in Nat  BY <1>3, <1>4, <1>t, <1>w DEF SendTypes
  <2> QED  BY <1>1, <1>h, <1>t, <2>1 DEF SendTypes
<1>i. /\ Len(hits) <= n /\ Off = n - Len(hits)
      /\ \A i \in 1 .. Len(hits) : hits[i] = sendsSent[Off + i].at
      /\ \A i \in 1 .. n : sendsSent[i].at <= sendsNow
      /\ \A i \in 1 .. n : i <= Off => sendsSent[i].at + Window <= sendsNow
      /\ Len(hits) > 0 => Len(hits) <= sendsSent[n].limit
    BY <1>t DEF InStep, Off
<1> DEFINE o == n - Len(q)
<1>o. o \in Nat /\ o = n - Len(hits) + k /\ Off' = o /\ o <= n
  <2>0. Len(q) \in Nat /\ Len(q) = Len(hits) - k /\ k \in Nat  BY <1>2, <1>3, <1>q
  <2>1. o \in Nat /\ o = n - Len(hits) + k /\ o <= n  BY <2>0, <1>i, <1>q
  <2>2. Off' = o  BY <1>h DEF Off
  <2> QED  BY <2>1, <2>2
<1>6. \A i \in 1 .. n : i <= o => sendsSent[i].at + Window <= sendsNow
  <2> SUFFICES ASSUME NEW i \in 1 .. n, i <= o PROVE sendsSent[i].at + Window <= sendsNow  OBVIOUS
  <2>1. CASE i <= Off  BY <1>i, <2>1
  <2>2. CASE i > Off
    <3>1. i - Off \in 1 .. k /\ Off + (i - Off) = i /\ i - Off \in 1 .. Len(hits)
        BY <1>2, <1>i, <1>o, <1>q, <2>2
    <3>2. hits[i - Off] = sendsSent[i].at /\ hits[i - Off] + Window <= sendsNow  BY <1>2, <1>i, <3>1
    <3> QED  BY <3>2
  <2> QED  BY <1>i, <1>q, <2>1, <2>2
<1>l. sendsSent[n].limit \in Nat /\ Len(hits) > 0 /\ n \in 1 .. n
  <2>1. n \in 1 .. n /\ Len(hits) > 0  BY <1>2, <1>3, <1>i, <1>q
  <2>2. sendsSent[n] \in Logged  BY <1>q, <2>1
  <2> QED  BY <2>1, <2>2 DEF Logged
<1>7. InStep'
  <2>1. ASSUME NEW i \in 1 .. Len(q) PROVE q[i] = sendsSent[o + i].at
    <3>1. k + i \in 1 .. Len(hits) /\ Off + (k + i) = o + i /\ i \in 1 .. (Len(hits) - k)
        BY <1>2, <1>i, <1>o, <1>q
    <3> QED  BY <1>2, <1>i, <3>1
  <2>2. Len(q) <= n /\ Len(q) <= sendsSent[n].limit  BY <1>2, <1>3, <1>i, <1>l, <1>q
  <2> QED  BY <1>6, <1>h, <1>i, <1>o, <2>1, <2>2 DEF InStep
<1>8. SlotOk'
  <2>1. CASE sendsTold = 0
    <3>1. sendsTold' = q[1] + Window + 1  BY <1>4, <2>1
    <3>2. hits'[1] + Window + 1 <= sendsTold'  BY <1>3, <1>h, <1>w, <3>1
    <3> QED  BY <1>3, <1>h, <3>2 DEF SlotOk
  <2>2. CASE sendsTold # 0 /\ UnderLarger
    <3>1. UnderLarger'  BY <1>p, <2>2 DEF UnderLarger
    <3> QED  BY <3>1 DEF SlotOk
  <2>3. CASE sendsTold # 0 /\ ~UnderLarger
    <3>1. sendsSent[n].limit <= PerHour
      <4>1. n \in DOMAIN sendsSent  BY <1>l, <1>q
      <4> QED  BY <1>l, <1>p, <2>3, <4>1 DEF UnderLarger
    <3>2. Len(hits) <= PerHour  BY <1>i, <1>l, <1>p, <1>q, <3>1
    <3>3. k = 0 /\ Len(q) = Len(hits) /\ Len(hits) = PerHour  BY <1>2, <1>3, <1>p, <1>q, <3>2
    <3>4. 1 \in 1 .. (Len(hits) - k) /\ k + 1 = 1  BY <1>3, <3>3
    <3>5. q[1] = hits[1]  BY <1>2, <3>4
    <3>6. hits[1] + Window + 1 <= sendsTold  BY <1>p, <1>q, <1>t, <2>3, <3>3 DEF SlotOk
    <3>7. sendsTold' = sendsTold  BY <1>4, <2>3
    <3>8. Len(hits') > 0 /\ hits'[1] + Window + 1 <= sendsTold'  BY <1>3, <1>h, <3>5, <3>6, <3>7
    <3> QED  BY <3>8 DEF SlotOk
  <2> QED  BY <2>1, <2>2, <2>3
<1>9. WindowKept'  BY <1>t DEF WindowKept
<1> QED  BY <1>5, <1>7, <1>8, <1>9 DEF SendInv

LEMMA SendSteps == ASSUME SendsAssumption, SendInv, [SendNext]_SendVars PROVE SendInv'
<1>t. SendTypes /\ InStep /\ SlotOk /\ WindowKept  BY DEF SendInv
<1>1. ASSUME NEW c \in Channels, Send(c) PROVE SendInv'
  <2>1. CASE Exempt(c)
    <3>1. UNCHANGED <<hits, sendsTold, sendsSent, sendsNow, config>>  BY <1>1, <2>1 DEF Send
    <3> QED  BY <3>1, <1>t DEF SendInv, SendTypes, InStep, Off, SlotOk, PerHour, UnderLarger, WindowKept
  <2>2. CASE ~Exempt(c) /\ Len(Trim(hits)) >= PerHour
    <3>1. /\ hits' = Trim(hits)
          /\ sendsTold' = IF sendsTold = 0 THEN Trim(hits)[1] + Window + 1 ELSE sendsTold
          /\ UNCHANGED <<sendsSent, sendsNow, config>>
        BY <1>1, <2>2 DEF Send, Kept
    <3> QED  BY <2>2, <3>1, RefusedStep
  <2>3. CASE ~Exempt(c) /\ ~(Len(Trim(hits)) >= PerHour)
    <3>1. /\ hits' = Append(Trim(hits), sendsNow)
          /\ sendsSent' = Append(sendsSent, [at |-> sendsNow, limit |-> PerHour])
          /\ sendsTold' = 0
          /\ UNCHANGED <<sendsNow, config>>
        BY <1>1, <2>3 DEF Send
    <3>2. Len(Trim(hits)) \in Nat
      <4>1. hits \in Seq(Nat) /\ sendsNow \in Nat  BY <1>t DEF SendTypes
      <4>2. Trim(hits) \in Seq(Nat)  BY <4>1, TrimIs
      <4> QED  BY <4>2
    <3>3. Len(Trim(hits)) < PerHour  BY <2>3, <3>2, PerHourIs
    <3> QED  BY <3>1, <3>3, TakenStep
  <2> QED  BY <2>1, <2>2, <2>3
<1>2. CASE Reload
  <2>1. sendsTold' = 0 /\ UNCHANGED <<sendsNow, hits, sendsSent>>  BY <1>2 DEF Reload
  <2>2. SendTypes' /\ InStep' /\ WindowKept'  BY <1>t, <2>1 DEF SendTypes, InStep, Off, WindowKept
  <2>3. SlotOk'  BY <2>1 DEF SlotOk
  <2> QED  BY <2>2, <2>3 DEF SendInv
<1>3. CASE Restart
  <2>1. hits' = <<>> /\ sendsTold' = 0 /\ sendsSent' = <<>> /\ sendsNow' = sendsNow  BY <1>3 DEF Restart
  <2>2. hits' \in Seq(Nat) /\ sendsSent' \in Seq(Logged) /\ Len(hits') = 0 /\ Len(sendsSent') = 0  BY <2>1
  <2>3. SendTypes'  BY <1>t, <2>1, <2>2 DEF SendTypes
  <2>4. InStep'  BY <2>2 DEF InStep
  <2>5. SlotOk'  BY <2>1 DEF SlotOk
  <2>6. WindowKept'  BY <2>1 DEF WindowKept
  <2> QED  BY <2>3, <2>4, <2>5, <2>6 DEF SendInv
<1>4. CASE Pass
  <2>1. sendsNow' = sendsNow + 1 /\ UNCHANGED <<config, hits, sendsTold, sendsSent>>  BY <1>4 DEF Pass
  <2>2. SendTypes'  BY <1>t, <2>1 DEF SendTypes
  <2>3. InStep'
    <3>1. sendsNow \in Nat /\ Window \in Nat  BY <1>t DEF SendTypes, SendsAssumption
    <3>2. \A i \in 1 .. Len(sendsSent) : sendsSent[i].at \in Nat
      <4>1. sendsSent \in Seq(Logged)  BY <1>t DEF SendTypes
      <4>2. \A i \in 1 .. Len(sendsSent) : sendsSent[i] \in Logged  BY <4>1
      <4> QED  BY <4>2 DEF Logged
    <3>3. \A i \in 1 .. Len(sendsSent) : sendsSent[i].at <= sendsNow'  BY <1>t, <2>1, <3>1, <3>2 DEF InStep
    <3>4. \A i \in 1 .. Len(sendsSent) : i <= Off => sendsSent[i].at + Window <= sendsNow'
        BY <1>t, <2>1, <3>1, <3>2 DEF InStep
    <3>5. Off' = Off  BY <2>1 DEF Off
    <3> QED  BY <1>t, <2>1, <3>3, <3>4, <3>5 DEF InStep
  <2>4. SlotOk'  BY <1>t, <2>1 DEF SlotOk, PerHour, UnderLarger
  <2>5. WindowKept'  BY <1>t, <2>1 DEF WindowKept
  <2> QED  BY <2>2, <2>3, <2>4, <2>5 DEF SendInv
<1>5. CASE UNCHANGED SendVars
  <2>1. UNCHANGED <<hits, sendsTold, sendsSent, sendsNow, config>>  BY <1>5 DEF SendVars
  <2> QED  BY <2>1, <1>t DEF SendInv, SendTypes, InStep, Off, SlotOk, PerHour, UnderLarger, WindowKept
<1> QED  BY <1>1, <1>2, <1>3, <1>4, <1>5 DEF SendNext

LEMMA SendSafe == ASSUME SendsAssumption PROVE SendInv => WindowKept /\ SlotWhenTold
<1> SUFFICES ASSUME SendInv, sendsTold # 0, sendsNow >= sendsTold, ~UnderLarger
             PROVE Len(Trim(hits)) < PerHour
    BY DEF SendInv, SlotWhenTold
<1>t. SendTypes /\ InStep /\ SlotOk  BY DEF SendInv
<1>q. hits \in Seq(Nat) /\ sendsSent \in Seq(Logged) /\ Len(hits) \in Nat /\ Len(sendsSent) \in Nat
  <2>1. hits \in Seq(Nat) /\ sendsSent \in Seq(Logged)  BY <1>t DEF SendTypes
  <2> QED  BY <2>1
<1>p. PerHour \in Nat \ {0}  BY PerHourIs
<1>w. Window \in Nat \ {0} /\ sendsNow \in Nat /\ sendsTold \in Nat  BY <1>t DEF SendsAssumption, SendTypes
<1>2. PICK k \in 0 .. Len(hits) : /\ Len(Trim(hits)) = Len(hits) - k
                                  /\ k = Len(hits) \/ hits[k + 1] + Window > sendsNow
    BY <1>q, <1>w, TrimIs
<1>3. CASE Len(hits) < PerHour  BY <1>2, <1>3, <1>p, <1>q
<1>4. CASE ~(Len(hits) < PerHour)
  <2>1. Len(hits) > 0 /\ hits[1] + Window + 1 <= sendsTold  BY <1>4, <1>t DEF SlotOk
  <2>2. Len(hits) <= PerHour
    <3> DEFINE n == Len(sendsSent)
    <3>1. n \in 1 .. n /\ Len(hits) <= sendsSent[n].limit  BY <1>q, <1>t, <2>1 DEF InStep
    <3>2. sendsSent[n] \in Logged /\ n \in DOMAIN sendsSent  BY <1>q, <3>1
    <3>3. sendsSent[n].limit \in Nat  BY <3>2 DEF Logged
    <3>4. sendsSent[n].limit <= PerHour  BY <1>p, <3>2, <3>3 DEF UnderLarger
    <3> QED  BY <1>p, <1>q, <3>1, <3>3, <3>4
  <2>3. 1 \in 1 .. Len(hits) /\ hits[1] \in Nat  BY <1>q, <2>1
  <2>4. k # 0  BY <1>2, <1>q, <1>w, <2>1, <2>3
  <2> QED  BY <1>2, <1>p, <1>q, <2>2, <2>4
<1> QED  BY <1>3, <1>4

-----------------------------------------------------------------------------
(* Dispatch *)

\* What the relay keeps: its columns, a slot's holders counted, and, while it lives, one
\* script for each run it knows and an entry of the map for each of its tasks.
DispatchTypes ==
  /\ brief \in [Briefs -> {"absent", "inbox", "archive"}]
  /\ active \subseteq Briefs
  /\ dtask \in [Briefs -> {"none", "waits", "runs", "over"}]
  /\ procs \in [Briefs -> Nat]
  /\ drestarts \in Nat
Counted == \A k \in {"builder", "reviewer"} : IsFiniteSet(Holds(k)) /\ Cardinality(Holds(k)) <= Slots[k]
Known == \A b \in Briefs : dtask[b] = "runs" => procs[b] >= 1
Undying ==
  drestarts = 0 =>
    \A b \in Briefs : (procs[b] = IF dtask[b] = "runs" THEN 1 ELSE 0) /\ (dtask[b] # "none" => b \in active)
DispatchInv == DispatchTypes /\ Counted /\ Known /\ Undying

\* A task that leaves the other tasks alone and takes no slot, or takes one that is free,
\* keeps the count of every kind.
LEMMA CountKept ==
  ASSUME DispatchAssumption, DispatchTypes, Counted, NEW b \in Briefs, NEW t,
         dtask' = [dtask EXCEPT ![b] = t],
         \/ t \in {"none", "waits"}
         \/ b \in Holds(b.kind)
         \/ Cardinality(Holds(b.kind)) < Slots[b.kind]
  PROVE  Counted'
<1> SUFFICES ASSUME NEW k \in {"builder", "reviewer"}
             PROVE  IsFiniteSet(Holds(k)') /\ Cardinality(Holds(k)') <= Slots[k]
    BY DEF Counted, Holds
<1> DEFINE H == Holds(k)
<1>1. IsFiniteSet(H) /\ Cardinality(H) <= Slots[k]  BY DEF Counted
<1>2. Slots[k] \in Nat /\ Cardinality(H) \in Nat
    BY <1>1, FS_CardinalityType DEF DispatchAssumption
<1>3. Holds(k)' \subseteq H \cup {b} /\ (b.kind # k \/ t \in {"none", "waits"} => Holds(k)' \subseteq H)
    BY DEF Holds, DispatchTypes
<1>4. CASE Holds(k)' \subseteq H
    BY <1>1, <1>2, <1>4, FS_Subset, FS_CardinalityType
<1>5. CASE ~(Holds(k)' \subseteq H)
  <2>1. b.kind = k /\ t \notin {"none", "waits"}  BY <1>3, <1>5
  <2>0. b \notin H /\ Cardinality(H) < Slots[k]
    <3>1. b \notin H  BY <1>3, <1>5
    <3> QED  BY <2>1, <3>1
  <2>2. IsFiniteSet(H \cup {b}) /\ Cardinality(H \cup {b}) = Cardinality(H) + 1
      BY <1>1, <2>0, FS_AddElement
  <2>3. IsFiniteSet(Holds(k)') /\ Cardinality(Holds(k)') <= Cardinality(H \cup {b})
      BY <1>3, <2>2, FS_Subset
  <2>4. Cardinality(Holds(k)') \in Nat  BY <2>3, FS_CardinalityType
  <2> HIDE DEF H
  <2> QED  BY <1>2, <2>0, <2>2, <2>3, <2>4
<1> QED  BY <1>4, <1>5

LEMMA DispatchStarts == ASSUME DispatchAssumption PROVE DispatchInit => DispatchInv
<1> SUFFICES ASSUME DispatchInit PROVE DispatchInv
    OBVIOUS
<1>1. \A k : Holds(k) = {}  BY DEF DispatchInit, Holds
<1>2. Counted  BY <1>1, FS_EmptySet DEF Counted, DispatchAssumption
<1>3. DispatchTypes /\ Known /\ Undying  BY DEF DispatchInit, DispatchTypes, Known, Undying
<1> QED  BY <1>2, <1>3 DEF DispatchInv

LEMMA DispatchSteps ==
  ASSUME DispatchAssumption, DispatchInv, [DispatchNext]_DispatchVars PROVE DispatchInv'
<1> USE DEF DispatchInv
<1>1. ASSUME NEW b \in Briefs, Dropped(b) PROVE DispatchInv'
  <2>1. Counted'  BY <1>1 DEF Dropped, Counted, Holds
  <2>2. (DispatchTypes /\ Known /\ Undying)'
      BY <1>1 DEF Dropped, DispatchTypes, Known, Undying
  <2> QED  BY <2>1, <2>2
<1>2. ASSUME NEW b \in Briefs, Checked(b) PROVE DispatchInv'
  <2>1. Counted'
    <3>1. dtask' = [dtask EXCEPT ![b] = "waits"]  BY <1>2 DEF Checked
    <3> QED  BY <3>1, CountKept
  <2>2. drestarts = 0 => dtask[b] = "none"  BY <1>2 DEF Checked, Active, Undying
  <2>3. dtask[b] # "runs" \/ drestarts # 0  BY <2>2
  <2>4. (DispatchTypes /\ Known /\ Undying)'
      BY <1>2, <2>3 DEF Checked, DispatchTypes, Known, Undying
  <2> QED  BY <2>1, <2>4
<1>3. ASSUME NEW b \in Briefs, Begins(b) PROVE DispatchInv'
  <2>1. dtask[b] = "waits" /\ Cardinality(Holds(b.kind)) < Slots[b.kind]
      BY <1>3 DEF Begins, Acquires
  <2>2. Counted'
    <3>1. \E t : dtask' = [dtask EXCEPT ![b] = t]  BY <1>3 DEF Begins, Gone
    <3> QED  BY <2>1, <3>1, CountKept
  <2>3. (DispatchTypes /\ Known /\ Undying)'
    <3>1. CASE b.kind \in HasScript /\ brief[b] = "inbox"
      <4>1. /\ dtask' = [dtask EXCEPT ![b] = "runs"]
            /\ procs' = [procs EXCEPT ![b] = procs[b] + 1]
            /\ UNCHANGED <<brief, active, drestarts>>
          BY <1>3, <3>1 DEF Begins
      <4>2. procs[b] \in Nat /\ (drestarts = 0 => procs[b] = 0)
          BY <2>1 DEF DispatchTypes, Undying
      <4> QED  BY <4>1, <4>2, <2>1 DEF DispatchTypes, Known, Undying
    <3>2. CASE ~(b.kind \in HasScript /\ brief[b] = "inbox")
      <4>1. Gone(b) /\ UNCHANGED <<procs, brief, drestarts>>  BY <1>3, <3>2 DEF Begins
      <4> QED  BY <4>1, <2>1 DEF Gone, DispatchTypes, Known, Undying
    <3> QED  BY <3>1, <3>2
  <2> QED  BY <2>2, <2>3
<1>4. ASSUME NEW b \in Briefs, DispatchEnds(b) PROVE DispatchInv'
  <2>1. b \in Holds(b.kind)  BY <1>4 DEF DispatchEnds, Holds
  <2>2. Counted'  BY <1>4, <2>1, CountKept DEF DispatchEnds
  <2>3. procs[b] >= 1 /\ procs[b] - 1 \in Nat  BY <1>4 DEF DispatchEnds, Known, DispatchTypes
  <2>4. (DispatchTypes /\ Known /\ Undying)'
      BY <1>4, <2>3 DEF DispatchEnds, DispatchTypes, Known, Undying
  <2> QED  BY <2>2, <2>4
<1>5. ASSUME NEW b \in Briefs, Archive(b) PROVE DispatchInv'
  <2>1. Counted'
    <3>1. dtask' = [dtask EXCEPT ![b] = "none"]  BY <1>5 DEF Archive, Gone
    <3> QED  BY <3>1, CountKept
  <2>2. (DispatchTypes /\ Known /\ Undying)'
      BY <1>5 DEF Archive, Gone, DispatchTypes, Known, Undying
  <2> QED  BY <2>1, <2>2
<1>6. ASSUME NEW b \in Briefs, OrphanEnds(b) PROVE DispatchInv'
  <2>1. Counted'  BY <1>6 DEF OrphanEnds, Counted, Holds
  <2>2. procs[b] - 1 \in Nat /\ (dtask[b] = "runs" => procs[b] - 1 >= 1) /\ drestarts # 0
      BY <1>6 DEF OrphanEnds, DispatchTypes, Undying
  <2>3. (DispatchTypes /\ Known /\ Undying)'
      BY <1>6, <2>2 DEF OrphanEnds, DispatchTypes, Known, Undying
  <2> QED  BY <2>1, <2>3
<1>7. ASSUME RelayDies PROVE DispatchInv'
  <2>1. \A k : Holds(k)' = {}  BY <1>7 DEF RelayDies, Holds
  <2>2. Counted'  BY <2>1, FS_EmptySet DEF Counted, DispatchAssumption
  <2>3. (DispatchTypes /\ Known /\ Undying)'
      BY <1>7 DEF RelayDies, DispatchTypes, Known, Undying
  <2> QED  BY <2>2, <2>3
<1>8. ASSUME UNCHANGED DispatchVars PROVE DispatchInv'
    BY <1>8 DEF DispatchVars, DispatchTypes, Counted, Holds, Known, Undying
<1> QED  BY <1>1, <1>2, <1>3, <1>4, <1>5, <1>6, <1>7, <1>8 DEF DispatchNext

LEMMA DispatchSafe == DispatchInv => DispatchCapped /\ OneRun
<1>1. DispatchInv => DispatchCapped  BY DEF DispatchInv, Counted, DispatchCapped
<1>2. DispatchInv => OneRun
  <2> SUFFICES ASSUME DispatchInv, drestarts = 0, NEW b \in Briefs
               PROVE  procs[b] <= 1 /\ (procs[b] = 1 => b \in active)
      BY DEF OneRun
  <2>1. CASE dtask[b] = "runs"  BY <2>1 DEF DispatchInv, Undying
  <2>2. CASE dtask[b] # "runs"
    <3>1. procs[b] = 0  BY <2>2 DEF DispatchInv, Undying
    <3> QED  BY <3>1
  <2> QED  BY <2>1, <2>2
<1> QED  BY <1>1, <1>2

\* For any briefs, slots and restarts: the slots of a kind hold for the runs the relay
\* knows (DispatchAdapter's semaphores), although a pass starts more tasks than slots.
THEOREM CappedHolds == ASSUME DispatchAssumption PROVE DispatchSpec => []DispatchCapped
<1> QED  BY DispatchStarts, DispatchSteps, DispatchSafe, PTL DEF DispatchSpec

\* For any briefs, slots and restarts: until the relay dies, a brief has one script at
\* most and it is in the map while it runs (active_dispatches of DispatchAdapter).
THEOREM OneRunHolds == ASSUME DispatchAssumption PROVE DispatchSpec => []OneRun
<1> QED  BY DispatchStarts, DispatchSteps, DispatchSafe, PTL DEF DispatchSpec

-----------------------------------------------------------------------------
(* The relay *)

\* A step of the relay is a step or a stutter of each of its components.
LEMMA RelayParts ==
  ASSUME [RelayNext]_relayVars
  PROVE  /\ [InboundNext]_InboundVars /\ [EditsNext]_EditsVars /\ [ReactNext]_ReactVars
         /\ [ConfigNext]_ConfigVars /\ [WatchNext]_WatchVars /\ [SendNext]_SendVars
         /\ [DispatchNext]_DispatchVars
BY DEF RelayNext, relayVars

\* For any channel, limits, faults, restarts and delays: a Discord message becomes one row at
\* most, is never lost but by the rules that drop it on purpose, and a guest over the limit is
\* told so (inbound messages of the relay, from on_message to the queue and back).
THEOREM MessagesArriveHolds == RelaySpec => []MessagesArrive
<1>1. RelayInit => InboundInit  BY DEF RelayInit
<1>2. [RelayNext]_relayVars => [InboundNext]_InboundVars  BY RelayParts
<1>3. RelaySpec => InboundSpec  BY <1>1, <1>2, PTL DEF RelaySpec, InboundSpec
<1>4. InboundAssumption  BY RelayAssumptions DEF RelayAssumptions
<1>5. TakenOnce /\ NotDropped /\ GuestsAreTold => MessagesArrive  BY DEF MessagesArrive
<1> QED  BY <1>3, <1>4, <1>5, TakenOnceHolds, NotDroppedHolds, GuestsToldHolds, PTL

\* What the relay's duties rest on.
RelayInv == EditsInv /\ ReactInv /\ ConfigInv /\ WatchInv /\ SendInv /\ DispatchInv

\* For any limits, windows, clocks, outages, configurations and briefs, when the edits of one
\* message come one after the other: a last edit that is not refused reaches a turn; follow-ups,
\* reactions and cross-channel sends keep their limits, and a wait that was announced is true;
\* half a configuration is never in use and each bad one is logged once; an outage is told once;
\* a host never has more build runs than slots, nor a brief two runs while the relay lives.
THEOREM DutiesAreKeptHolds == ASSUME ~Overlap PROVE RelaySpec => []DutiesAreKept
<1>a. /\ EditsAssumption /\ ReactAssumption /\ WatchAssumption /\ SendsAssumption /\ DispatchAssumption
    BY RelayAssumptions DEF RelayAssumptions
<1>1. RelayInit => RelayInv
  <2>1. RelayInit => /\ EditsInit /\ ReactInit /\ ConfigInit /\ WatchInit /\ SendInit /\ DispatchInit
      BY DEF RelayInit
  <2> QED  BY <1>a, <2>1, EditsStart, ReactStarts, ConfigStarts, WatchStarts, SendStarts, DispatchStarts
           DEF RelayInv
<1>2. RelayInv /\ [RelayNext]_relayVars => RelayInv'
  <2> SUFFICES ASSUME RelayInv, [RelayNext]_relayVars PROVE RelayInv'  OBVIOUS
  <2>1. EditsInv /\ ReactInv /\ ConfigInv /\ WatchInv /\ SendInv /\ DispatchInv  BY DEF RelayInv
  <2>2. EditsInv'  BY <1>a, <2>1, RelayParts, EditsSteps
  <2>3. ReactInv'  BY <1>a, <2>1, RelayParts, ReactSteps
  <2>4. ConfigInv'  BY <2>1, RelayParts, ConfigSteps
  <2>5. WatchInv'  BY <2>1, RelayParts, WatchSteps
  <2>6. SendInv'  BY <1>a, <2>1, RelayParts, SendSteps
  <2>7. DispatchInv'  BY <1>a, <2>1, RelayParts, DispatchSteps
  <2> QED  BY <2>2, <2>3, <2>4, <2>5, <2>6, <2>7 DEF RelayInv
<1>3. RelayInv => DutiesAreKept
  <2> SUFFICES ASSUME RelayInv PROVE DutiesAreKept  OBVIOUS
  <2>1. EditsInv /\ ReactInv /\ ConfigInv /\ WatchInv /\ SendInv /\ DispatchInv  BY DEF RelayInv
  <2>2. EditReaches /\ FollowupsCapped  BY <1>a, <2>1, EditsSafe
  <2>3. SparedAlone  BY <2>1, ReactSafe
  <2>4. HeldIsWhole /\ LoggedOnce  BY <2>1, ConfigSafe
  <2>5. OnceEach  BY <2>1, WatchSafe
  <2>6. WindowKept /\ SlotWhenTold  BY <1>a, <2>1, SendSafe
  <2>7. DispatchCapped /\ OneRun  BY <2>1, DispatchSafe
  <2> QED  BY <2>2, <2>3, <2>4, <2>5, <2>6, <2>7 DEF DutiesAreKept
<1> QED  BY <1>1, <1>2, <1>3, PTL DEF RelaySpec
=============================================================================
