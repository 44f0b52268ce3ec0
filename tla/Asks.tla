------------------------------- MODULE Asks --------------------------------
(***************************************************************************)
(* The question that does not block: bin/ask.py.  An ask is a file; a      *)
(* press of the owner is a process the relay starts; the ask-poll job      *)
(* reads reactions, expires asks and retries wakes, once a minute; an      *)
(* operator cancels.  Each takes the lock of the ask for one step, writes, *)
(* and releases it: two of them interleave between the steps.              *)
(***************************************************************************)
EXTENDS Naturals, FiniteSets, Sequences

CONSTANTS
  AskIds,      \* the asks
  Options,     \* the options of each
  Presses,     \* the processes of the relay: one per press of a button by the owner
  MaxRefusals, \* bound: wakes that are not delivered
  MaxUnheard,  \* bound: wakes that are delivered and answered too late
  MaxKills     \* bound: processes killed at any step

VARIABLES
  file,     \* the file of an ask: [status, answer, wake]
  overdue,  \* the asks past their expiry
  reacted,  \* the option the owner reacted with, NoOption when none
  proc,     \* a process: [pc, ask, opt]; Poll is the job's, the others the relay's
  todo,     \* what the running poll still has to look at: [ask, status, wake] as it read them
  woken,    \* the wakes the agent got, per ask, in order: the options they name
  refusals, unheard, kills

AsksVars == <<file, overdue, reacted, proc, todo, woken, refusals, unheard, kills>>

NoOption == "none"
NoAskId  == "no ask"
Poll     == "ask-poll"
Procs    == Presses \cup {Poll}

File(s, o, w) == [status |-> s, answer |-> o, wake |-> w]
Rest == [pc |-> "rest", ask |-> NoAskId, opt |-> NoOption]

AsksInit ==
  /\ file = [a \in AskIds |-> File("unposted", NoOption, "pending")]
  /\ overdue = {} /\ reacted = [a \in AskIds |-> NoOption]
  /\ proc = [p \in Procs |-> Rest]
  /\ todo = <<>> /\ woken = [a \in AskIds |-> <<>>]
  /\ refusals = 0 /\ unheard = 0 /\ kills = 0

----------------------------------------------------------------------------
(* cmd_post: the message, its reactions, then the file *)

Posts(a) ==
  /\ file[a].status = "unposted"
  /\ file' = [file EXCEPT ![a].status = "open"]
  /\ UNCHANGED <<overdue, reacted, proc, todo, woken, refusals, unheard, kills>>

ExpiryPasses(a) ==
  /\ file[a].status # "unposted" /\ a \notin overdue
  /\ overdue' = overdue \cup {a}
  /\ UNCHANGED <<file, reacted, proc, todo, woken, refusals, unheard, kills>>

Reacts(a, o) ==
  /\ file[a].status # "unposted" /\ reacted[a] = NoOption
  /\ reacted' = [reacted EXCEPT ![a] = o]
  /\ UNCHANGED <<file, overdue, proc, todo, woken, refusals, unheard, kills>>

\* _route_ask2 starts `ask.py answer`.
Press(p, a, o) ==
  /\ proc[p].pc = "rest" /\ file[a].status # "unposted"
  /\ proc' = [proc EXCEPT ![p] = [pc |-> "answer", ask |-> a, opt |-> o]]
  /\ UNCHANGED <<file, overdue, reacted, todo, woken, refusals, unheard, kills>>

----------------------------------------------------------------------------
(* cmd_answer and finish_answer *)

\* Where a process goes on when it is through with an ask.
Through(p) == [proc EXCEPT ![p] = IF p = Poll THEN [Rest EXCEPT !.pc = "walk"]
                                  ELSE [Rest EXCEPT !.pc = "gone"]]

\* finish_answer holds the lock from the wake until the file is saved.
Locked(a) == \E p \in Procs : proc[p].pc \in {"woke", "not woken"} /\ proc[p].ask = a

Takes_Any(a) == TRUE
Takes(a) == file[a].status = "open" /\ a \notin overdue

Answer(p) ==
  /\ proc[p].pc = "answer" /\ ~Locked(proc[p].ask)
  /\ LET a == proc[p].ask
     IN  IF Takes(a)
         THEN /\ file' = [file EXCEPT ![a].status = "answered", ![a].answer = proc[p].opt]
              /\ proc' = [proc EXCEPT ![p].pc = "finish"]
         ELSE file' = file /\ proc' = Through(p)
  /\ UNCHANGED <<overdue, reacted, todo, woken, refusals, unheard, kills>>

Due(a) == file[a].status = "answered" /\ file[a].wake # "sent"

\* finish_answer: the wake, and the lock kept.
Wake(p) ==
  /\ proc[p].pc = "finish" /\ ~Locked(proc[p].ask)
  /\ LET a == proc[p].ask
     IN  \/ /\ ~Due(a) /\ proc' = Through(p)
            /\ UNCHANGED <<woken, refusals, unheard>>
         \/ /\ Due(a) /\ proc' = [proc EXCEPT ![p].pc = "woke"]
            /\ woken' = [woken EXCEPT ![a] = Append(@, file[a].answer)]
            /\ UNCHANGED <<refusals, unheard>>
         \/ /\ Due(a) /\ refusals < MaxRefusals /\ refusals' = refusals + 1
            /\ proc' = [proc EXCEPT ![p].pc = "not woken"]
            /\ UNCHANGED <<woken, unheard>>
         \* The poke was queued and poke.sh outlasted its 60 s.
         \/ /\ Due(a) /\ unheard < MaxUnheard /\ unheard' = unheard + 1
            /\ woken' = [woken EXCEPT ![a] = Append(@, file[a].answer)]
            /\ proc' = [proc EXCEPT ![p].pc = "not woken"]
            /\ UNCHANGED refusals
  /\ UNCHANGED <<file, overdue, reacted, todo, kills>>

Records(p) ==
  /\ proc[p].pc \in {"woke", "not woken"}
  /\ file' = [file EXCEPT ![proc[p].ask].wake =
                IF proc[p].pc = "woke" THEN "sent" ELSE "wake_failed"]
  /\ proc' = Through(p)
  /\ UNCHANGED <<overdue, reacted, todo, woken, refusals, unheard, kills>>

----------------------------------------------------------------------------
(* cmd_poll: all_asks is read once, then walked *)

PollStarts ==
  /\ proc[Poll].pc = "rest"
  /\ \E order \in [1..Cardinality(AskIds) -> AskIds] :
       /\ \A i, j \in DOMAIN order : i # j => order[i] # order[j]
       /\ todo' = [i \in DOMAIN order |-> [ask |-> order[i], status |-> file[order[i]].status,
                                           wake |-> file[order[i]].wake]]
  /\ proc' = [proc EXCEPT ![Poll] = [Rest EXCEPT !.pc = "walk"]]
  /\ UNCHANGED <<file, overdue, reacted, woken, refusals, unheard, kills>>

PollTurnsTo(pc, a, o) == proc' = [proc EXCEPT ![Poll] = [pc |-> pc, ask |-> a, opt |-> o]]

Retried_Never(e) == FALSE
Retried(e) == e.status = "answered" /\ e.wake = "wake_failed"

PollWalks ==
  /\ proc[Poll].pc = "walk" /\ todo # <<>>
  /\ todo' = Tail(todo)
  /\ LET e == Head(todo)
     IN  \/ Retried(e) /\ PollTurnsTo("finish", e.ask, NoOption)
         \/ e.status = "open" /\ e.ask \in overdue /\ PollTurnsTo("expire", e.ask, NoOption)
         \/ /\ e.status = "open" /\ e.ask \notin overdue /\ reacted[e.ask] # NoOption
            /\ PollTurnsTo("answer", e.ask, reacted[e.ask])
         \/ /\ ~Retried(e)
            /\ ~(e.status = "open" /\ (e.ask \in overdue \/ reacted[e.ask] # NoOption))
            /\ proc' = proc
  /\ UNCHANGED <<file, overdue, reacted, woken, refusals, unheard, kills>>

PollDone ==
  /\ proc[Poll].pc = "walk" /\ todo = <<>>
  /\ proc' = [proc EXCEPT ![Poll] = Rest]
  /\ UNCHANGED <<file, overdue, reacted, todo, woken, refusals, unheard, kills>>

Closable_Any(a) == TRUE
Closable(a) == file[a].status = "open"

\* close, by the poll: an ask answered since it was read raises and ends the whole poll.
PollExpires ==
  /\ proc[Poll].pc = "expire" /\ ~Locked(proc[Poll].ask)
  /\ LET a == proc[Poll].ask
     IN  IF Closable(a)
         THEN /\ file' = [file EXCEPT ![a].status = "expired"]
              /\ proc' = Through(Poll) /\ todo' = todo
         ELSE file' = file /\ proc' = [proc EXCEPT ![Poll] = Rest] /\ todo' = <<>>
  /\ UNCHANGED <<overdue, reacted, woken, refusals, unheard, kills>>

\* `ask.py cancel` and `ask.py resolve`.
OperatorCloses(a) ==
  /\ Closable(a)
  /\ file' = [file EXCEPT ![a].status = "closed"]
  /\ UNCHANGED <<overdue, reacted, proc, todo, woken, refusals, unheard, kills>>

\* A restart of the container, or the end of the relay, at any step of a process.
Killed(p) ==
  /\ proc[p].pc \notin {"rest", "gone"} /\ kills < MaxKills /\ kills' = kills + 1
  /\ proc' = [proc EXCEPT ![p] = IF p = Poll THEN Rest ELSE [Rest EXCEPT !.pc = "gone"]]
  /\ todo' = IF p = Poll THEN <<>> ELSE todo
  /\ UNCHANGED <<file, overdue, reacted, woken, refusals, unheard>>

AsksNext ==
  \/ \E a \in AskIds :
       \/ Posts(a) \/ ExpiryPasses(a) \/ OperatorCloses(a)
       \/ \E o \in Options : Reacts(a, o) \/ \E p \in Presses : Press(p, a, o)
  \/ \E p \in Procs : Answer(p) \/ Wake(p) \/ Records(p) \/ Killed(p)
  \/ PollStarts \/ PollWalks \/ PollDone \/ PollExpires

AsksSpec == AsksInit /\ [][AsksNext]_AsksVars

\* The scheduler runs ask-poll every minute, and a process goes on.
AsksFairness ==
  /\ WF_AsksVars(PollStarts) /\ WF_AsksVars(PollWalks)
  /\ WF_AsksVars(PollDone) /\ WF_AsksVars(PollExpires)
  /\ \A p \in Procs : WF_AsksVars(Answer(p)) /\ WF_AsksVars(Wake(p)) /\ WF_AsksVars(Records(p))

----------------------------------------------------------------------------
(* Properties *)

\* The first answer wins: whatever is pressed, reacted, expired or cancelled at the same time,
\* an ask is decided once and its answer never changes.
DecidedOnce ==
  [][\A a \in AskIds :
       file[a].status \notin {"unposted", "open"} =>
         file'[a].status = file[a].status /\ file'[a].answer = file[a].answer]_AsksVars

\* The agent is woken with the recorded answer only, once, and again only after a wake whose
\* delivery was not heard of, or not recorded by a process killed then.  An expired or cancelled ask wakes nobody.
WokenRight ==
  /\ \A a \in AskIds : \A i \in 1..Len(woken[a]) :
       file[a].status = "answered" /\ woken[a][i] = file[a].answer
  /\ \A a \in AskIds : Len(woken[a]) <= 1 + unheard + kills

\* An answered ask whose process is through has its wake sent, or marked for the next poll.
\* Killed between the answer and the wake, it has neither: nothing retries a `pending` wake.
\* Does not hold: see the README.
WakeKept ==
  \A a \in AskIds :
    file[a].status = "answered" /\ (\A p \in Procs : proc[p].ask # a)
      => file[a].wake \in {"sent", "wake_failed"}

\* An answer wakes the agent in the end, however many wakes were refused, unless a process was
\* killed.
AnswerWakes == \A a \in AskIds : file[a].status = "answered" ~> woken[a] # <<>> \/ kills > 0

=============================================================================
