----------------------------- MODULE ChatStream -----------------------------
(***************************************************************************)
(* One message typed in the dashboard's chat, from the turn that answers   *)
(* it to the bubble on the page: read_events of lib/turn_loop.py writes    *)
(* turn_events rows and the growing `response` of the message's queue row, *)
(* the SSE route api/chat/stream polls both, ChatSurface.tsx shows what    *)
(* arrives, and api/chat/result answers when the stream is gone.           *)
(*                                                                         *)
(* A piece of text is a number no other piece has; a text is a sequence of *)
(* pieces and its length stands for the number of characters.              *)
(***************************************************************************)
EXTENDS Naturals, Sequences, FiniteSets

CONSTANTS
    MaxChatTurns,  \* bound: turns that take the message
    MaxBlocks,     \* bound: content blocks of one turn
    MaxDrops,      \* bound: times the page's stream breaks
    Retries        \* result polls after a break (60 in the code)

ErrorText == <<0>>          \* GENERIC_TURN_ERROR
NoChatTurn == [seq |-> 0, text |-> <<>>, ours |-> FALSE, on |-> FALSE]

VARIABLES
    row,         \* processed of the message's row: queued, running, complete, crashed
    response,    \* response of the row
    chatEvents,  \* turn_events rows of the message, by id: [seq, n]
    chatTurn,    \* read_events: event_seq, final_text, the message is in msg_ids
    chatTurns,   \* bound: turns begun
    chatWalls,   \* times a turn put the message back after taking it
    pieces,      \* pieces and events made so far (their names)
    route,       \* api/chat/stream: on, lastSize, lastEventRowId
    seen,        \* the row as the current poll read it, <<>> between polls
    content,     \* the bubble's text
    shown,       \* the bubble's events
    ended,       \* turnEndedAt of the bubble is set
    polls,       \* result polls the page still makes
    drops,       \* bound: streams broken or timed out
    chatLate     \* the route timed out on the running turn

server == <<row, response, chatEvents, chatTurn, chatTurns, chatWalls, pieces>>
page == <<route, seen, content, shown, ended, polls, drops, chatLate>>
ChatVars == <<server, page>>

ChatInit ==
    /\ row = "queued" /\ response = <<>> /\ chatEvents = <<>>
    /\ chatTurn = NoChatTurn /\ chatTurns = 0 /\ chatWalls = 0 /\ pieces = 0
    /\ route = [on |-> TRUE, size |-> 0, cursor |-> 0]
    /\ seen = <<>> /\ content = <<>> /\ shown = <<>> /\ ended = FALSE
    /\ polls = 0 /\ drops = 0 /\ chatLate = FALSE

-----------------------------------------------------------------------------
(* Faulty variants of definitions below: each breaks a property. *)

\* the query asks for ids past the one after the last relayed
After_Next(ev) == SubSeq(ev, route.cursor + 2, Len(ev))

\* a bubble is patched only when it is empty
Patched_Empty(text) == IF content = <<>> THEN text ELSE content

-----------------------------------------------------------------------------
(* The turn *)

Terminal == row \in {"complete", "crashed"}

\* A turn starts: with the message claimed, or of an earlier message of the
\* channel that this one may join.
ChatBegin(ours) ==
    /\ ~chatTurn.on /\ row = "queued" /\ chatTurns < MaxChatTurns
    /\ chatTurn' = [NoChatTurn EXCEPT !.on = TRUE, !.ours = ours]
    /\ row' = IF ours THEN "running" ELSE row
    /\ chatTurns' = chatTurns + 1
    /\ UNCHANGED <<response, chatEvents, chatWalls, pieces, page>>

\* The message was steered into the running turn and the CLI replays its line:
\* its id joins msg_ids, from this event on.
Joins ==
    /\ chatTurn.on /\ ~chatTurn.ours /\ row = "queued"
    /\ chatTurn' = [chatTurn EXCEPT !.ours = TRUE]
    /\ row' = "running"
    /\ UNCHANGED <<response, chatEvents, chatTurns, chatWalls, pieces, page>>

\* write_turn_event: a row for each message of the turn.
Written(ev) == IF chatTurn.ours THEN Append(chatEvents, ev) ELSE chatEvents

\* write_streaming_response: the whole of final_text, to each row of the turn.
Streamed(text) == IF chatTurn.ours THEN text ELSE response

\* An assistant event with one block: a thinking or tool block is a turn event;
\* a text block grows final_text, is a turn event, and rewrites the response of
\* every row of the turn with the whole of final_text.
Block(isText) ==
    /\ chatTurn.on /\ chatTurn.seq < MaxBlocks
    /\ LET n == pieces + 1
           text == IF isText THEN Append(chatTurn.text, n) ELSE chatTurn.text
           ev == [seq |-> chatTurn.seq + 1, n |-> n]
       IN  /\ pieces' = n
           /\ chatTurn' = [chatTurn EXCEPT !.seq = @ + 1, !.text = text]
           /\ chatEvents' = Written(ev)
           /\ response' = IF isText THEN Streamed(text) ELSE response
    /\ UNCHANGED <<row, chatTurns, chatWalls, page>>

\* finish_turn: the reply, the generic error of a turn that failed or whose
\* process died, or the wall, which puts the rows back and leaves the response
\* as the stream wrote it.
Finish(how) ==
    /\ chatTurn.on
    /\ chatTurn' = NoChatTurn
    /\ chatWalls' = IF chatTurn.ours /\ how = "wall" THEN chatWalls + 1 ELSE chatWalls
    /\ IF ~chatTurn.ours THEN UNCHANGED <<row, response>>
       ELSE \/ how = "reply" /\ row' = "complete" /\ response' = chatTurn.text
            \/ how = "error" /\ row' = "crashed" /\ response' = ErrorText
            \/ how = "wall" /\ row' = "queued" /\ UNCHANGED response
    /\ UNCHANGED <<chatEvents, chatTurns, pieces, page>>

-----------------------------------------------------------------------------
(* The page *)

\* The rows of turn_events past the cursor.
After(ev) == SubSeq(ev, route.cursor + 1, Len(ev))

\* The page takes the events one by one and drops one whose seq it already shows.
NewEvents(have, new) ==
    {i \in 1..Len(new) : /\ \A k \in 1..Len(have) : have[k].seq # new[i].seq
                         /\ \A j \in 1..i - 1 : new[j].seq # new[i].seq}
Nth(S, k) == CHOOSE i \in S : Cardinality({j \in S : j <= i}) = k
AddEvents(have, new) ==
    LET keep == NewEvents(have, new)
    IN have \o [k \in 1..Cardinality(keep) |-> new[Nth(keep, k)]]

\* reconcileMessage's patch: the row's response, when it is longer.
Patched(text) == IF Len(text) > Len(content) THEN text ELSE content

\* A poll of the route reads the row first ...
PollRow ==
    /\ route.on /\ seen = <<>>
    /\ seen' = <<row, response>>
    /\ UNCHANGED <<server, route, content, shown, ended, polls, drops, chatLate>>

\* ... and then the events: it sends them, the response past lastSize, and
\* `done` when the row it read was terminal.  On done the page closes the stream,
\* stamps the end and asks for the result once (reconcileMessage).
PollRest ==
    /\ route.on /\ seen # <<>>
    /\ LET text == seen[2]
           over == seen[1] \in {"complete", "crashed"}
       IN  /\ shown' = AddEvents(shown, After(chatEvents))
           /\ content' = content \o SubSeq(text, route.size + 1, Len(text))
           /\ route' = [on |-> ~over,
                        size |-> IF Len(text) > route.size THEN Len(text) ELSE route.size,
                        cursor |-> Len(chatEvents)]
           /\ ended' = over
           /\ polls' = IF over THEN 1 ELSE 0
    /\ seen' = <<>>
    /\ UNCHANGED <<server, drops, chatLate>>

\* STREAM_TIMEOUT_MS: the route says done while the turn goes on.
RouteTimeout ==
    /\ route.on /\ ~Terminal /\ drops < MaxDrops
    /\ drops' = drops + 1 /\ chatLate' = TRUE
    /\ route' = [route EXCEPT !.on = FALSE] /\ seen' = <<>>
    /\ ended' = TRUE /\ polls' = 1
    /\ UNCHANGED <<server, content, shown>>

\* The connection breaks (onerror): the page closes it and asks for the result
\* every 3 s, a bounded number of times.
Breaks ==
    /\ route.on /\ drops < MaxDrops
    /\ drops' = drops + 1
    /\ route' = [route EXCEPT !.on = FALSE] /\ seen' = <<>>
    /\ polls' = Retries
    /\ UNCHANGED <<server, content, shown, ended, chatLate>>

\* api/chat/result: the row as it is now.
AskResult ==
    /\ polls > 0
    /\ content' = Patched(response)
    /\ ended' = (ended \/ Terminal)
    /\ polls' = IF Terminal THEN 0 ELSE polls - 1
    /\ UNCHANGED <<server, route, seen, shown, drops, chatLate>>

-----------------------------------------------------------------------------
ChatNext ==
    \/ \E ours \in BOOLEAN : ChatBegin(ours)
    \/ Joins
    \/ \E isText \in BOOLEAN : Block(isText)
    \/ \E how \in {"reply", "error", "wall"} : Finish(how)
    \/ PollRow \/ PollRest \/ RouteTimeout \/ Breaks \/ AskResult

ChatSpec == ChatInit /\ [][ChatNext]_ChatVars

-----------------------------------------------------------------------------
(* Properties *)

\* Once the page has been told the outcome, the bubble shows every event of the
\* message in the order they were written: the route read the row before the
\* events, so a terminal row has no event to come.  Not when the stream broke, and
\* not when a turn put the message back: the next turn's seq starts at 1 again and
\* the page takes its events for replays.
EventsShown == (ended /\ Terminal /\ drops = 0 /\ chatWalls = 0) => shown = chatEvents

\* The same for a message that a wall put back.  The page's filter is there for
\* replays: "Dedup by seq -- StrictMode double-invoke / reconnect can replay"
\* (ChatSurface.tsx).
\* Does not hold: see the README.
EveryEventShown == (ended /\ Terminal /\ drops = 0) => shown = chatEvents

\* When the page knows the outcome and asks no more, its bubble is the reply:
\* what a broken stream left out, reconcileMessage patched in.  Not when the
\* route timed out on the running turn (the page asks once, then never again),
\* nor after a wall (the first turn's fragment stays in the bubble).
ReplyShown ==
    (ended /\ row = "complete" /\ ~route.on /\ polls = 0 /\ chatWalls = 0 /\ ~chatLate)
    => content = response
=============================================================================
