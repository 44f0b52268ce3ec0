------------------------------ MODULE ToolLines ------------------------------
(***************************************************************************)
(* The tool-activity lines of one turn: the tool_use branch of read_events *)
(* (lib/turn_loop.py) with should_post_tool_line, the LongTurn of          *)
(* lib/discord_ux.py, ux_create_thread and _post_direct.  The reader       *)
(* awaits each call to Discord, so the clock moves while it posts a line,  *)
(* posts it again or creates the thread.                                   *)
(***************************************************************************)
EXTENDS Naturals, Sequences, FiniteSets

CONSTANTS
    MaxNow,       \* bound: the clock
    MaxTools,     \* bound: tool calls of the turn
    MinInterval,  \* TOOL_EVENT_MIN_INTERVAL
    BaseCap,      \* TOOL_EVENT_MAX_PER_TURN
    MaxLines,     \* ThreadCfg.max_lines
    AfterS,       \* ThreadCfg.after_s
    MaxAttempts   \* POST_MAX_ATTEMPTS

ToolAssumption == {BaseCap, MaxLines} \subseteq Nat

NoTime == MaxNow + 1
Channel == "channel"
Thread == "thread"

VARIABLES
    toolsNow,   \* time.monotonic(); the turn starts at 0
    threads,    \* the channel has ux.threads: long_turn is not None
    tools,      \* tool calls read so far
    toolsCall,  \* what the reader awaits: none, create, post
    tries,      \* attempts of the post that failed
    at,         \* `now` as the reader took it for the tool call it handles
    lines,      \* tool_lines_posted
    lastAt,     \* last_tool_line_at (NoTime: None)
    anchor,     \* LongTurn.anchor is set
    thread,     \* LongTurn.thread_id is set
    disabled,   \* LongTurn.disabled
    posts,      \* history: [where, at] of every line handed to Discord
    creations   \* history: threads created

ToolVars == <<toolsNow, threads, tools, toolsCall, tries, at, lines, lastAt, anchor, thread,
              disabled, posts, creations>>

ToolInit ==
    /\ toolsNow = 0 /\ threads \in BOOLEAN /\ tools = 0
    /\ toolsCall = "none" /\ tries = 0 /\ at = 0
    /\ lines = 0 /\ lastAt = NoTime
    /\ anchor = FALSE /\ thread = FALSE /\ disabled = FALSE
    /\ posts = <<>> /\ creations = 0

-----------------------------------------------------------------------------
(* Faulty variants of definitions below: each breaks a property. *)

\* a failed creation is tried again at the next line: and so is a made one
CanThread_Again(t) == ~disabled /\ anchor /\ t >= AfterS

\* a failed creation leaves the raised cap
Cap_Raised(t) == IF anchor /\ t >= AfterS THEN MaxLines ELSE BaseCap

\* the line that made the thread goes to the channel
Target_Channel == Channel

-----------------------------------------------------------------------------
(* LongTurn.plan and should_post_tool_line *)

CanThread(t) == ~thread /\ ~disabled /\ anchor /\ t >= AfterS

\* The cap of the turn: raised once there is, or can be, a thread.
Cap(t) == IF thread \/ CanThread(t) THEN MaxLines ELSE BaseCap

TooSoon(t) == lastAt # NoTime /\ t < lastAt + MinInterval

\* should_post_tool_line: without ux.threads.
ShouldPost(t) == lines < BaseCap /\ ~TooSoon(t)

Plan(t) ==
    IF ~threads THEN IF ShouldPost(t) THEN "post" ELSE "skip"
    ELSE IF lines >= Cap(t) \/ TooSoon(t) THEN "skip"
    ELSE IF CanThread(t) THEN "create" ELSE "post"

\* Where a line goes: the thread, once there is one.
Target == IF thread THEN Thread ELSE Channel

\* The line is counted and handed to post_to_discord.
Posting(t) ==
    /\ toolsCall' = "post"
    /\ lines' = lines + 1
    /\ lastAt' = t
    /\ posts' = Append(posts, [where |-> Target, at |-> toolsNow])

\* A tool_use block.
ToolUse ==
    /\ toolsCall = "none" /\ tools < MaxTools
    /\ tools' = tools + 1
    /\ \/ Plan(toolsNow) = "skip" /\ UNCHANGED <<toolsCall, at, lines, lastAt, posts>>
       \/ Plan(toolsNow) = "create" /\ toolsCall' = "create" /\ at' = toolsNow /\ UNCHANGED <<lines,
                                                                                              lastAt,
                                                                                              posts>>
       \/ Plan(toolsNow) = "post" /\ at' = toolsNow /\ Posting(toolsNow)
    /\ UNCHANGED <<toolsNow, threads, tries, anchor, thread, disabled, creations>>

\* ux_create_thread returns an id: the line is posted to the thread.
Created ==
    /\ toolsCall = "create"
    /\ thread' = TRUE /\ creations' = creations + 1
    /\ toolsCall' = "made"
    /\ UNCHANGED <<toolsNow, threads, tools, tries, at, lines, lastAt, anchor, disabled, posts>>

PostFirst ==
    /\ toolsCall = "made" /\ Posting(at)
    /\ UNCHANGED <<toolsNow, threads, tools, tries, at, anchor, thread, disabled, creations>>

\* ux_create_thread returns None: threading is off for the rest of the turn and
\* the line is planned again, with the time it was first planned at.
NotCreated ==
    /\ toolsCall = "create"
    /\ disabled' = TRUE
    /\ toolsCall' = "again"
    /\ UNCHANGED <<toolsNow, threads, tools, tries, at, lines, lastAt, anchor, thread, posts,
                   creations>>

PlanAgain ==
    /\ toolsCall = "again"
    /\ IF Plan(at) = "skip" THEN toolsCall' = "none" /\ UNCHANGED <<lines, lastAt, posts>>
                            ELSE Posting(at)
    /\ UNCHANGED <<toolsNow, threads, tools, tries, at, anchor, thread, disabled, creations>>

\* note_post: the first line in the channel becomes the anchor.
NotePost(id) == anchor' = (anchor \/ (threads /\ id /\ ~thread))

\* _post_direct: a 200 ends the post with the message's id, a 4xx without one; a 429, a
\* 5xx and an error (the line may be on the screen all the same) are tried again.
Posted(answer) ==
    /\ toolsCall = "post"
    /\ IF answer = "again" /\ tries + 1 < MaxAttempts
       THEN tries' = tries + 1 /\ UNCHANGED <<toolsCall, anchor>>
       ELSE tries' = 0 /\ toolsCall' = "none" /\ NotePost(answer = "id")
    /\ UNCHANGED <<toolsNow, threads, tools, at, lines, lastAt, thread, disabled, posts, creations>>

Clock ==
    /\ toolsNow < MaxNow /\ toolsNow' = toolsNow + 1
    /\ UNCHANGED <<threads, tools, toolsCall, tries, at, lines, lastAt, anchor, thread, disabled,
                   posts, creations>>

ToolNext ==
    \/ ToolUse \/ Created \/ PostFirst \/ NotCreated \/ PlanAgain
    \/ \E answer \in {"id", "refused", "again"} : Posted(answer)
    \/ Clock

ToolSpec == ToolInit /\ [][ToolNext]_ToolVars

-----------------------------------------------------------------------------
(* Properties *)

Count(where) == Cardinality({i \in 1..Len(posts) : posts[i].where = where})

\* Whatever Discord answers to the creation and however long it takes, a channel
\* never gets more than BaseCap different lines of a turn, and the turn never posts more
\* than its thread's cap: the cap a thread would raise is dropped with the thread.
ChannelSpared ==
    /\ Count(Channel) <= BaseCap
    /\ Len(posts) <= IF thread /\ MaxLines > BaseCap THEN MaxLines ELSE BaseCap

\* A turn makes at most one thread, and from then on no line goes to the channel:
\* the line that was due when the thread was made is its first.
OneThread ==
    /\ creations <= 1
    /\ \A i, j \in 1..Len(posts) : (i < j /\ posts[i].where = Thread) => posts[j].where = Thread
    /\ (creations = 1 /\ toolsCall \in {"post", "none"}) =>
         (posts # <<>> /\ posts[Len(posts)].where = Thread)
=============================================================================
