------------------------------ MODULE Taskboard ------------------------------
(***************************************************************************)
(* The `taskboard` tool of mcp/tools-server.py: one tools-server process   *)
(* per shard, each serving one tools/call at a time, all on one file,      *)
(* data/taskboard.json.  A call reads the whole file and, when it changes  *)
(* the board, writes the whole file back: open for writing empties it,     *)
(* then the text lands.  No lock, no rename, and a server may be killed at *)
(* any point (its shard is respawned).                                     *)
(*                                                                         *)
(* A task is named by the number of the call that added it; its id on the  *)
(* board is "task-<second>".                                               *)
(***************************************************************************)
EXTENDS Naturals, Sequences, FiniteSets, SequencesExt

CONSTANTS
    Servers,        \* tools-server processes
    Seconds,        \* ids: the seconds adds may fall in
    MaxOps,         \* bound: calls that get past validate_args
    MaxKills        \* bound: servers killed within a call

None == [op |-> "none"]

VARIABLES
    file,       \* the tasks of taskboard.json, in order
    torn,       \* open(..., "w") has emptied it: json.loads fails on it
    call,       \* per server: the call it serves
    read,       \* per server: the tasks it read
    step,       \* per server: idle, begun, read, emptied
    ops,        \* bound: calls begun
    kills,      \* bound
    promised,   \* history: what callers were told: [task, what]
    raced,      \* history: two calls overlapped
    hurt        \* history: a server was killed while the file was empty

BoardVars == <<file, torn, call, read, step, ops, kills, promised, raced, hurt>>

BoardInit ==
    /\ file = <<>> /\ torn = FALSE
    /\ call = [s \in Servers |-> None]
    /\ read = [s \in Servers |-> <<>>]
    /\ step = [s \in Servers |-> "idle"]
    /\ ops = 0 /\ kills = 0
    /\ promised = {} /\ raced = FALSE /\ hurt = FALSE

-----------------------------------------------------------------------------
(* Faulty variants of definitions below: each breaks a property. *)

\* the server keeps the tasks of its first read
Board_Cached(s) == IF read[s] = <<>> THEN file ELSE read[s]

-----------------------------------------------------------------------------
Asked == {"list", "add", "update", "delete", "other"}

\* validate_args: the action is one of the schema's (complete is an update here).
Accepted(op) == op \in {"list", "add", "update", "delete"}

\* A tools/call for taskboard starts; one that is refused is answered at once.
Begin(s, op, id) ==
    /\ step[s] = "idle" /\ ops < MaxOps
    /\ Accepted(op)
    /\ ops' = ops + 1
    /\ call' = [call EXCEPT ![s] = [op |-> op, id |-> id, n |-> ops + 1]]
    /\ step' = [step EXCEPT ![s] = "begun"]
    /\ raced' = (raced \/ \E o \in Servers : step[o] # "idle")
    /\ UNCHANGED <<file, torn, read, kills, promised, hurt>>

\* What the call reads.
Board(s) == file

Idle(s) ==
    /\ step' = [step EXCEPT ![s] = "idle"]
    /\ call' = [call EXCEPT ![s] = None]

\* json.loads(read_text()): an unreadable file is the call's error.
Read(s) ==
    /\ step[s] = "begun"
    /\ IF torn
       THEN Idle(s) /\ UNCHANGED read
       ELSE /\ read' = [read EXCEPT ![s] = Board(s)]
            /\ step' = [step EXCEPT ![s] = "read"]
            /\ UNCHANGED call
    /\ UNCHANGED <<file, torn, ops, kills, promised, raced, hurt>>

\* The tasks a call with an id may touch: not deleted; the first one is it.
Matches(t, id) == t.id = id /\ ~t.deleted
Found(s) == SelectInSeq(read[s], LAMBDA t : Matches(t, call[s].id))

\* list, an id that is not on the board, or an update that gives nothing to change
\* (to the board it is a list): nothing is written.
Answer(s) ==
    /\ step[s] = "read"
    /\ call[s].op = "list" \/ (call[s].op # "add" /\ Found(s) = 0)
    /\ Idle(s)
    /\ UNCHANGED <<file, torn, read, ops, kills, promised, raced, hurt>>

\* The board as the call leaves it: update and complete are one to it.
NewTask(s) == [id |-> call[s].id, n |-> call[s].n, mark |-> 0, deleted |-> FALSE]
Changed(s) ==
    LET i == Found(s)
    IN  CASE call[s].op = "add" -> Append(read[s], NewTask(s))
          [] call[s].op = "update" -> [read[s] EXCEPT ![i].mark = call[s].n]
          [] call[s].op = "delete" -> [read[s] EXCEPT ![i].deleted = TRUE]

Writes(s) == call[s].op = "add" \/ (call[s].op \in {"update", "delete"} /\ Found(s) # 0)

\* write_text opens the file ...
Empties(s) ==
    /\ step[s] = "read" /\ Writes(s)
    /\ torn' = TRUE
    /\ step' = [step EXCEPT ![s] = "emptied"]
    /\ UNCHANGED <<file, call, read, ops, kills, promised, raced, hurt>>

\* What the caller is told of the task it named.
Told(s) ==
    LET i == Found(s)
    IN  CASE call[s].op = "add" -> [n |-> call[s].n, what |-> "added", mark |-> 0]
          [] call[s].op = "update" -> [n |-> read[s][i].n, what |-> "updated", mark |-> call[s].n]
          [] call[s].op = "delete" -> [n |-> read[s][i].n, what |-> "deleted", mark |-> 0]

\* ... writes it, and the call's result goes out.
Lands(s) ==
    /\ step[s] = "emptied"
    /\ file' = Changed(s) /\ torn' = FALSE
    /\ promised' = promised \cup {Told(s)}
    /\ Idle(s)
    /\ UNCHANGED <<read, ops, kills, raced, hurt>>

\* The server is killed with its shard's process; the next one reads the file.
Killed(s) ==
    /\ step[s] # "idle" /\ kills < MaxKills
    /\ kills' = kills + 1
    /\ hurt' = (hurt \/ step[s] = "emptied")
    /\ Idle(s)
    /\ read' = [read EXCEPT ![s] = <<>>]
    /\ UNCHANGED <<file, torn, ops, promised, raced>>

BoardNext ==
    \E s \in Servers :
        \/ \E op \in Asked, id \in Seconds : Begin(s, op, id)
        \/ Read(s) \/ Answer(s) \/ Empties(s) \/ Lands(s) \/ Killed(s)

BoardSpec == BoardInit /\ [][BoardNext]_BoardVars

-----------------------------------------------------------------------------
(* Properties *)

\* The board as it is keeps what a caller was told.
Kept(p) ==
    \E i \in 1..Len(file) :
        /\ file[i].n = p.n
        /\ p.what = "deleted" => file[i].deleted
        /\ p.what = "updated" => file[i].mark >= p.mark

Quiet == \A s \in Servers : step[s] = "idle"

\* What callers were told stays true, whichever server serves the next call and
\* wherever one was killed before it wrote: a task added is on the board, an
\* update is in it or was followed by another, a deleted task keeps its tombstone.
\* Not after two calls overlapped, nor after a kill between the emptying of the
\* file and its text.
PromisesKept == (Quiet /\ ~raced /\ ~hurt) => \A p \in promised : Kept(p)

\* "`taskboard.delete` tombstones a task with `deleted_at`; `list` hides it"
\* (docs/ARCHITECTURE.md): a readable board never shows a task whose deletion was
\* confirmed.
\* Does not hold: see the README.
DeletedStaysHidden ==
    ~torn => \A p \in promised : p.what = "deleted" =>
        \A i \in 1..Len(file) : file[i].n = p.n => file[i].deleted
=============================================================================
