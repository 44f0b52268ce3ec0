------------------------------ MODULE Persona -------------------------------
(***************************************************************************)
(* Persona snapshots (lib/persona_snapshots.py, mcp/admin-server.py): the  *)
(* prompt and the persona files of one agent are copied aside and put      *)
(* back, by admin tools that each agent runs in a process of its own,      *)
(* while the agent edits its files.  Nothing here takes a lock.            *)
(*                                                                         *)
(* The two parts are the prompt and the persona directory; a part is the   *)
(* number of its edit, 0 when it is absent.  A digest is the pair it was   *)
(* computed of.  Ids grow with time.                                       *)
(***************************************************************************)
EXTENDS Naturals, FiniteSets

CONSTANTS
    Callers,
    Keep,       \* KEEP
    MaxSnaps, MaxEdits, MaxCalls, MaxKills  \* bounds

Parts == {"prompt", "persona"}
Nothing == [p \in Parts |-> 0]
Calls == {"snapshot", "reload", "overwrite", "restore"}

VARIABLES
    files,      \* agents/<name>
    snaps,      \* the snapshot directories: id, files, digest (Nothing: no meta.json)
    doing,      \* per caller: its tool, its next step, the id it snapshots into, the id it
                \*  restores and (history) what that held when the call began
    crossed,    \* history: callers crossed by another's write or prune, or overtaken by
                \*  as many newer snapshots as are kept
    torn,       \* history: snapshots whose files changed while they were copied
    lost,       \* history: a part was overwritten that no snapshot had
    missed,     \* history: a restore ended with other files than its target's
    ids, edits, calls, kills    \* bounds

PersonaVars == <<files, snaps, doing, crossed, torn, lost, missed, ids, edits, calls, kills>>

First == [p \in Parts |-> 1]
NoCall == [tool |-> "none", at |-> "none", own |-> 0, target |-> 0, goal |-> Nothing]

\* One snapshot has been taken, of the files as they are.
PersonaInit ==
    /\ files = First /\ snaps = {[id |-> 1, files |-> First, digest |-> First]}
    /\ doing = [c \in Callers |-> NoCall]
    /\ crossed = {} /\ torn = {} /\ lost = FALSE /\ missed = FALSE
    /\ ids = 1 /\ edits = 1 /\ calls = 0 /\ kills = 0

-----------------------------------------------------------------------------
(* Faulty variants of definitions below: each breaks a property. *)

\* the restore's own snapshot may prune what it is to restore
Protected_Not(c) == 0

\* meta.json is written before the files are copied
After_MetaFirst(s) ==
    CASE s = "mkdir" -> "meta" [] s = "meta" -> "prompt"
      [] s = "prompt" -> "persona" [] s = "persona" -> "prune"

-----------------------------------------------------------------------------
Have(i) == \E n \in snaps : n.id = i
Snap(i) == CHOOSE n \in snaps : n.id = i
Newest == CHOOSE n \in snaps : \A m \in snaps : m.id <= n.id
Put(i, field, value) ==
    {IF n.id = i THEN [n EXCEPT ![field] = value] ELSE n : n \in snaps}

\* snapshot_if_changed: the newest snapshot's digest is not the files'.
Changed == snaps = {} \/ Newest.digest # files

At(c, s) == doing[c].at = s
Busy(c) == doing[c].tool # "none"
Quiet == UNCHANGED <<crossed, torn, lost, missed>>

\* Caller c goes on to step s, or its call ends.
Goes(c, s) == doing' = [doing EXCEPT ![c] = IF s = "none" THEN NoCall ELSE [@ EXCEPT !.at = s]]

\* What a call does beyond its snapshot.
Rest(c) == CASE doing[c].tool = "restore" -> "putPrompt"
             [] doing[c].tool = "overwrite" -> "write"
             [] OTHER -> "none"

\* One of the tools is called; a restore names a snapshot that is there.
CallTool(c, tool) ==
    /\ ~Busy(c) /\ calls < MaxCalls
    /\ calls' = calls + 1
    /\ IF tool = "restore"
       THEN \E n \in snaps : doing' = [doing EXCEPT ![c] =
                [NoCall EXCEPT !.tool = tool, !.at = "mkdir", !.target = n.id, !.goal = n.files]]
       ELSE doing' = [doing EXCEPT ![c] =
                [NoCall EXCEPT !.tool = tool,
                               !.at = IF tool = "snapshot" THEN "mkdir" ELSE "compare"]]
    /\ crossed' = IF \E d \in Callers \ {c} : Busy(d) THEN crossed \cup {c} ELSE crossed \ {c}
    /\ UNCHANGED <<files, snaps, torn, lost, missed, ids, edits, kills>>

\* The snapshot before a reload or an overwrite is skipped when nothing changed.
Compare(c) ==
    /\ At(c, "compare")
    /\ Goes(c, IF Changed THEN "mkdir" ELSE Rest(c))
    /\ Quiet /\ UNCHANGED <<files, snaps, ids, edits, calls, kills>>

-----------------------------------------------------------------------------
(* snapshot *)

\* The order of its steps.
After(s) ==
    CASE s = "mkdir" -> "prompt" [] s = "prompt" -> "persona"
      [] s = "persona" -> "meta" [] s = "meta" -> "prune"

Directory(c) ==
    /\ At(c, "mkdir") /\ ids < MaxSnaps
    /\ ids' = ids + 1
    /\ doing' = [doing EXCEPT ![c].own = ids + 1, ![c].at = After("mkdir")]
    /\ snaps' = snaps \cup {[id |-> ids + 1, files |-> Nothing, digest |-> Nothing]}
    /\ Quiet /\ UNCHANGED <<files, edits, calls, kills>>

\* A directory that another call has pruned meanwhile fails the call.
Fills(c, s, field, value) ==
    /\ At(c, s)
    /\ snaps' = Put(doing[c].own, field, value)
    /\ Goes(c, IF Have(doing[c].own) THEN After(s) ELSE "none")
    /\ Quiet /\ UNCHANGED <<files, ids, edits, calls, kills>>

CopyPart(c, p) == Fills(c, p, "files", [Snap(doing[c].own).files EXCEPT ![p] = files[p]])

\* The digest is of the agent's files, not of the copies.
Meta(c) == Fills(c, "meta", "digest", files)

\* The restore's target outlives its own snapshot's prune.
Protected(c) == doing[c].target

Old == {n \in snaps : Cardinality({m \in snaps : m.id > n.id}) >= Keep}

Prune(c) ==
    /\ At(c, "prune")
    /\ snaps' = snaps \ {n \in Old : n.id # Protected(c)}
    /\ Goes(c, Rest(c))
    /\ crossed' = crossed \cup {d \in Callers : Busy(d) /\ d # c}
                          \cup {d \in Callers : \E n \in Old : n.id = doing[d].own}
    /\ UNCHANGED <<files, torn, lost, missed, ids, edits, calls, kills>>

-----------------------------------------------------------------------------
(* What changes the agent's files *)

Copying == {doing[d].own : d \in {e \in Callers : doing[e].at \in {"prompt", "persona", "meta"}}}

\* Part p of the agent's files becomes v, by caller c or, for c = 0, by an edit.
Rewrites(c, p, v) ==
    /\ files' = [files EXCEPT ![p] = v]
    /\ torn' = torn \cup Copying
    /\ crossed' = crossed \cup {d \in Callers : Busy(d) /\ d # c}
    /\ lost' = (lost \/ (/\ c # 0 /\ c \notin crossed /\ files[p] \notin {0, v}
                         /\ \A n \in snaps : n.files[p] # files[p] /\ n.id \notin torn))

\* The agent, or its user, edits a file.
Edit(p) ==
    /\ edits <= MaxEdits
    /\ edits' = edits + 1
    /\ Rewrites(0, p, edits + 1)
    /\ UNCHANGED <<snaps, doing, missed, ids, calls, kills>>

\* create_agent overwrites the prompt.
Write(c) ==
    /\ At(c, "write") /\ edits <= MaxEdits
    /\ edits' = edits + 1
    /\ Rewrites(c, "prompt", edits + 1)
    /\ Goes(c, "none")
    /\ UNCHANGED <<snaps, missed, ids, calls, kills>>

Held(c) == IF Have(doing[c].target) THEN Snap(doing[c].target).files ELSE Nothing

\* A prompt the snapshot lacks is unlinked.
PutPrompt(c) ==
    /\ At(c, "putPrompt")
    /\ Rewrites(c, "prompt", Held(c)["prompt"])
    /\ Goes(c, "rmPersona")
    /\ UNCHANGED <<snaps, missed, ids, edits, calls, kills>>

RemovePersona(c) ==
    /\ At(c, "rmPersona")
    /\ Rewrites(c, "persona", 0)
    /\ Goes(c, "putPersona")
    /\ UNCHANGED <<snaps, missed, ids, edits, calls, kills>>

PutPersona(c) ==
    /\ At(c, "putPersona")
    /\ Rewrites(c, "persona", Held(c)["persona"])
    /\ missed' = (missed \/ (c \notin crossed /\ files' # doing[c].goal))
    /\ Goes(c, "none")
    /\ UNCHANGED <<snaps, ids, edits, calls, kills>>

\* The tool's process dies between two steps.
Kill(c) ==
    /\ kills < MaxKills /\ Busy(c)
    /\ kills' = kills + 1
    /\ Goes(c, "none")
    /\ Quiet /\ UNCHANGED <<files, snaps, ids, edits, calls>>

PersonaNext ==
    \/ \E p \in Parts : Edit(p)
    \/ \E c \in Callers :
         \/ \E tool \in Calls : CallTool(c, tool)
         \/ \E p \in Parts : CopyPart(c, p)
         \/ Compare(c) \/ Directory(c) \/ Meta(c) \/ Prune(c) \/ Write(c)
         \/ PutPrompt(c) \/ RemovePersona(c) \/ PutPersona(c) \/ Kill(c)

PersonaSpec == PersonaInit /\ [][PersonaNext]_PersonaVars

-----------------------------------------------------------------------------
(* Properties *)

\* Neither a restore nor create_agent overwrites a part that no snapshot holds, so
\* that either can be undone, though earlier calls died halfway.  Not when an edit or
\* another call crosses the call or the snapshot it relies on.
NothingLost == ~lost

\* A restore that nothing crosses ends with what its target held when it was asked
\* for, however old the target and however many its own snapshot prunes.
RestoredWhole == ~missed
=============================================================================
