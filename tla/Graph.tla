------------------------------- MODULE Graph -------------------------------
(***************************************************************************)
(* The knowledge graph of memory (lib/graph): one SQLite file, where each  *)
(* write is one BEGIN IMMEDIATE transaction and therefore one step here.   *)
(* A memory.write takes two of them (find the subject, add the row), the   *)
(* entity dedup takes one for its scan and one per pair, and the nightly   *)
(* consolidation one per pass; everything interleaves between them.        *)
(*                                                                         *)
(* Abstracted: the embedding vectors (which texts look alike is Alike,     *)
(* which entities look alike is any choice), the relation of an edge, the  *)
(* clocks (what is old enough is any choice), the audit rows.              *)
(***************************************************************************)
EXTENDS Naturals, Sequences, FiniteSets, SequencesExt, FiniteSetsExt

CONSTANTS Names,     \* what entities may be called
          Texts,     \* what observations may say
          Episodes,  \* summaries of yesterday's conversations
          Alike,     \* sets of two texts whose embeddings are close
          MaxObs, MaxEnts, MaxOps

Kinds == {"thing", "topic"}

VARIABLES ents,     \* rows of entities: name, kind, aliases, at
          obs,      \* rows of observations; there = FALSE once deleted
          edges,    \* <<src, dst>>
          writer,   \* a memory.write between its two transactions
          pairs,    \* the pairs a dedup run has still to merge
          night,    \* pass the nightly run is at; 0 when it does not run
          draft,    \* the episode the nightly run had scored, or "none"
          told,     \* the row the last memory.write answered, 0 otherwise
          ops       \* calls left

vars == <<ents, obs, edges, writer, pairs, night, draft, told, ops>>

NoWriter == [text |-> "none", ent |-> 0]

Init == /\ ents = <<>>
        /\ obs = <<>>
        /\ edges = {}
        /\ writer = NoWriter
        /\ pairs = <<>>
        /\ night = 0
        /\ draft = "none"
        /\ told = 0
        /\ ops = MaxOps

---------------------------------------------------------------------------
\* Entities.

Living(E) == {e \in DOMAIN E : E[e].at = "live"}

First(S) == IF S = {} THEN 0 ELSE Min(S)

\* By name first, by alias when no living entity has the name.
Named(E, n, K) == {e \in Living(E) : E[e].name = n /\ E[e].kind \in K}
Aliased(E, n, K) == {e \in Living(E) : n \in E[e].aliases /\ E[e].kind \in K}
Find(E, n, K) == IF Named(E, n, K) # {} THEN First(Named(E, n, K))
                                        ELSE First(Aliased(E, n, K))

\* Find it, bring a soft-deleted one back, or insert it.
Entity(E, n, k, A) ==
  LET found == Find(E, n, {k})
      gone  == {e \in DOMAIN E : E[e].name = n /\ E[e].kind = k /\ E[e].at = "archived"}
      id    == IF found # 0 THEN found ELSE First(gone)
  IN IF id # 0
     THEN [id |-> id, ents |-> [E EXCEPT ![id].at = "live",
                                         ![id].aliases = @ \union (A \ {n})]]
     ELSE [id |-> Len(E) + 1,
           ents |-> Append(E, [name |-> n, kind |-> k, aliases |-> A \ {n}, at |-> "live"])]

\* A name resolves over every kind, and is created as a thing if need be.
ResolveOrCreate(E, n) ==
  LET found == Find(E, n, Kinds)
  IN IF found # 0 THEN [id |-> found, ents |-> E] ELSE Entity(E, n, "thing", {})

\* An id resolves only while its row is not archived.
ById_Blind(E, e) == e \in DOMAIN E
ById(E, e) == e \in Living(E)

---------------------------------------------------------------------------
\* Observations.

Unarchived(o) == obs[o].there /\ ~ obs[o].archived
Live(o) == Unarchived(o) /\ obs[o].by = 0

Row(t, k, e) == [text |-> t, kind |-> k, ent |-> e, archived |-> FALSE,
                 by |-> 0, faded |-> FALSE, there |-> TRUE]

\* The duplicate test of add_observation: superseded rows count too.
Same(t, k, e) == {o \in DOMAIN obs : /\ Unarchived(o)
                                     /\ obs[o].kind = k /\ obs[o].ent = e
                                     /\ obs[o].text = t}

Call == /\ ops > 0
        /\ ops' = ops - 1

Quiet == told' = 0

---------------------------------------------------------------------------
\* The tools.

\* graph.add_entity
AddEntity(n, k, A) ==
  LET r == Entity(ents, n, k, A)
  IN /\ Call /\ Quiet
     /\ Len(r.ents) <= MaxEnts
     /\ ents' = r.ents
     /\ UNCHANGED <<obs, edges, writer, pairs, night, draft>>

\* memory.write, first transaction: the subject, found over every kind or
\* added as a topic.
WriteFinds(t, n) ==
  LET found == Find(ents, n, Kinds)
      r == IF found # 0 THEN [id |-> found, ents |-> ents] ELSE Entity(ents, n, "topic", {})
  IN /\ Call /\ Quiet
     /\ writer = NoWriter
     /\ Len(r.ents) <= MaxEnts
     /\ ents' = r.ents
     /\ writer' = [text |-> t, ent |-> r.id]
     /\ UNCHANGED <<obs, edges, pairs, night, draft>>

\* Second transaction: the row, unless the entity went meanwhile (KeyError)
\* or one with this text is there already.
WriteLost ==
  /\ writer # NoWriter
  /\ ~ ById(ents, writer.ent)
  /\ writer' = NoWriter
  /\ Quiet
  /\ UNCHANGED <<ents, obs, edges, pairs, night, draft, ops>>

WriteRow ==
  /\ writer # NoWriter
  /\ ById(ents, writer.ent)
  /\ LET same == Same(writer.text, "fact", writer.ent)
     IN IF same # {}
        THEN /\ told' = First(same)
             /\ UNCHANGED obs
        ELSE /\ Len(obs) < MaxObs
             /\ obs' = Append(obs, Row(writer.text, "fact", writer.ent))
             /\ told' = Len(obs')
  /\ writer' = NoWriter
  /\ UNCHANGED <<ents, edges, pairs, night, draft, ops>>

\* memory.forget
Forget(o) ==
  /\ Call /\ Quiet
  /\ Unarchived(o)
  /\ obs' = [obs EXCEPT ![o].archived = TRUE]
  /\ UNCHANGED <<ents, edges, writer, pairs, night, draft>>

\* memory.supersede
Supersede(o, t) ==
  /\ Call /\ Quiet
  /\ Live(o)
  /\ Len(obs) < MaxObs
  /\ obs' = Append([obs EXCEPT ![o].by = Len(obs) + 1], Row(t, obs[o].kind, obs[o].ent))
  /\ UNCHANGED <<ents, edges, writer, pairs, night, draft>>

\* graph.delete_entity: its edges go, its observations stay.
EdgesOf(e) == {g \in edges : g[1] = e \/ g[2] = e}

DeleteEntity(n) ==
  LET e == Find(ents, n, Kinds)
  IN /\ Call /\ Quiet
     /\ e # 0
     /\ edges' = edges \ EdgesOf(e)
     /\ ents' = [ents EXCEPT ![e].at = "archived"]
     /\ UNCHANGED <<obs, writer, pairs, night, draft>>

\* graph.add_edge, which creates what it cannot find; a self-edge rolls
\* everything back.
AddEdge(m, n) ==
  LET s == ResolveOrCreate(ents, m)
      d == ResolveOrCreate(s.ents, n)
  IN /\ Call /\ Quiet
     /\ s.id # d.id
     /\ Len(d.ents) <= MaxEnts
     /\ ents' = d.ents
     /\ edges' = edges \union {<<s.id, d.id>>}
     /\ UNCHANGED <<obs, writer, pairs, night, draft>>

\* graph.delete_edge
DeleteEdge(m, n) ==
  LET g == <<Find(ents, m, Kinds), Find(ents, n, Kinds)>>
  IN /\ Call /\ Quiet
     /\ g \in edges
     /\ edges' = edges \ {g}
     /\ UNCHANGED <<ents, obs, writer, pairs, night, draft>>

\* merge_entities: the observations, the name, the aliases and the edges of
\* s move to d; an edge that would be a self-edge or a duplicate is dropped,
\* and s gives its name free.
AliasesMoved_Not(s, d) == ents[s].aliases
AliasesMoved(s, d) == ents[s].aliases \union ({ents[s].name} \ {ents[d].name})

EdgesMoved(s, d) ==
  LET to(e) == IF e = s THEN d ELSE e
  IN {g \in {<<to(h[1]), to(h[2])>> : h \in edges} : g[1] # g[2]}

Merge(s, d) ==
  /\ ents' = [ents EXCEPT ![d].aliases = @ \union AliasesMoved(s, d),
                          ![s].aliases = {},
                          ![s].at = "merged"]
  /\ obs' = [o \in DOMAIN obs |-> IF obs[o].ent = s THEN [obs[o] EXCEPT !.ent = d] ELSE obs[o]]
  /\ edges' = EdgesMoved(s, d)

\* graph.merge_entities
MergeEntities(s, d) ==
  /\ Call /\ Quiet
  /\ ById(ents, s) /\ ById(ents, d) /\ s # d
  /\ Merge(s, d)
  /\ UNCHANGED <<writer, pairs, night, draft>>

---------------------------------------------------------------------------
\* entity_dedup.run: one scan, then one merge after another by id.

DedupScan(P) ==
  /\ Call /\ Quiet
  /\ pairs = <<>>
  /\ pairs' = SetToSeq(P)
  /\ UNCHANGED <<ents, obs, edges, writer, night, draft>>

\* Two living entities of one kind, each in at most one pair.
Pairings ==
  LET two == {p \in Living(ents) \X Living(ents) :
                p[1] # p[2] /\ ents[p[1]].kind = ents[p[2]].kind}
  IN {{p} : p \in two}
     \union {{x[1], x[2]} : x \in {y \in two \X two :
               {y[1][1], y[1][2]} \intersect {y[2][1], y[2][2]} = {}}}

\* A pair of which one went since the scan is a KeyError and ends the run.
DedupMerges ==
  /\ pairs # <<>>
  /\ Quiet
  /\ LET s == Head(pairs)[1]
         d == Head(pairs)[2]
     IN IF ById(ents, s) /\ ById(ents, d)
        THEN Merge(s, d) /\ pairs' = Tail(pairs)
        ELSE pairs' = <<>> /\ UNCHANGED <<ents, obs, edges>>
  /\ UNCHANGED <<writer, night, draft, ops>>

---------------------------------------------------------------------------
\* consolidate.run: the passes in order; one that raises does not stop the
\* next.  1 episodes, 2 decay, 3 prune, 4 dedup, 5 entities.

Night == /\ night = 0
         /\ night' = 1
         /\ Call /\ Quiet
         /\ UNCHANGED <<ents, obs, edges, writer, pairs, draft>>

NextPass == night' = IF night = 5 THEN 0 ELSE night + 1

PassRaises == /\ night # 0
              /\ NextPass /\ Quiet
              /\ draft' = "none"
              /\ UNCHANGED <<ents, obs, edges, writer, pairs, ops>>

\* An episode is looked up in one transaction, scored by a model, and added
\* in another.
EpisodeKnown(t) == \E o \in DOMAIN obs : /\ obs[o].there /\ obs[o].kind = "episode"
                                         /\ obs[o].text = t

EpisodeScored(t) ==
  /\ night = 1 /\ draft = "none"
  /\ ~ EpisodeKnown(t)
  /\ draft' = t
  /\ Quiet
  /\ UNCHANGED <<ents, obs, edges, writer, pairs, night, ops>>

EpisodeAdded ==
  /\ night = 1 /\ draft # "none"
  /\ Len(obs) < MaxObs
  /\ obs' = Append(obs, Row(draft, "episode", 0))
  /\ draft' = "none"
  /\ Quiet
  /\ UNCHANGED <<ents, edges, writer, pairs, night, ops>>

EpisodesDone ==
  /\ night = 1 /\ draft = "none"
  /\ NextPass /\ Quiet
  /\ UNCHANGED <<ents, obs, edges, writer, pairs, draft, ops>>

EpisodeRows == {o \in DOMAIN obs : obs[o].there /\ obs[o].kind = "episode"}

\* Importance decays with age: some of the episodes fall under the cutoff.
Decay(S) ==
  /\ night = 2
  /\ S \subseteq {o \in EpisodeRows : Unarchived(o)}
  /\ obs' = [o \in DOMAIN obs |-> IF o \in S THEN [obs[o] EXCEPT !.faded = TRUE] ELSE obs[o]]
  /\ NextPass /\ Quiet
  /\ UNCHANGED <<ents, edges, writer, pairs, draft, ops>>

\* Faded episodes past their grace are archived; archived ones past their
\* retention are deleted in order of id, but for one a row still points to.
Kept_None(o, D) == FALSE
Kept(o, D) == \E r \in DOMAIN obs \ D : obs[r].there /\ obs[r].by = o

Deleted(due) == FoldLeft(LAMBDA D, o : IF o \in due /\ ~ Kept(o, D) THEN D \union {o} ELSE D,
                         {}, [o \in DOMAIN obs |-> o])

Prune(faint, due) ==
  /\ night = 3
  /\ faint \subseteq {o \in EpisodeRows : Unarchived(o) /\ obs[o].faded}
  /\ due \subseteq {o \in EpisodeRows : obs[o].archived}
  /\ LET gone == Deleted(due)
     IN obs' = [o \in DOMAIN obs |->
                  [obs[o] EXCEPT !.archived = @ \/ o \in faint, !.there = @ /\ o \notin gone]]
  /\ NextPass /\ Quiet
  /\ UNCHANGED <<ents, edges, writer, pairs, draft, ops>>

\* Rows of one kind and entity that look alike: the weaker is superseded by
\* the other.  An episode that faded is weaker; at a tie the younger loses.
LookAlike(o, p) == /\ obs[o].kind = obs[p].kind /\ obs[o].ent = obs[p].ent
                   /\ \/ obs[o].text = obs[p].text
                      \/ {obs[o].text, obs[p].text} \in Alike

Wins(o, p) == \/ ~ obs[o].faded /\ obs[p].faded
              \/ obs[o].faded = obs[p].faded /\ o < p

\* The pairs in order; one of which a row has lost already is passed over.
Losers ==
  LET rows == {o \in DOMAIN obs : Live(o)}
      couples == {c \in rows \X rows : c[1] < c[2] /\ LookAlike(c[1], c[2])}
      order == SetToSortSeq(couples,
                 LAMBDA x, y : x[1] < y[1] \/ (x[1] = y[1] /\ x[2] < y[2]))
      lose(c) == IF Wins(c[1], c[2]) THEN [who |-> c[2], to |-> c[1]]
                                     ELSE [who |-> c[1], to |-> c[2]]
  IN FoldLeft(LAMBDA L, c :
                IF \E l \in L : l.who \in {c[1], c[2]} THEN L ELSE L \union {lose(c)},
              {}, order)

Dedup ==
  /\ night = 4
  /\ obs' = [o \in DOMAIN obs |->
               IF \E l \in Losers : l.who = o
               THEN [obs[o] EXCEPT !.by = (CHOOSE l \in Losers : l.who = o).to]
               ELSE obs[o]]
  /\ NextPass /\ Quiet
  /\ UNCHANGED <<ents, edges, writer, pairs, draft, ops>>

\* An entity with no live row and no edge, unseen for long, is archived.
Idle_Edged(e) == ~ \E o \in DOMAIN obs : Live(o) /\ obs[o].ent = e
Idle(e) == ~ (\E o \in DOMAIN obs : Live(o) /\ obs[o].ent = e) /\ EdgesOf(e) = {}

Upkeep(S) ==
  /\ night = 5
  /\ S \subseteq {e \in Living(ents) : Idle(e)}
  /\ ents' = [e \in DOMAIN ents |-> IF e \in S THEN [ents[e] EXCEPT !.at = "archived"] ELSE ents[e]]
  /\ NextPass /\ Quiet
  /\ UNCHANGED <<obs, edges, writer, pairs, draft, ops>>

---------------------------------------------------------------------------

GraphTools ==
  \/ \E n \in Names, k \in Kinds, A \in SUBSET Names : AddEntity(n, k, A)
  \/ \E t \in Texts, n \in Names : WriteFinds(t, n)
  \/ WriteLost
  \/ WriteRow
  \/ \E o \in DOMAIN obs : Forget(o)
  \/ \E o \in DOMAIN obs, t \in Texts : Supersede(o, t)
  \/ \E n \in Names : DeleteEntity(n)
  \/ \E m, n \in Names : AddEdge(m, n)
  \/ \E m, n \in Names : DeleteEdge(m, n)
  \/ \E s, d \in DOMAIN ents : MergeEntities(s, d)

GraphDedup == (\E P \in Pairings : DedupScan(P)) \/ DedupMerges

GraphNight ==
  \/ Night
  \/ PassRaises
  \/ \E t \in Episodes : EpisodeScored(t)
  \/ EpisodeAdded
  \/ EpisodesDone
  \/ \E S \in SUBSET DOMAIN obs : Decay(S)
  \/ \E S, D \in SUBSET DOMAIN obs : Prune(S, D)
  \/ Dedup
  \/ \E S \in SUBSET DOMAIN ents : Upkeep(S)

GraphNext == GraphTools \/ GraphDedup \/ GraphNight

Spec == Init /\ [][GraphNext]_vars

---------------------------------------------------------------------------

\* Where a row has been replaced, its replacements lead to a row that is
\* still in the file and not itself replaced: nothing is superseded in a
\* circle or by a deleted row, whatever supersedes, forgets, decay, prunes
\* and dedup passes follow each other.
ChainsEnd ==
  LET after[k \in 0..Len(obs)] ==
        [o \in DOMAIN obs |-> IF k = 0 \/ obs[o].by = 0 THEN o ELSE after[k - 1][obs[o].by]]
  IN \A o \in DOMAIN obs : obs[o].there =>
       LET last == after[Len(obs)][o] IN obs[last].there /\ obs[last].by = 0

\* No observation hangs under an entity that was merged away, also not one
\* whose memory.write found the entity before the merge.
NothingUnderMerged ==
  \A o \in DOMAIN obs : obs[o].ent # 0 => ents[obs[o].ent].at # "merged"

\* Every edge joins two different living entities.
EdgesJoinLiving ==
  \A g \in edges : g[1] # g[2] /\ {g[1], g[2]} \subseteq Living(ents)

\* A name that resolves keeps resolving, through merges of merges, until its
\* entity is deleted or ages out of the graph.
NamesKept ==
  [][\A n \in Names : Find(ents, n, Kinds) # 0 /\ Find(ents', n, Kinds) = 0 =>
        \E e \in DOMAIN ents : ents[e].at = "live" /\ ents'[e].at = "archived"]_vars

\* What memory.write has just answered to have stored is a row that recall
\* returns.
\* Does not hold: see the README.
WrittenIsLive == told # 0 => Live(told)

=============================================================================
