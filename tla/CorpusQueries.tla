--------------------------- MODULE CorpusQueries ---------------------------
(***************************************************************************)
(* Queries against the corpus.  A replica keeps the chunks of the active   *)
(* generation in memory and loads them again when the pointer has moved;   *)
(* the load reads the store call by call, without a transaction.  A query  *)
(* notes the generation, searches memory and store, and answers only when  *)
(* the generation is still the same.  The threads of a replica share the   *)
(* index, and nothing locks it.                                            *)
(***************************************************************************)
EXTENDS CorpusGenerations

CONSTANTS
  Thread,     \* requests of this replica
  Troubles,   \* bound: failed calls
  None

VARIABLES
  index,      \* _chunks, _loaded_corpus_revision, _loaded_generation_id
  queries,    \* where each request is, and what it has read
  troubles

queryVars == <<index, queries, troubles>>
vars == <<corpusVars, queryVars>>

Reload == {"clear", "revision", "generation", "active", "chunks", "publish", "verify"}
Place == {"idle", "refresh", "snapshot", "search", "keyword", "compare", "answered", "stored"} \cup Reload
Number == 0 .. Generations

TypeOK ==
  /\ CorpusTypeOK
  /\ index \in [chunks : SUBSET Id, revision : Number \cup {None}, generation : Number \cup {None}]
  /\ queries \in [Thread -> [at : Place, next : Place, noted : Number, revision : Number, generation : Number,
                             active : SUBSET Id, dense : SUBSET Id, keyword : SUBSET Id]]
  /\ troubles \in 0 .. Troubles

Idle == [at |-> "idle", next |-> "idle", noted |-> 0, revision |-> 0, generation |-> 0,
         active |-> {}, dense |-> {}, keyword |-> {}]

QueryInit ==
  /\ Init
  /\ index = [chunks |-> {}, revision |-> 0, generation |-> 0]
  /\ queries = [t \in Thread |-> Idle]
  /\ troubles = 0

-----------------------------------------------------------------------------

Active == Ids(ActiveIn(revisions))
At(t, place) == queries[t].at = place
Sets(t, query) == queries' = [queries EXCEPT ![t] = query]
Goes(t, place) == Sets(t, [queries[t] EXCEPT !.at = place])
\* Refreshes the index, and goes on at place.
Refreshing(t, query, place) == Sets(t, [query EXCEPT !.at = "refresh", !.next = place])

Ask(t) ==
  /\ At(t, "idle")
  /\ Refreshing(t, Idle, "snapshot")
  /\ UNCHANGED <<corpusVars, index, troubles>>

\* An ingestion of this replica: the transaction, then the load of what it published.
Store(t, d) ==
  /\ At(t, "idle")
  /\ Ingest(d)
  /\ Sets(t, [Idle EXCEPT !.at = "clear", !.next = "stored"])
  /\ UNCHANGED <<index, troubles>>

\* _refresh_if_changed
Changed == index.revision # pointer \/ index.generation # pointer

Refresh(t) ==
  /\ At(t, "refresh")
  /\ Goes(t, IF Changed THEN "clear" ELSE queries[t].next)
  /\ UNCHANGED <<corpusVars, index, troubles>>

\* _reload_in_memory: the old generation goes first.
Clear(t) ==
  /\ At(t, "clear")
  /\ index' = [index EXCEPT !.chunks = {}, !.generation = None]
  /\ Goes(t, "revision")
  /\ UNCHANGED <<corpusVars, troubles>>

ReadRevision(t) ==
  /\ At(t, "revision")
  /\ Sets(t, [queries[t] EXCEPT !.at = "generation", !.revision = pointer])
  /\ UNCHANGED <<corpusVars, index, troubles>>

ReadGeneration(t) ==
  /\ At(t, "generation")
  /\ Sets(t, [queries[t] EXCEPT !.at = "active", !.generation = pointer])
  /\ UNCHANGED <<corpusVars, index, troubles>>

ReadActive(t) ==
  /\ At(t, "active")
  /\ Sets(t, [queries[t] EXCEPT !.at = "chunks", !.active = Active])
  /\ UNCHANGED <<corpusVars, index, troubles>>

\* The members of the generation are the active revisions, and each has all its chunks.
ReadChunks(t) ==
  /\ At(t, "chunks")
  /\ IF members[queries[t].generation] = queries[t].active /\ Active = queries[t].active
       THEN Goes(t, "publish")
       ELSE Sets(t, Idle)
  /\ UNCHANGED <<corpusVars, index, troubles>>

LoadChunks(t) ==
  /\ At(t, "publish")
  /\ index' = [index EXCEPT !.chunks = queries[t].active]
  /\ Goes(t, "verify")
  /\ UNCHANGED <<corpusVars, troubles>>

\* The locals of the load end with it.
Loaded(query) == [query EXCEPT !.at = query.next, !.revision = 0, !.generation = 0, !.active = {}]

\* A revision that moved during the load makes it fail, and the next request load again.
Verify(t) ==
  /\ At(t, "verify")
  /\ index' = [index EXCEPT !.revision = IF pointer = queries[t].revision THEN pointer ELSE None,
                            !.generation = queries[t].generation]
  /\ IF pointer = queries[t].revision THEN Sets(t, Loaded(queries[t])) ELSE Sets(t, Idle)
  /\ UNCHANGED <<corpusVars, troubles>>

\* get_generation_snapshot, before and after the retrieval.
Note(t) ==
  /\ At(t, "snapshot")
  /\ Refreshing(t, [queries[t] EXCEPT !.noted = pointer], "search")
  /\ UNCHANGED <<corpusVars, index, troubles>>

\* The dense retriever searches memory, the keyword retriever reads the store.
Search(t) ==
  /\ At(t, "search")
  /\ Sets(t, [queries[t] EXCEPT !.at = "keyword", !.dense = index.chunks])
  /\ UNCHANGED <<corpusVars, index, troubles>>

Keyword(t) ==
  /\ At(t, "keyword")
  /\ Refreshing(t, [queries[t] EXCEPT !.keyword = Active], "compare")
  /\ UNCHANGED <<corpusVars, index, troubles>>

\* Mutant of Same: evidence is not bound to the generation noted first.
SameAsLoaded(t) == index.generation = pointer

\* _same_generation
Same(t) == queries[t].noted = pointer

\* corpus_changed_during_retrieval: the evidence is discarded.
Compare(t) ==
  /\ At(t, "compare")
  /\ IF Same(t) THEN Goes(t, "answered") ELSE Sets(t, Idle)
  /\ UNCHANGED <<corpusVars, index, troubles>>

Finish(t) ==
  /\ queries[t].at \in {"answered", "stored"}
  /\ Sets(t, Idle)
  /\ UNCHANGED <<corpusVars, index, troubles>>

\* A call to the database fails: a query abstains, an ingestion is answered with an error.
CallFails(t) ==
  /\ queries[t].at \in Place \ {"idle", "clear", "publish", "search", "answered", "stored"}
  /\ troubles < Troubles /\ troubles' = troubles + 1
  /\ Sets(t, Idle)
  /\ UNCHANGED <<corpusVars, index>>

\* The other replicas ingest too; deletions and metadata never load the index.
OtherRequest ==
  /\ Change
  /\ UNCHANGED queryVars

Next ==
  \/ OtherRequest
  \/ \E t \in Thread :
       \/ Ask(t) \/ Refresh(t) \/ Clear(t) \/ ReadRevision(t) \/ ReadGeneration(t) \/ ReadActive(t)
       \/ ReadChunks(t) \/ LoadChunks(t) \/ Verify(t) \/ Note(t) \/ Search(t) \/ Keyword(t)
       \/ Compare(t) \/ Finish(t) \/ CallFails(t)
       \/ \E d \in Document : Store(t, d)

Spec == QueryInit /\ [][Next]_vars

-----------------------------------------------------------------------------
(* Properties.                                                             *)

\* An answer names a generation of the corpus, and all its evidence, from memory and from the
\* store, was searched in exactly that generation.
EvidenceIsOfItsGeneration ==
  \A t \in Thread : At(t, "answered") =>
    /\ queries[t].dense = members[queries[t].noted]
    /\ queries[t].keyword = members[queries[t].noted]
=============================================================================
