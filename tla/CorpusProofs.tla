--------------------------- MODULE CorpusProofs ---------------------------
(***************************************************************************)
(* Proofs about the document store and the queries over it, for any number *)
(* of documents, editors and generations: what was removed stays removed,  *)
(* and the evidence of an answer is of the generation it names as long as  *)
(* a replica serves one request at a time.                                 *)
(***************************************************************************)
EXTENDS CorpusQueries, FiniteSetTheorems, TLAPS

-----------------------------------------------------------------------------
(* The store.                                                              *)

AnyRevision == [id : Id, document : Document, version : Nat, content : Id,
                state : {"ACTIVE", "SUPERSEDED", "SOFT_DELETED"}]

\* What is published is what is active.
Published ==
  /\ revisions \subseteq AnyRevision
  /\ members \in [Number -> SUBSET Id]
  /\ pointer \in Number
  /\ members[pointer] = Active

\* What later states keep of a generation.
Grows ==
  /\ pointer <= pointer'
  /\ \A g \in 0 .. pointer : members'[g] = members[g]
  /\ pointer' = pointer => revisions' = revisions

\* Moving revisions to another state keeps their type.
LEMMA MovedTyped ==
  ASSUME NEW revs, NEW state \in {"SUPERSEDED", "SOFT_DELETED"}, revisions \subseteq AnyRevision,
         revs \subseteq revisions
  PROVE  Moved(revs, state) \subseteq AnyRevision
  BY DEF Moved, AnyRevision

\* The number of the latest version is a number.
LEMMA LatestTyped ==
  ASSUME Generations \in Nat, NEW d
  PROVE  Latest(d) \in Nat
<1>. DEFINE S == {v \in Id : \E r \in Of(d) : v <= r.version}
<1>1. IsFiniteSet(Id)
  BY FS_Interval DEF Id
<1>2. IsFiniteSet(S)
  BY <1>1, FS_Subset
<1>. QED
  BY <1>2, FS_CardinalityType DEF Latest

\* A publication keeps what is published, and the generations before it.
LEMMA PublishKeeps ==
  ASSUME Generations \in Nat, Published, NEW revs \in SUBSET AnyRevision, Publish(revs)
  PROVE  Published' /\ Grows
<1>1. pointer' = pointer + 1 /\ pointer' \in Number /\ revisions' = revs
  BY DEF Publish, Published, Number
<1>2. Ids(ActiveIn(revs)) \in SUBSET Id
  BY DEF Ids, ActiveIn, AnyRevision
<1>3. members' = [members EXCEPT ![pointer + 1] = Ids(ActiveIn(revs))]
  BY DEF Publish
<1>4. members' \in [Number -> SUBSET Id] /\ members'[pointer'] = Ids(ActiveIn(revs))
  BY <1>1, <1>2, <1>3 DEF Published
<1>5. Published'
  BY <1>1, <1>4 DEF Published, Active
<1>6. \A g \in 0 .. pointer : members'[g] = members[g]
  BY <1>3 DEF Published, Number
<1>. QED
  BY <1>1, <1>5, <1>6 DEF Grows, Published, Number

\* Every change of a document keeps what is published, and the generations before it.
LEMMA ChangeKeeps ==
  ASSUME Generations \in Nat, Published, Change
  PROVE  Published' /\ Grows
<1>. DEFINE Goal == Published' /\ Grows
<1>1. ASSUME NEW d \in Document, Ingest(d) PROVE Goal
  <2>. DEFINE revs == Moved(ActiveIn(Of(d)), "SUPERSEDED") \cup {Written(d, Latest(d) + 1, pointer + 1)}
  <2>1. pointer + 1 \in Id
    BY <1>1 DEF Ingest, Publish, Published, Id, Number
  <2>2. Written(d, Latest(d) + 1, pointer + 1) \in AnyRevision
    BY <2>1, LatestTyped DEF Written, AnyRevision
  <2>3. Moved(ActiveIn(Of(d)), "SUPERSEDED") \subseteq AnyRevision
    BY MovedTyped DEF ActiveIn, Of, Published
  <2>4. revs \in SUBSET AnyRevision /\ Publish(revs)
    BY <1>1, <2>2, <2>3 DEF Ingest
  <2>. QED
    BY <2>4, PublishKeeps
<1>2. ASSUME NEW e \in Editor, SoftDelete(e) PROVE Goal
  <2>1. Moved(Seen(e), "SOFT_DELETED") \in SUBSET AnyRevision
    BY MovedTyped DEF Seen, Of, Published
  <2>. QED
    BY <1>2, <2>1, PublishKeeps DEF SoftDelete
<1>3. ASSUME NEW e \in Editor, HardDelete(e) PROVE Goal
  <2>1. revisions \ Of(editing[e].document) \in SUBSET AnyRevision
    BY DEF Published
  <2>. QED
    BY <1>3, <2>1, PublishKeeps DEF HardDelete
<1>4. ASSUME NEW e \in Editor, UpdateMetadata(e) PROVE Goal
  <2>1. PICK old \in Seen(e) :
          Publish(Moved({old}, "SUPERSEDED") \cup {Written(old.document, old.version + 1, old.content)})
    BY <1>4 DEF UpdateMetadata
  <2>2. old \in revisions /\ old \in AnyRevision
    BY DEF Seen, Of, Published
  <2>3. pointer + 1 \in Id
    BY <2>1 DEF Publish, Published, Id, Number
  <2>4. Written(old.document, old.version + 1, old.content) \in AnyRevision
    BY <2>2, <2>3 DEF Written, AnyRevision
  <2>5. Moved({old}, "SUPERSEDED") \subseteq AnyRevision
    BY <2>2, MovedTyped DEF Published
  <2>. QED
    BY <2>1, <2>4, <2>5, PublishKeeps
<1>5. ASSUME NEW e \in Editor, (\E kind \in {"soft", "hard", "update"} : Look(e, kind)) \/ Refused(e) PROVE Goal
  BY <1>5 DEF Look, Refused, Published, Grows, Active, Number
<1>. QED
  BY <1>1, <1>2, <1>3, <1>4, <1>5 DEF Change, Edit

\* What stays active when revisions are moved was active.
LEMMA MovedContents ==
  ASSUME revisions \subseteq AnyRevision, NEW revs, revs \subseteq revisions,
         NEW state \in {"SUPERSEDED", "SOFT_DELETED"}, NEW r \in Moved(revs, state), r.state = "ACTIVE"
  PROVE  r.content \in Contents
<1>1. r \in revisions
  <2>1. ASSUME NEW old \in revs, r = [old EXCEPT !.state = state] PROVE FALSE
    BY <2>1 DEF AnyRevision
  <2>. QED
    BY <2>1 DEF Moved
<1>. QED
  BY <1>1 DEF Contents, ActiveIn

\* A change makes no text active but that of its own ingestion.
LEMMA ChangeRevives ==
  ASSUME Published, Change
  PROVE  Contents' \subseteq Contents \cup {pointer'}
<1>. DEFINE Goal == Contents' \subseteq Contents \cup {pointer'}
<1>1. ASSUME NEW d \in Document, Ingest(d) PROVE Goal
  <2>. DEFINE moved == Moved(ActiveIn(Of(d)), "SUPERSEDED")
              new == Written(d, Latest(d) + 1, pointer + 1)
  <2>1. revisions' = moved \cup {new} /\ pointer' = pointer + 1
    BY <1>1 DEF Ingest, Publish
  <2>2. ASSUME NEW r \in moved, r.state = "ACTIVE" PROVE r.content \in Contents
    BY <2>2, MovedContents DEF Published, ActiveIn, Of
  <2>3. new.content = pointer'
    BY <2>1 DEF Written
  <2>4. Contents' = {r.content : r \in {s \in moved \cup {new} : s.state = "ACTIVE"}}
    BY <2>1 DEF Contents, ActiveIn
  <2>. QED
    BY <2>2, <2>3, <2>4
<1>2. ASSUME NEW e \in Editor, SoftDelete(e) PROVE Goal
  <2>. DEFINE moved == Moved(Seen(e), "SOFT_DELETED")
  <2>1. revisions' = moved
    BY <1>2 DEF SoftDelete, Publish
  <2>2. ASSUME NEW r \in moved, r.state = "ACTIVE" PROVE r.content \in Contents
    BY <2>2, MovedContents DEF Published, Seen, Of
  <2>3. Contents' = {r.content : r \in {s \in moved : s.state = "ACTIVE"}}
    BY <2>1 DEF Contents, ActiveIn
  <2>. QED
    BY <2>2, <2>3
<1>3. ASSUME NEW e \in Editor, HardDelete(e) PROVE Goal
  BY <1>3 DEF HardDelete, Publish, Contents, ActiveIn
<1>4. ASSUME NEW e \in Editor, UpdateMetadata(e) PROVE Goal
  <2>1. PICK old \in Seen(e) :
          Publish(Moved({old}, "SUPERSEDED") \cup {Written(old.document, old.version + 1, old.content)})
    BY <1>4 DEF UpdateMetadata
  <2>2. old \in revisions /\ old.state = "ACTIVE"
    BY <1>4 DEF UpdateMetadata, StillThere, Movable, Seen, Of
  <2>. DEFINE moved == Moved({old}, "SUPERSEDED")
              new == Written(old.document, old.version + 1, old.content)
  <2>3. revisions' = moved \cup {new}
    BY <2>1 DEF Publish
  <2>4. ASSUME NEW r \in moved, r.state = "ACTIVE" PROVE r.content \in Contents
    BY <2>2, <2>4, MovedContents DEF Published
  <2>5. new.content \in Contents
    BY <2>2 DEF Contents, ActiveIn, Written
  <2>6. Contents' = {r.content : r \in {s \in moved \cup {new} : s.state = "ACTIVE"}}
    BY <2>3 DEF Contents, ActiveIn
  <2>. QED
    BY <2>4, <2>5, <2>6
<1>5. ASSUME NEW e \in Editor, (\E kind \in {"soft", "hard", "update"} : Look(e, kind)) \/ Refused(e) PROVE Goal
  BY <1>5 DEF Look, Refused, Contents, ActiveIn
<1>. QED
  BY <1>1, <1>2, <1>3, <1>4, <1>5 DEF Change, Edit

\* The published generation holds exactly the active revisions at first, and after every change.
LEMMA PublishedAtFirst == Generations \in Nat /\ Init => Published
  BY DEF Init, Published, Number, Active, ActiveIn, Ids

LEMMA PublishedStays ==
  ASSUME Generations \in Nat, Published, [Change]_corpusVars
  PROVE  Published'
<1>1. CASE Change
  BY <1>1, ChangeKeeps
<1>2. CASE UNCHANGED corpusVars
  BY <1>2 DEF corpusVars, Published, Active
<1>. QED
  BY <1>1, <1>2

LEMMA PublishedHolds ==
  ASSUME Generations \in Nat
  PROVE  CorpusSpec => []Published
<1>1. Init => Published
  BY PublishedAtFirst
<1>2. Published /\ [Change]_corpusVars => Published'
  BY PublishedStays
<1>. QED
  BY <1>1, <1>2, PTL DEF CorpusSpec

LEMMA RevivesNothing ==
  ASSUME Published, [Change]_corpusVars
  PROVE  [revisions' # revisions => Contents' \subseteq Contents \cup {pointer'}]_corpusVars
  BY ChangeRevives

\* Only an ingestion makes text active, however deletions and changes of metadata overlap
\* with what they read before.
THEOREM RemovedIsNotRevived ==
  ASSUME Generations \in Nat
  PROVE  CorpusSpec => RemovedStaysRemoved
<1>1. Published /\ [Change]_corpusVars =>
        [revisions' # revisions => Contents' \subseteq Contents \cup {pointer'}]_corpusVars
  BY RevivesNothing
<1>. QED
  BY <1>1, PublishedHolds, PTL DEF CorpusSpec, RemovedStaysRemoved

\* The type of the store, with the versions of a document counted by the publications.
Numbered ==
  /\ CorpusTypeOK
  /\ \A r \in revisions : r.version <= pointer

\* A revision of the store, or one of those that a change moves, is no later than the pointer.
LEMMA MovedNumbered ==
  ASSUME Numbered, NEW revs, revs \subseteq revisions, NEW state \in {"SUPERSEDED", "SOFT_DELETED"},
         NEW r \in Moved(revs, state)
  PROVE  r \in Revision /\ r.version <= pointer
  BY DEF Numbered, CorpusTypeOK, Moved, Revision

\* The latest version of a document is no later than the pointer.
LEMMA LatestNumbered ==
  ASSUME Generations \in Nat, Numbered, NEW d
  PROVE  Latest(d) \in 0 .. pointer
<1>. DEFINE S == {v \in Id : \E r \in Of(d) : v <= r.version}
<1>1. pointer \in Nat /\ \A r \in revisions : r.version \in Nat /\ r.version <= pointer
  BY DEF Numbered, CorpusTypeOK, Revision, Id
<1>2. S \subseteq 1 .. pointer
  BY <1>1 DEF Of, Id
<1>3. IsFiniteSet(1 .. pointer) /\ Cardinality(1 .. pointer) = pointer
  BY <1>1, FS_Interval
<1>4. Cardinality(S) <= pointer /\ IsFiniteSet(S)
  BY <1>2, <1>3, FS_Subset
<1>. QED
  BY <1>1, <1>4, FS_CardinalityType DEF Latest

\* A publication of such revisions and of one new version keeps the type.
LEMMA PublishNumbers ==
  ASSUME Generations \in Nat, Numbered, NEW revs, Publish(revs), editing' \in [Editor -> [
           kind : {"none", "soft", "hard", "update"}, document : Document, seen : SUBSET Id]],
         \A r \in revs : r \in Revision /\ r.version <= pointer + 1
  PROVE  Numbered'
<1>1. pointer' = pointer + 1 /\ pointer' \in 0 .. Generations /\ revisions' = revs
  BY DEF Publish, Numbered, CorpusTypeOK
<1>2. Ids(ActiveIn(revs)) \in SUBSET Id
  BY DEF Ids, ActiveIn, Revision
<1>3. members' \in [0 .. Generations -> SUBSET Id]
  BY <1>2 DEF Publish, Numbered, CorpusTypeOK
<1>. QED
  BY <1>1, <1>3 DEF Numbered, CorpusTypeOK, Revision, Id

LEMMA ChangeNumbers ==
  ASSUME Generations \in Nat, Document # {}, Numbered, Change
  PROVE  Numbered'
<1>. DEFINE Editing == [Editor -> [kind : {"none", "soft", "hard", "update"}, document : Document, seen : SUBSET Id]]
<1>1. \A e \in Editor : Leaves(e) => editing' \in Editing
  <2>1. Nothing \in [kind : {"none", "soft", "hard", "update"}, document : Document, seen : SUBSET Id]
    BY DEF Nothing
  <2>. QED
    BY <2>1 DEF Leaves, Numbered, CorpusTypeOK
<1>2. pointer \in Nat /\ \A r \in revisions : r \in Revision /\ r.version \in Nat /\ r.version <= pointer
  BY DEF Numbered, CorpusTypeOK, Revision, Id
<1>3. ASSUME NEW d \in Document, Ingest(d) PROVE Numbered'
  <2>. DEFINE moved == Moved(ActiveIn(Of(d)), "SUPERSEDED")
              new == Written(d, Latest(d) + 1, pointer + 1)
  <2>1. ActiveIn(Of(d)) \subseteq revisions
    BY DEF ActiveIn, Of
  <2>2. \A r \in moved : r \in Revision /\ r.version <= pointer
    BY <2>1, MovedNumbered
  <2>3. Latest(d) + 1 \in 1 .. pointer + 1 /\ pointer + 1 \in Id
    BY <1>2, <1>3, LatestNumbered DEF Ingest, Publish, Id
  <2>4. new \in Revision /\ new.version <= pointer + 1
    BY <1>2, <2>3 DEF Written, Revision, Id
  <2>5. editing' \in Editing /\ Publish(moved \cup {new})
    BY <1>3 DEF Ingest, Numbered, CorpusTypeOK
  <2>6. \A r \in moved \cup {new} : r \in Revision /\ r.version <= pointer + 1
    BY <1>2, <2>2, <2>4 DEF Revision, Id
  <2>. QED
    BY <2>5, <2>6, PublishNumbers
<1>4. ASSUME NEW e \in Editor, SoftDelete(e) PROVE Numbered'
  <2>1. Seen(e) \subseteq revisions
    BY DEF Seen, Of
  <2>2. \A r \in Moved(Seen(e), "SOFT_DELETED") : r \in Revision /\ r.version <= pointer + 1
    BY <1>2, <2>1, MovedNumbered DEF Revision, Id
  <2>. QED
    BY <1>1, <1>4, <2>2, PublishNumbers DEF SoftDelete
<1>5. ASSUME NEW e \in Editor, HardDelete(e) PROVE Numbered'
  <2>1. \A r \in revisions \ Of(editing[e].document) : r \in Revision /\ r.version <= pointer + 1
    BY <1>2
  <2>. QED
    BY <1>1, <1>5, <2>1, PublishNumbers DEF HardDelete
<1>6. ASSUME NEW e \in Editor, UpdateMetadata(e) PROVE Numbered'
  <2>1. PICK old \in Seen(e) :
          Publish(Moved({old}, "SUPERSEDED") \cup {Written(old.document, old.version + 1, old.content)})
    BY <1>6 DEF UpdateMetadata
  <2>. DEFINE moved == Moved({old}, "SUPERSEDED")
              new == Written(old.document, old.version + 1, old.content)
  <2>2. old \in revisions
    BY DEF Seen, Of
  <2>3. \A r \in moved : r \in Revision /\ r.version <= pointer
    BY <2>2, MovedNumbered
  <2>4. pointer + 1 \in Id /\ old.version + 1 \in 1 .. pointer + 1
    BY <1>2, <2>1, <2>2 DEF Publish, Id
  <2>5. new \in Revision /\ new.version <= pointer + 1
    BY <1>2, <2>2, <2>4 DEF Written, Revision, Id
  <2>6. \A r \in moved \cup {new} : r \in Revision /\ r.version <= pointer + 1
    BY <1>2, <2>3, <2>5 DEF Revision, Id
  <2>7. editing' \in Editing
    BY <1>1, <1>6 DEF UpdateMetadata
  <2>. QED
    BY <2>1, <2>6, <2>7, PublishNumbers
<1>7. ASSUME NEW e \in Editor, NEW kind \in {"soft", "hard", "update"}, Look(e, kind) PROVE Numbered'
  <2>1. PICK d \in Document, seen \in SUBSET revisions :
          editing' = [editing EXCEPT ![e] = [kind |-> kind, document |-> d, seen |-> Ids(seen)]]
    BY <1>7 DEF Look, Of, ActiveIn
  <2>2. Ids(seen) \in SUBSET Id
    BY <1>2, <2>1 DEF Ids, Revision
  <2>3. editing' \in Editing
    BY <2>1, <2>2 DEF Numbered, CorpusTypeOK
  <2>. QED
    BY <1>7, <2>3 DEF Look, Numbered, CorpusTypeOK, Revision, Id
<1>8. ASSUME NEW e \in Editor, Refused(e) PROVE Numbered'
  BY <1>1, <1>8 DEF Refused, Numbered, CorpusTypeOK, Revision, Id
<1>. QED
  BY <1>3, <1>4, <1>5, <1>6, <1>7, <1>8 DEF Change, Edit

LEMMA NumberedAtFirst == Generations \in Nat /\ Document # {} /\ Init => Numbered
  BY DEF Init, Numbered, CorpusTypeOK, Nothing, Id

LEMMA NumberedStays ==
  ASSUME Generations \in Nat, Document # {}, Numbered, [Change]_corpusVars
  PROVE  Numbered'
<1>1. CASE UNCHANGED corpusVars
  BY <1>1 DEF corpusVars, Numbered, CorpusTypeOK, Revision, Id
<1>. QED
  BY <1>1, ChangeNumbers

\* A text that is not active in a state where its generation was published is never active
\* again.
THEOREM RemovedForGood ==
  ASSUME Generations \in Nat, NEW c \in Id
  PROVE  CorpusSpec => [](c <= pointer /\ c \notin Contents => [](c \notin Contents))
<1>. DEFINE Gone == c <= pointer /\ c \notin Contents
<1>1. Published /\ Gone /\ [Change]_corpusVars => Gone'
  <2>. SUFFICES ASSUME Published, Gone, [Change]_corpusVars PROVE Gone'
    OBVIOUS
  <2>1. CASE Change
    <3>1. pointer <= pointer' /\ pointer' \in Number /\ pointer \in Number
      BY <2>1, ChangeKeeps DEF Grows, Published
    <3>2. revisions' = revisions \/ pointer' # pointer
      BY <2>1, ChangeKeeps DEF Grows
    <3>3. Contents' \subseteq Contents \cup {pointer'}
      BY <2>1, ChangeRevives
    <3>4. revisions' = revisions => Contents' = Contents
      BY DEF Contents, ActiveIn
    <3>. QED
      BY <3>1, <3>2, <3>3, <3>4 DEF Number, Id
  <2>2. CASE UNCHANGED corpusVars
    BY <2>2 DEF corpusVars, Contents, ActiveIn
  <2>. QED
    BY <2>1, <2>2
<1>2. Gone => c \notin Contents
  OBVIOUS
<1>. QED
  BY <1>1, <1>2, PublishedHolds, PTL DEF CorpusSpec
-----------------------------------------------------------------------------
(* Queries.                                                                *)

\* Where the request will be once the index is fresh.
Refreshes == {"refresh"} \cup Reload
Aim(q) == IF q.at \in Refreshes THEN q.next ELSE q.at

QueryTyped ==
  /\ index \in [chunks : SUBSET Id, revision : Number \cup {None}, generation : Number \cup {None}]
  /\ queries \in [Thread -> [at : Place, next : Place, noted : Number, revision : Number, generation : Number,
                             active : SUBSET Id, dense : SUBSET Id, keyword : SUBSET Id]]

\* What request q has read is worth, when the index is i, the generations are m and the pointer
\* is at p.  A load: the revision was read before the generation, the chunks are those of the
\* generation.  Evidence: of the generation noted, as long as that is still the active one.
Sound(q, i, m, p) ==
  /\ i.generation # None => i.generation <= p /\ i.chunks = m[i.generation]
  /\ q.noted <= p
  /\ q.at \in Refreshes => q.next \in {"snapshot", "search", "compare", "stored"}
  /\ q.at \in Reload \ {"clear"} => i.generation = None
  /\ q.at \in Reload \ {"clear", "revision"} => q.revision <= p
  /\ q.at \in Reload \ {"clear", "revision", "generation"} => q.revision <= q.generation /\ q.generation <= p
  /\ q.at \in {"publish", "verify"} => q.active = m[q.generation]
  /\ q.at = "verify" => i.chunks = q.active
  /\ q.at = "search" /\ q.noted = p => i.generation = p
  /\ Aim(q) \in {"keyword", "compare"} /\ q.noted = p => q.dense = m[q.noted]
  /\ Aim(q) = "compare" /\ q.noted = p => q.keyword = m[q.noted]
  /\ q.at = "answered" => q.dense = m[q.noted] /\ q.keyword = m[q.noted]

QueriesSound == Published /\ QueryTyped /\ \A t \in Thread : Sound(queries[t], index, members, pointer)

\* What a request has read stays worth the same when the corpus changes.
LEMMA SoundLater ==
  ASSUME Generations \in Nat, None \notin Nat, Published, QueryTyped, Grows, Published',
         NEW t \in Thread, Sound(queries[t], index, members, pointer)
  PROVE  Sound(queries[t], index, members', pointer')
<1>. DEFINE q == queries[t]
<1>1. /\ pointer \in Nat /\ pointer' \in Nat /\ pointer <= pointer'
      /\ q.noted \in Nat /\ q.revision \in Nat /\ q.generation \in Nat
      /\ index.generation # None => index.generation \in Nat
  BY DEF Published, QueryTyped, Number, Grows
<1>2. \A g \in Nat : g <= pointer => members'[g] = members[g]
  BY <1>1 DEF Grows
<1>. HIDE DEF q
<1>. SUFFICES ASSUME Sound(q, index, members, pointer)
              PROVE  Sound(q, index, members', pointer')
  BY DEF q
<1>3. q.noted = pointer' => q.noted = pointer
  BY <1>1 DEF Sound
<1>4. q.at \in {"publish", "verify"} => q.at \in Reload \ {"clear", "revision", "generation"}
  BY DEF Reload
<1>5. q.noted = pointer' => pointer' = pointer
  BY <1>1, <1>3
<1>. QED
  BY <1>1, <1>2, <1>3, <1>4, <1>5 DEF Sound

QueryRecord == [at : Place, next : Place, noted : Number, revision : Number, generation : Number,
                active : SUBSET Id, dense : SUBSET Id, keyword : SUBSET Id]
IndexRecord == [chunks : SUBSET Id, revision : Number \cup {None}, generation : Number \cup {None}]

\* A step of a request that leaves the corpus alone and sets the request and the index to what
\* is sound keeps the queries sound.
LEMMA StepSound ==
  ASSUME QueriesSound, NEW t \in Thread, \A u \in Thread : u = t,
         NEW q \in QueryRecord, Sets(t, q), index' \in IndexRecord, UNCHANGED corpusVars,
         Sound(q, index', members, pointer)
  PROVE  QueriesSound'
<1>1. queries'[t] = q /\ QueryTyped'
  BY DEF Sets, QueriesSound, QueryTyped, QueryRecord, IndexRecord
<1>2. Published'
  BY DEF corpusVars, QueriesSound, Published, Active
<1>3. members' = members /\ pointer' = pointer
  BY DEF corpusVars
<1>4. Sound(queries'[t], index', members', pointer')
  BY <1>1, <1>3
<1>. QED
  BY <1>1, <1>2, <1>4 DEF QueriesSound

\* Every step of the only request keeps the queries sound.
LEMMA ThreadStep ==
  ASSUME Generations \in Nat, None \notin Nat, QueriesSound,
         NEW t \in Thread, \A u \in Thread : u = t,
         \/ Ask(t) \/ Refresh(t) \/ Clear(t) \/ ReadRevision(t) \/ ReadGeneration(t) \/ ReadActive(t)
         \/ ReadChunks(t) \/ LoadChunks(t) \/ Verify(t) \/ Note(t) \/ Search(t) \/ Keyword(t)
         \/ Compare(t) \/ Finish(t) \/ CallFails(t)
  PROVE  QueriesSound'
<1>. DEFINE q == queries[t]
            i == index
            Keeps(n) == Sound(n, i, members, pointer)
<1>1. /\ q \in QueryRecord /\ i \in IndexRecord
      /\ Published /\ members \in [Number -> SUBSET Id] /\ pointer \in Number
      /\ Keeps(q)
  BY DEF QueriesSound, QueryTyped, Published, QueryRecord, IndexRecord
<1>2. \A n \in Number : n \in Nat
  BY DEF Number
<1>3. Idle \in QueryRecord /\ (\A j \in IndexRecord : Sound(Idle, j, members, pointer) <=>
                                  (j.generation # None => j.generation <= pointer /\ j.chunks = members[j.generation]))
  BY <1>1, <1>2 DEF Idle, QueryRecord, Number, Place, Reload, Refreshes, Sound, Aim
<1>4. Keeps(Idle)
  BY <1>1, <1>3 DEF Sound
<1>5. CASE Ask(t)
  <2>. DEFINE n == [Idle EXCEPT !.at = "refresh", !.next = "snapshot"]
  <2>1. n \in QueryRecord /\ Sets(t, n) /\ index' = i /\ UNCHANGED corpusVars
    BY <1>3, <1>5 DEF Ask, Refreshing, QueryRecord, Place, Reload
  <2>2. Keeps(n)
    BY <1>1, <1>2, <1>4 DEF Sound, Aim, Idle, Refreshes, Reload, Number
  <2>. QED
    BY <1>1, <2>1, <2>2, StepSound
<1>6. CASE Refresh(t)
  <2>. DEFINE n == [q EXCEPT !.at = IF Changed THEN "clear" ELSE q.next]
  <2>1. n \in QueryRecord /\ Sets(t, n) /\ index' = i /\ UNCHANGED corpusVars
    BY <1>1, <1>6 DEF Refresh, Goes, QueryRecord, Place, Reload
  <2>2. Keeps(n)
    BY <1>1, <1>2, <1>6 DEF Refresh, At, Changed, Sound, Aim, Refreshes, Reload, QueryRecord
  <2>. QED
    BY <1>1, <2>1, <2>2, StepSound
<1>7. CASE Clear(t)
  <2>. DEFINE n == [q EXCEPT !.at = "revision"]
  <2>1. n \in QueryRecord /\ Sets(t, n) /\ UNCHANGED corpusVars
    BY <1>1, <1>7 DEF Clear, Goes, QueryRecord, Place, Reload
  <2>2. index' \in IndexRecord /\ index'.generation = None
    BY <1>1, <1>7 DEF Clear, IndexRecord
  <2>3. Sound(n, index', members, pointer)
    BY <1>1, <1>2, <1>7, <2>2 DEF Clear, At, Sound, Aim, Refreshes, Reload, QueryRecord
  <2>. QED
    BY <2>1, <2>2, <2>3, StepSound
<1>8. CASE ReadRevision(t)
  <2>. DEFINE n == [q EXCEPT !.at = "generation", !.revision = pointer]
  <2>1. n \in QueryRecord /\ Sets(t, n) /\ index' = i /\ UNCHANGED corpusVars
    BY <1>1, <1>8 DEF ReadRevision, QueryRecord, Place, Reload
  <2>2. Keeps(n)
    BY <1>1, <1>2, <1>8 DEF ReadRevision, At, Sound, Aim, Refreshes, Reload, QueryRecord
  <2>. QED
    BY <1>1, <2>1, <2>2, StepSound
<1>9. CASE ReadGeneration(t)
  <2>. DEFINE n == [q EXCEPT !.at = "active", !.generation = pointer]
  <2>1. n \in QueryRecord /\ Sets(t, n) /\ index' = i /\ UNCHANGED corpusVars
    BY <1>1, <1>9 DEF ReadGeneration, QueryRecord, Place, Reload
  <2>2. Keeps(n)
    BY <1>1, <1>2, <1>9 DEF ReadGeneration, At, Sound, Aim, Refreshes, Reload, QueryRecord
  <2>. QED
    BY <1>1, <2>1, <2>2, StepSound
<1>10. CASE ReadActive(t)
  <2>. DEFINE n == [q EXCEPT !.at = "chunks", !.active = Active]
  <2>1. Active \in SUBSET Id
    BY <1>1 DEF Published
  <2>2. n \in QueryRecord /\ Sets(t, n) /\ index' = i /\ UNCHANGED corpusVars
    BY <1>1, <1>10, <2>1 DEF ReadActive, QueryRecord, Place, Reload
  <2>3. Keeps(n)
    BY <1>1, <1>2, <1>10 DEF ReadActive, At, Sound, Aim, Refreshes, Reload, QueryRecord
  <2>. QED
    BY <1>1, <2>2, <2>3, StepSound
<1>11. CASE ReadChunks(t) /\ members[q.generation] = q.active /\ Active = q.active
  <2>. DEFINE n == [q EXCEPT !.at = "publish"]
  <2>1. n \in QueryRecord /\ Sets(t, n) /\ index' = i /\ UNCHANGED corpusVars
    BY <1>1, <1>11 DEF ReadChunks, Goes, QueryRecord, Place, Reload
  <2>2. Keeps(n)
    BY <1>1, <1>2, <1>11 DEF ReadChunks, At, Sound, Aim, Refreshes, Reload, QueryRecord
  <2>. QED
    BY <1>1, <2>1, <2>2, StepSound
<1>12. CASE ReadChunks(t) /\ ~ (members[q.generation] = q.active /\ Active = q.active)
  BY <1>1, <1>3, <1>4, <1>12, StepSound DEF ReadChunks
<1>13. CASE LoadChunks(t)
  <2>. DEFINE n == [q EXCEPT !.at = "verify"]
  <2>1. n \in QueryRecord /\ Sets(t, n) /\ UNCHANGED corpusVars
    BY <1>1, <1>13 DEF LoadChunks, Goes, QueryRecord, Place, Reload
  <2>2. index' \in IndexRecord /\ index'.generation = i.generation /\ index'.chunks = q.active
    BY <1>1, <1>13 DEF LoadChunks, IndexRecord, QueryRecord
  <2>3. Sound(n, index', members, pointer)
    BY <1>1, <1>2, <1>13, <2>2 DEF LoadChunks, At, Sound, Aim, Refreshes, Reload, QueryRecord
  <2>. QED
    BY <2>1, <2>2, <2>3, StepSound
<1>14. CASE Verify(t)
  <2>1. index' \in IndexRecord /\ index'.generation = q.generation /\ index'.chunks = i.chunks
    BY <1>1, <1>14 DEF Verify, IndexRecord, QueryRecord
  <2>2. q.generation <= pointer /\ q.revision <= q.generation /\ i.chunks = members[q.generation]
    BY <1>1, <1>14 DEF Verify, At, Sound, Reload
  <2>3. CASE pointer = q.revision
    <3>. DEFINE n == Loaded(q)
    <3>1. q.generation = pointer
      BY <1>1, <1>2, <2>2, <2>3 DEF QueryRecord
    <3>a. 0 \in Number
      BY DEF Number
    <3>b. n \in QueryRecord
      BY <1>1, <3>a DEF Loaded, QueryRecord
    <3>c. Sets(t, n) /\ UNCHANGED corpusVars
      BY <1>14, <2>3 DEF Verify
    <3>2. n \in QueryRecord /\ Sets(t, n) /\ UNCHANGED corpusVars
      BY <3>b, <3>c
    <3>3. Sound(n, index', members, pointer)
      BY <1>1, <1>2, <1>14, <2>1, <2>2, <3>1 DEF Verify, At, Loaded, Sound, Aim, Refreshes, Reload, QueryRecord
    <3>. QED
      BY <2>1, <3>2, <3>3, StepSound
  <2>4. CASE pointer # q.revision
    BY <1>3, <1>14, <2>1, <2>2, <2>4, StepSound DEF Verify
  <2>. QED
    BY <2>3, <2>4
<1>15. CASE Note(t)
  <2>. DEFINE n == [[q EXCEPT !.noted = pointer] EXCEPT !.at = "refresh", !.next = "search"]
  <2>1. n \in QueryRecord /\ Sets(t, n) /\ index' = i /\ UNCHANGED corpusVars
    BY <1>1, <1>15 DEF Note, Refreshing, QueryRecord, Place, Reload
  <2>2. Keeps(n)
    BY <1>1, <1>2, <1>15 DEF Note, At, Sound, Aim, Refreshes, Reload, QueryRecord
  <2>. QED
    BY <1>1, <2>1, <2>2, StepSound
<1>16. CASE Search(t)
  <2>. DEFINE n == [q EXCEPT !.at = "keyword", !.dense = i.chunks]
  <2>1. n \in QueryRecord /\ Sets(t, n) /\ index' = i /\ UNCHANGED corpusVars
    BY <1>1, <1>16 DEF Search, QueryRecord, IndexRecord, Place, Reload
  <2>2. q.noted = pointer => i.generation = pointer /\ i.chunks = members[pointer]
    BY <1>1, <1>2, <1>16 DEF Search, At, Sound
  <2>3. Keeps(n)
    BY <1>1, <1>2, <1>16, <2>2 DEF Search, At, Sound, Aim, Refreshes, Reload, QueryRecord
  <2>. QED
    BY <1>1, <2>1, <2>3, StepSound
<1>17. CASE Keyword(t)
  <2>. DEFINE n == [[q EXCEPT !.keyword = Active] EXCEPT !.at = "refresh", !.next = "compare"]
  <2>1. Active \in SUBSET Id
    BY <1>1 DEF Published
  <2>2. n \in QueryRecord /\ Sets(t, n) /\ index' = i /\ UNCHANGED corpusVars
    BY <1>1, <1>17, <2>1 DEF Keyword, Refreshing, QueryRecord, Place, Reload
  <2>3. Keeps(n)
    BY <1>1, <1>2, <1>17 DEF Keyword, At, Sound, Aim, Refreshes, Reload, QueryRecord, Published
  <2>. QED
    BY <1>1, <2>2, <2>3, StepSound
<1>18. CASE Compare(t) /\ Same(t)
  <2>. DEFINE n == [q EXCEPT !.at = "answered"]
  <2>1. n \in QueryRecord /\ Sets(t, n) /\ index' = i /\ UNCHANGED corpusVars
    BY <1>1, <1>18 DEF Compare, Goes, QueryRecord, Place, Reload
  <2>2. Keeps(n)
    BY <1>1, <1>2, <1>18 DEF Compare, Same, At, Sound, Aim, Refreshes, Reload, QueryRecord
  <2>. QED
    BY <1>1, <2>1, <2>2, StepSound
<1>19. CASE Compare(t) /\ ~ Same(t)
  BY <1>1, <1>3, <1>4, <1>19, StepSound DEF Compare
<1>20. CASE Finish(t) \/ CallFails(t)
  BY <1>1, <1>3, <1>4, <1>20, StepSound DEF Finish, CallFails
<1>. QED
  BY <1>5, <1>6, <1>7, <1>8, <1>9, <1>10, <1>11, <1>12, <1>13, <1>14, <1>15, <1>16, <1>17, <1>18, <1>19, <1>20

\* An ingestion of the replica begins a load.
LEMMA StoreStep ==
  ASSUME Generations \in Nat, None \notin Nat, QueriesSound,
         NEW t \in Thread, \A u \in Thread : u = t, NEW d \in Document, Store(t, d)
  PROVE  QueriesSound'
<1>. DEFINE n == [Idle EXCEPT !.at = "clear", !.next = "stored"]
<1>1. Published' /\ Grows
  <2>1. Change
    BY DEF Store, Change
  <2>. QED
    BY <2>1, ChangeKeeps DEF QueriesSound
<1>a. 0 \in Number
  BY DEF Number
<1>b. n \in QueryRecord
  BY <1>a DEF Idle, QueryRecord, Place, Reload
<1>c. Sets(t, n) /\ index' = index
  BY DEF Store
<1>2. n \in QueryRecord /\ Sets(t, n) /\ index' = index
  BY <1>b, <1>c
<1>3. queries'[t] = n /\ QueryTyped'
  BY <1>2 DEF Sets, QueriesSound, QueryTyped, QueryRecord
<1>4. Sound(queries[t], index, members', pointer')
  BY <1>1, SoundLater DEF QueriesSound
<1>5. pointer' \in Nat
  BY <1>1 DEF Published, Number
<1>6. Sound(n, index, members', pointer')
  BY <1>4, <1>5 DEF Sound, Aim, Idle, Refreshes, Reload
<1>. QED
  BY <1>1, <1>2, <1>3, <1>6 DEF QueriesSound

\* A request changes documents as other requests do, or not at all.
LEMMA RequestsChange == [Next]_vars => [Change]_corpusVars
  BY DEF Next, OtherRequest, Store, Change, Ask, Refresh, Clear, ReadRevision, ReadGeneration, ReadActive, ReadChunks,
         LoadChunks, Verify, Note, Search, Keyword, Compare, Finish, CallFails, vars

\* The types of the queries, with those of the store: they hold for any number of requests.
LEMMA TypesAtFirst ==
  ASSUME Generations \in Nat, Troubles \in Nat, Document # {}, QueryInit
  PROVE  Numbered /\ TypeOK
<1>1. Numbered
  BY NumberedAtFirst DEF QueryInit
<1>2. Idle \in QueryRecord /\ troubles \in 0 .. Troubles
  BY DEF QueryInit, Idle, QueryRecord, Number, Place
<1>3. index \in IndexRecord
  BY DEF QueryInit, IndexRecord, Number
<1>4. queries \in [Thread -> QueryRecord]
  BY <1>2 DEF QueryInit
<1>. QED
  BY <1>1, <1>2, <1>3, <1>4 DEF Numbered, TypeOK, QueryRecord, IndexRecord

LEMMA TypesStay ==
  ASSUME Generations \in Nat, Troubles \in Nat, Document # {}, Numbered, TypeOK, [Next]_vars
  PROVE  Numbered' /\ TypeOK'
<1>1. Numbered'
  <2>1. [Change]_corpusVars
    BY RequestsChange
  <2>. QED
    BY <2>1, NumberedStays
<1>2. index \in IndexRecord /\ queries \in [Thread -> QueryRecord] /\ troubles \in 0 .. Troubles
  BY DEF TypeOK, IndexRecord, QueryRecord
<1>3. pointer \in Number /\ pointer' \in Number /\ members \in [Number -> SUBSET Id] /\ Active \in SUBSET Id
  BY <1>1 DEF Numbered, CorpusTypeOK, Number, Active, ActiveIn, Ids, Revision
<1>4. Idle \in QueryRecord
  BY DEF Idle, QueryRecord, Number, Place
<1>. DEFINE Rest == index' \in IndexRecord /\ queries' \in [Thread -> QueryRecord] /\ troubles' \in 0 .. Troubles
<1>5. ASSUME NEW t \in Thread, NEW n \in QueryRecord, Sets(t, n) PROVE queries' \in [Thread -> QueryRecord]
  BY <1>2, <1>5 DEF Sets
<1>6. \A t \in Thread : queries[t] \in QueryRecord
  BY <1>2
<1>7. ASSUME NEW t \in Thread, NEW place \in Place, Goes(t, place) PROVE queries' \in [Thread -> QueryRecord]
  <2>1. [queries[t] EXCEPT !.at = place] \in QueryRecord
    BY <1>6 DEF QueryRecord
  <2>. QED
    BY <1>5, <1>7, <2>1 DEF Goes
<1>8. ASSUME OtherRequest \/ UNCHANGED vars PROVE Rest
  BY <1>2, <1>8 DEF OtherRequest, vars, queryVars
<1>9. ASSUME NEW t \in Thread, Ask(t) \/ \E d \in Document : Store(t, d) PROVE Rest
  <2>1. [Idle EXCEPT !.at = "refresh", !.next = "snapshot"] \in QueryRecord
    BY <1>4 DEF QueryRecord, Place
  <2>2. [Idle EXCEPT !.at = "clear", !.next = "stored"] \in QueryRecord
    BY <1>4 DEF QueryRecord, Place, Reload
  <2>. QED
    BY <1>2, <1>5, <1>9, <2>1, <2>2 DEF Ask, Store, Refreshing
<1>10. ASSUME NEW t \in Thread, Refresh(t) PROVE Rest
  <2>1. (IF Changed THEN "clear" ELSE queries[t].next) \in Place
    BY <1>6 DEF QueryRecord, Place, Reload
  <2>. QED
    BY <1>2, <1>7, <1>10, <2>1 DEF Refresh
<1>11. ASSUME NEW t \in Thread, Clear(t) \/ LoadChunks(t) \/ Verify(t) PROVE Rest
  <2>1. "revision" \in Place /\ "verify" \in Place
    BY DEF Place, Reload
  <2>2. Loaded(queries[t]) \in QueryRecord
    <3>1. 0 \in Number /\ queries[t] \in QueryRecord
      BY <1>6 DEF Number
    <3>. QED
      BY <3>1 DEF Loaded, QueryRecord
  <2>3. queries' \in [Thread -> QueryRecord]
    BY <1>4, <1>5, <1>7, <1>11, <2>1, <2>2 DEF Clear, LoadChunks, Verify
  <2>4. index' \in IndexRecord
    BY <1>2, <1>3, <1>6, <1>11 DEF Clear, LoadChunks, Verify, IndexRecord, QueryRecord
  <2>. QED
    BY <1>2, <1>11, <2>3, <2>4 DEF Clear, LoadChunks, Verify
<1>12. ASSUME NEW t \in Thread, ReadRevision(t) \/ ReadGeneration(t) \/ ReadActive(t) PROVE Rest
  <2>1. /\ [queries[t] EXCEPT !.at = "generation", !.revision = pointer] \in QueryRecord
        /\ [queries[t] EXCEPT !.at = "active", !.generation = pointer] \in QueryRecord
        /\ [queries[t] EXCEPT !.at = "chunks", !.active = Active] \in QueryRecord
    BY <1>3, <1>6 DEF QueryRecord, Place, Reload
  <2>. QED
    BY <1>2, <1>5, <1>12, <2>1 DEF ReadRevision, ReadGeneration, ReadActive
<1>13. ASSUME NEW t \in Thread, ReadChunks(t) \/ Compare(t) \/ Finish(t) PROVE Rest
  <2>1. "publish" \in Place /\ "answered" \in Place
    BY DEF Place, Reload
  <2>. QED
    BY <1>2, <1>4, <1>5, <1>7, <1>13, <2>1 DEF ReadChunks, Compare, Finish
<1>14. ASSUME NEW t \in Thread, Note(t) \/ Search(t) \/ Keyword(t) PROVE Rest
  <2>1. /\ [[queries[t] EXCEPT !.noted = pointer] EXCEPT !.at = "refresh", !.next = "search"] \in QueryRecord
        /\ [queries[t] EXCEPT !.at = "keyword", !.dense = index.chunks] \in QueryRecord
        /\ [[queries[t] EXCEPT !.keyword = Active] EXCEPT !.at = "refresh", !.next = "compare"] \in QueryRecord
    BY <1>2, <1>3, <1>6 DEF QueryRecord, IndexRecord, Place
  <2>. QED
    BY <1>2, <1>5, <1>14, <2>1 DEF Note, Search, Keyword, Refreshing
<1>15. ASSUME NEW t \in Thread, CallFails(t) PROVE Rest
  BY <1>2, <1>4, <1>5, <1>15 DEF CallFails
<1>16. Rest
  BY <1>8, <1>9, <1>10, <1>11, <1>12, <1>13, <1>14, <1>15 DEF Next
<1>. QED
  BY <1>1, <1>16 DEF TypeOK, Numbered, IndexRecord, QueryRecord

\* No request has read anything at first.
LEMMA QueriesSoundAtFirst ==
  ASSUME Generations \in Nat, None \notin Nat, QueryInit
  PROVE  QueriesSound
<1>1. Published
  BY DEF QueryInit, Init, Published, Number, Active, ActiveIn, Ids
<1>2. QueryTyped
  BY DEF QueryInit, QueryTyped, Idle, Number, Place, Reload
<1>3. ASSUME NEW t \in Thread PROVE Sound(queries[t], index, members, pointer)
  BY <1>3 DEF QueryInit, Init, Sound, Aim, Idle, Refreshes, Reload, Number
<1>. QED
  BY <1>1, <1>2, <1>3 DEF QueriesSound

\* The queries of a replica that serves one request at a time stay sound.
LEMMA QueriesStaySound ==
  ASSUME Generations \in Nat, None \notin Nat, \A t, u \in Thread : t = u, QueriesSound, [Next]_vars
  PROVE  QueriesSound'
<1>1. CASE OtherRequest
  <2>1. Published' /\ Grows
    BY <1>1, ChangeKeeps DEF OtherRequest, QueriesSound
  <2>2. index' = index /\ queries' = queries
    BY <1>1 DEF OtherRequest, queryVars
  <2>. QED
    BY <2>1, <2>2, SoundLater DEF QueriesSound, QueryTyped
<1>2. ASSUME NEW t \in Thread,
             \/ Ask(t) \/ Refresh(t) \/ Clear(t) \/ ReadRevision(t) \/ ReadGeneration(t) \/ ReadActive(t)
             \/ ReadChunks(t) \/ LoadChunks(t) \/ Verify(t) \/ Note(t) \/ Search(t) \/ Keyword(t)
             \/ Compare(t) \/ Finish(t) \/ CallFails(t)
      PROVE  QueriesSound'
  BY <1>2, ThreadStep
<1>3. ASSUME NEW t \in Thread, NEW d \in Document, Store(t, d) PROVE QueriesSound'
  BY <1>3, StoreStep
<1>4. CASE UNCHANGED vars
  BY <1>4 DEF vars, corpusVars, queryVars, QueriesSound, QueryTyped, Published, Active
<1>. QED
  BY <1>1, <1>2, <1>3, <1>4 DEF Next

\* Sound queries answer with the evidence of the generation they name.
LEMMA SoundIsBound == QueriesSound => EvidenceIsOfItsGeneration
  BY DEF QueriesSound, Sound, EvidenceIsOfItsGeneration, At

\* The evidence of an answer was searched in exactly the generation the answer names, however
\* documents change during the query, if the replica serves one request at a time: the run
\* corpus_threads shows that two are enough to break it.
THEOREM EvidenceIsBound ==
  ASSUME Generations \in Nat, None \notin Nat, \A t, u \in Thread : t = u
  PROVE  Spec => []EvidenceIsOfItsGeneration
<1>1. QueryInit => QueriesSound
  BY QueriesSoundAtFirst
<1>2. QueriesSound /\ [Next]_vars => QueriesSound'
  BY QueriesStaySound
<1>. QED
  BY <1>1, <1>2, SoundIsBound, PTL DEF Spec

\* Store, index and queries keep their types, however many threads share the index.
THEOREM CorpusTypeCorrect ==
  ASSUME Generations \in Nat, Troubles \in Nat, Document # {}
  PROVE  Spec => []TypeOK
<1>1. QueryInit => Numbered /\ TypeOK
  BY TypesAtFirst
<1>2. Numbered /\ TypeOK /\ [Next]_vars => Numbered' /\ TypeOK'
  BY TypesStay
<1>. QED
  BY <1>1, <1>2, PTL DEF Spec
=============================================================================
