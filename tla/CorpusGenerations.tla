------------------------- MODULE CorpusGenerations -------------------------
(***************************************************************************)
(* The shared document store of the retrieval service.  Every change of a  *)
(* document is one transaction that also publishes a new generation of the *)
(* corpus and moves the pointer to it, compared with the generation the    *)
(* transaction started from: of two that overlap one is refused.  What a   *)
(* deletion or a change of metadata works on is read before.               *)
(***************************************************************************)
EXTENDS Naturals, FiniteSets

CONSTANTS
  Document,      \* identities of documents: an id in a scope
  Editor,        \* requests that delete documents or change their metadata
  Generations    \* bound: generations published

VARIABLES
  revisions,     \* rag_document_revisions; the chunks of a revision move with it
  members,       \* rag_corpus_generation_members: the revisions of each generation
  pointer,       \* the active generation, by its revision number
  editing        \* what each editor has read

corpusVars == <<revisions, members, pointer, editing>>

\* A revision is identified by the generation that created it (a UUID); content is the
\* ingestion whose text it holds: a change of metadata copies the chunks.
Id == 1 .. Generations
Revision == [id : Id, document : Document, version : Id, content : Id,
             state : {"ACTIVE", "SUPERSEDED", "SOFT_DELETED"}]

CorpusTypeOK ==
  /\ \A r \in revisions : r \in Revision
  /\ members \in [0 .. Generations -> SUBSET Id]
  /\ pointer \in 0 .. Generations
  /\ editing \in [Editor -> [kind : {"none", "soft", "hard", "update"}, document : Document, seen : SUBSET Id]]

Nothing == [kind |-> "none", document |-> CHOOSE d \in Document : TRUE, seen |-> {}]

\* After the bootstrap: an empty generation, whose number is the first.
Init ==
  /\ revisions = {}
  /\ members = [g \in 0 .. Generations |-> {}]
  /\ pointer = 0
  /\ editing = [e \in Editor |-> Nothing]

-----------------------------------------------------------------------------

Of(d) == {r \in revisions : r.document = d}
ActiveIn(revs) == {r \in revs : r.state = "ACTIVE"}
Ids(revs) == {r.id : r \in revs}

\* _publish_generation: the generation holds the active revisions of the same transaction.
Publish(revs) ==
  /\ pointer < Generations
  /\ revisions' = revs
  /\ members' = [members EXCEPT ![pointer + 1] = Ids(ActiveIn(revs))]
  /\ pointer' = pointer + 1

\* Mutant of Movable: the state of the revision is not in the filter.
MovableAny(r) == r \in revisions

\* _transition_revision moves pending and active revisions only; pending ones are not durable.
Movable(r) == r.state = "ACTIVE"

Moved(revs, state) == (revisions \ revs) \cup {[r EXCEPT !.state = state] : r \in revs}

Written(d, version, content) ==
  [id |-> pointer + 1, document |-> d, version |-> version, content |-> content, state |-> "ACTIVE"]

\* The highest version number of the document.
Latest(d) == Cardinality({v \in Id : \E r \in Of(d) : v <= r.version})

\* commit_document_revision: version, chunks and the superseded predecessor in one transaction.
Ingest(d) ==
  /\ Publish(Moved(ActiveIn(Of(d)), "SUPERSEDED") \cup {Written(d, Latest(d) + 1, pointer + 1)})
  /\ UNCHANGED editing

\* Deletion and change of metadata read the revisions of the document without a session; a
\* document that has none is answered at once.
Look(e, kind) ==
  /\ editing[e].kind = "none"
  /\ \E d \in Document :
       LET seen == IF kind = "hard" THEN Of(d) ELSE ActiveIn(Of(d))
       IN /\ seen # {}
          /\ editing' = [editing EXCEPT ![e] = [kind |-> kind, document |-> d, seen |-> Ids(seen)]]
  /\ UNCHANGED <<revisions, members, pointer>>

Seen(e) == {r \in Of(editing[e].document) : r.id \in editing[e].seen}

\* Every revision that was read still exists and can be moved.
StillThere(e) == Ids(Seen(e)) = editing[e].seen /\ \A r \in Seen(e) : Movable(r)

Leaves(e) == editing' = [editing EXCEPT ![e] = Nothing]

SoftDelete(e) ==
  /\ editing[e].kind = "soft" /\ StillThere(e)
  /\ Publish(Moved(Seen(e), "SOFT_DELETED"))
  /\ Leaves(e)

\* Deletes by document, whatever was read, and publishes also when nothing is left.
HardDelete(e) ==
  /\ editing[e].kind = "hard"
  /\ Publish(revisions \ Of(editing[e].document))
  /\ Leaves(e)

\* The unique indexes: one revision of a version, one active revision of a document.
Unique(revs) ==
  \A r \in revs, s \in revs :
    r.document = s.document /\ r.id # s.id =>
      r.version # s.version /\ ~ (r.state = "ACTIVE" /\ s.state = "ACTIVE")

\* update_metadata writes a new revision with the chunks of the old one.
UpdateMetadata(e) ==
  /\ editing[e].kind = "update" /\ StillThere(e)
  /\ \E old \in Seen(e) :
       LET after == Moved({old}, "SUPERSEDED") \cup {Written(old.document, old.version + 1, old.content)}
       IN Unique(after) /\ Publish(after)
  /\ Leaves(e)

\* A check fails, or the pointer was moved by a transaction that overlaps: the request fails.
Refused(e) ==
  /\ editing[e].kind # "none"
  /\ Leaves(e)
  /\ UNCHANGED <<revisions, members, pointer>>

Edit(e) ==
  \/ \E kind \in {"soft", "hard", "update"} : Look(e, kind)
  \/ SoftDelete(e) \/ HardDelete(e) \/ UpdateMetadata(e) \/ Refused(e)

Change ==
  \/ \E d \in Document : Ingest(d)
  \/ \E e \in Editor : Edit(e)

CorpusSpec == Init /\ [][Change]_corpusVars

-----------------------------------------------------------------------------
(* Properties.                                                             *)

Contents == {r.content : r \in ActiveIn(revisions)}

\* A text that was deleted or replaced is never active again: only an ingestion makes text
\* active, however deletions and changes of metadata act on what they read before.
RemovedStaysRemoved == [][revisions' # revisions => Contents' \subseteq Contents \cup {pointer'}]_corpusVars
=============================================================================
