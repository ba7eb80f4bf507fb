-------------------------- MODULE FinancialLedger --------------------------
(***************************************************************************)
(* What the persistence of one user's financial state promises: every      *)
(* committed change is one of four serial operations on the current        *)
(* profile, its recommendation generation and its allocation revision, and *)
(* leaves exactly one audit entry.  A profile that is no longer current is *)
(* never changed again.                                                    *)
(***************************************************************************)
EXTENDS Naturals, Sequences

VARIABLES
  current,   \* the current profile, 0 when there is none
  books,     \* books[p]: version, generation and revision of profile p
  entries    \* how many audit entries there are

lvars == <<current, books, entries>>

NewBook == [version |-> 1, generation |-> 1, revision |-> 1]

LInit ==
  /\ current = 0
  /\ books = <<>>
  /\ entries = 0

\* A completed profile becomes the current one.
Promote ==
  /\ books' = Append(books, NewBook)
  /\ current' = Len(books) + 1

\* The current profile is replaced together with its recommendation.
Edit ==
  /\ current # 0
  /\ books' = [books EXCEPT ![current] =
       [version |-> @.version + 1, generation |-> @.generation + 1, revision |-> 1]]
  /\ UNCHANGED current

\* A new recommendation for the current profile.
Regenerate ==
  /\ current # 0
  /\ books' = [books EXCEPT ![current].generation = @ + 1, ![current].revision = 1]
  /\ UNCHANGED current

\* A new allocation revision of the current recommendation.
Rebalance ==
  /\ current # 0
  /\ books' = [books EXCEPT ![current].revision = @ + 1]
  /\ UNCHANGED current

LNext ==
  /\ Promote \/ Edit \/ Regenerate \/ Rebalance
  /\ entries' = entries + 1

LSpec == LInit /\ [][LNext]_lvars
=============================================================================
