----------------------------- MODULE GoalEdits -----------------------------
(***************************************************************************)
(* Edits, new advice and the deletion of one saved goal.  A request works  *)
(* for seconds on a copy of the goal and of the user's financial state,    *)
(* which rebalances, profile edits and other goals change under it.        *)
(***************************************************************************)
EXTENDS Naturals

CONSTANTS
  Request,
  Sources,      \* bound: states of profile, recommendation and allocation
  Fences,       \* bound: values of promotionFence
  Attempts,     \* POST_COMMIT_GOAL_RECONCILIATION_ATTEMPTS
  None          \* the values the goal was created with

VARIABLES
  goal,         \* the Goal document
  edits,        \* edits[r]: the kind of request r, its place, its copies
  source        \* [state, fence]: the current financial state and its promotionFence

goalVars == <<goal, edits, source>>

Kind == {"target", "priority", "advice", "delete"}
Value == Request \cup {None}

\* exists: FALSE once it is deleted.  target and priority name the request that set them, plan
\* and advice what they were computed from.
GoalDoc ==
  [exists : BOOLEAN, version : Nat, target : Value, priority : Value,
   plan : [target : Value, source : 1 .. Sources], advice : [target : Value, source : 1 .. Sources, version : Nat]]
Source == [state : 1 .. Sources, fence : 0 .. Fences]

TypeOK ==
  /\ goal \in GoalDoc
  /\ source \in Source
  /\ edits \in [Request -> [kind : Kind, copy : GoalDoc, source : Source, tries : 0 .. Attempts - 1, answer : {"none", "ok", "deleted", "unverified", "refused"},
       at : {"idle", "plan", "recheck", "advise", "save", "delete", "snapshot", "confirm", "end"}]]

Init ==
  /\ goal = [exists |-> TRUE, version |-> 1, target |-> None, priority |-> None,
             plan |-> [target |-> None, source |-> 1], advice |-> [target |-> None, source |-> 1, version |-> 1]]
  /\ source = [state |-> 1, fence |-> 0]
  /\ \E kind \in [Request -> Kind] : edits =
       [r \in Request |-> [kind |-> kind[r], at |-> "idle", copy |-> goal, source |-> source, tries |-> 0, answer |-> "none"]]

-----------------------------------------------------------------------------

At(r, place) == edits[r].at = place

\* The request goes on at another place with what it has in hand, or ends with an answer.
Goes(r, place) == edits' = [edits EXCEPT ![r].at = place] /\ UNCHANGED <<goal, source>>
Ends(r, answer) == [edits[r] EXCEPT !.at = "end", !.answer = answer, !.copy = goal', !.source = source', !.tries = 0]
Answers(r, answer) == UNCHANGED <<goal, source>> /\ edits' = [edits EXCEPT ![r] = Ends(r, answer)]

\* The handler reads the goal in the version the client has seen, and puts the client's values in its copy.
Arrive(r) ==
  LET kind == edits[r].kind IN
  /\ At(r, "idle") /\ goal.exists
  /\ edits' = [edits EXCEPT ![r] = [@ EXCEPT
       !.at = CASE kind \in {"target", "advice"} -> "plan" [] kind = "priority" -> "recheck" [] kind = "delete" -> "delete",
       !.copy = [goal EXCEPT !.target = IF kind = "target" THEN r ELSE @, !.priority = IF kind = "priority" THEN r ELSE @]]]
  /\ UNCHANGED <<goal, source>>

\* calculateGoalPlan: a new plan from the current state.
Plan(r) ==
  /\ At(r, "plan") /\ edits[r].kind = "target"
  /\ edits' = [edits EXCEPT ![r].at = "recheck", ![r].copy.plan = [target |-> r, source |-> source.state]]
  /\ UNCHANGED <<goal, source>>

\* New advice keeps the plan, which must be fresh, and holds the state it finds here.
CheckFreshness(r) ==
  /\ At(r, "plan") /\ edits[r].kind = "advice"
  /\ IF edits[r].copy.plan.source = source.state
     THEN edits' = [edits EXCEPT ![r].at = "advise", ![r].source = source] /\ UNCHANGED <<goal, source>>
     ELSE Answers(r, "refused")

\* Mutant of StillPlanned: the state is read only for its fence.
StillPlannedAnyway(r) == TRUE

\* assertGoalPlanStateCurrent.
StillPlanned(r) == edits[r].kind = "priority" \/ edits[r].copy.plan.source = source.state

\* The state a save has to find again: for a plan it must be the state it was computed from.
Recheck(r) ==
  /\ At(r, "recheck")
  /\ IF StillPlanned(r)
     THEN /\ edits' = [edits EXCEPT ![r].at = IF edits[r].kind = "priority" THEN "save" ELSE "advise", ![r].source = source]
          /\ UNCHANGED <<goal, source>>
     ELSE Answers(r, "refused")

\* The language model's advice, bound to the version the save will make.
Advise(r) ==
  /\ At(r, "advise")
  /\ edits' = [edits EXCEPT ![r].at = "save", ![r].copy.advice =
       [target |-> edits[r].copy.plan.target, source |-> edits[r].source.state, version |-> edits[r].copy.version + 1]]
  /\ UNCHANGED <<goal, source>>

MaySave(r) == goal.exists /\ goal.version = edits[r].copy.version /\ source = edits[r].source

\* saveGoalWithSourceState: every field of the copy is written, and the state is held, in one transaction.
Save(r) ==
  /\ At(r, "save") /\ MaySave(r) /\ source.fence < Fences
  /\ goal' = [edits[r].copy EXCEPT !.version = @ + 1]
  /\ source' = [source EXCEPT !.fence = @ + 1]
  /\ edits' = [edits EXCEPT ![r].at = "snapshot"]

SaveRefused(r) == At(r, "save") /\ ~MaySave(r) /\ Answers(r, "refused")

Delete(r) ==
  /\ At(r, "delete")
  /\ IF goal.exists /\ goal.version = edits[r].copy.version
     THEN /\ goal' = [goal EXCEPT !.exists = FALSE] /\ source' = source
          /\ edits' = [edits EXCEPT ![r] = Ends(r, "ok")]
     ELSE Answers(r, "refused")

\* resolveGoalResponseAfterCommit: a snapshot of goal and state, then both are read again.
Snapshot(r) ==
  /\ At(r, "snapshot")
  /\ IF goal.exists
     THEN edits' = [edits EXCEPT ![r].at = "confirm", ![r].copy = goal, ![r].source = source] /\ UNCHANGED <<goal, source>>
     ELSE Answers(r, "deleted")

\* Mutant of MayTryAgain: one attempt too many.
MayTryAgainOnce(r) == edits[r].tries < Attempts

MayTryAgain(r) == edits[r].tries + 1 < Attempts

Confirm(r) ==
  /\ At(r, "confirm")
  /\ IF ~goal.exists THEN Answers(r, "deleted")
     ELSE IF goal.version = edits[r].copy.version /\ source = edits[r].source THEN Answers(r, "ok")
     ELSE IF MayTryAgain(r)
          THEN edits' = [edits EXCEPT ![r].at = "snapshot", ![r].tries = @ + 1] /\ UNCHANGED <<goal, source>>
          ELSE Answers(r, "unverified")

\* A profile edit, a new recommendation or a rebalance; or another goal or Plan Health holds the state.
SourceChanges ==
  /\ \/ source.state < Sources /\ source' = [source EXCEPT !.state = @ + 1]
     \/ source.fence < Fences /\ source' = [source EXCEPT !.fence = @ + 1]
  /\ UNCHANGED <<goal, edits>>

Next ==
  \/ \E r \in Request :
       \/ Arrive(r) \/ Plan(r) \/ CheckFreshness(r) \/ Recheck(r) \/ Advise(r)
       \/ Save(r) \/ SaveRefused(r) \/ Delete(r) \/ Snapshot(r) \/ Confirm(r)
  \/ SourceChanges

-----------------------------------------------------------------------------

\* A goal differs from the one before only in what the one request that saved it changes: no
\* edit is lost to a concurrent one, and a deleted goal does not come back (updateGoalWithCAS);
\* and what is saved was computed from the state that is current then, however long the
\* language model took for the advice (holdGoalSourceState).
NoLostEdit ==
  [][goal' # goal /\ goal'.exists =>
       /\ goal.exists /\ goal'.version = goal.version + 1
       /\ \E r \in Request :
            /\ edits[r].kind # "target" => goal'.target = goal.target /\ goal'.plan = goal.plan
            /\ edits[r].kind # "priority" => goal'.priority = goal.priority
            /\ edits[r].kind = "priority" => goal'.advice = goal.advice
            /\ edits[r].kind # "priority" => goal'.advice.source = source.state /\ goal'.plan.source = source.state
            /\ At(r, "save") /\ edits'[r].at = "snapshot"]_goalVars
=============================================================================
