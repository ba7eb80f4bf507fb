-------------------------- MODULE ReviewLifecycle --------------------------
(***************************************************************************)
(* What a plan review promises: it is started a bounded number of times,   *)
(* answers at most once, and what has ended stays as it ended.             *)
(***************************************************************************)
EXTENDS Naturals

CONSTANTS Review, Starts

VARIABLES
  phase,     \* "absent", "queued", "running", "waiting" or the outcome
  started    \* how many times each review was started

Outcome == {"COMPLETED", "FAILED", "CANCELLED", "SUPERSEDED", "BUDGET_EXCEEDED"}

LInit == phase = [r \in Review |-> "absent"] /\ started = [r \in Review |-> 0]

Move(r, from, to) == phase[r] \in from /\ \E p \in to : phase' = [phase EXCEPT ![r] = p]

Ask(r) == Move(r, {"absent"}, {"queued"}) /\ UNCHANGED started

\* Also the restart of a review whose worker was lost.
Run(r) ==
  /\ Move(r, {"queued", "running"}, {"running"})
  /\ started[r] < Starts /\ started' = [started EXCEPT ![r] = @ + 1]

Requeue(r) == Move(r, {"running"}, {"queued"}) /\ UNCHANGED started

Answer(r) == Move(r, {"running"}, {"waiting", "COMPLETED", "BUDGET_EXCEEDED", "FAILED"}) /\ UNCHANGED started

Close(r) == Move(r, {"waiting"}, {"COMPLETED", "FAILED"}) /\ UNCHANGED started

Retire(r) == Move(r, {"queued", "running", "waiting"}, {"CANCELLED", "SUPERSEDED"}) /\ UNCHANGED started

\* An admission retires what is stale and asks for a new review in one step.
Replace(old, r) ==
  /\ phase[old] \in {"queued", "running", "waiting"} /\ phase[r] = "absent"
  /\ phase' = [phase EXCEPT ![old] = "SUPERSEDED", ![r] = "queued"]
  /\ UNCHANGED started

LNext ==
  \/ \E r \in Review : Ask(r) \/ Run(r) \/ Requeue(r) \/ Answer(r) \/ Close(r) \/ Retire(r)
  \/ \E old, r \in Review : Replace(old, r)

LSpec == LInit /\ [][LNext]_<<phase, started>>
=============================================================================
