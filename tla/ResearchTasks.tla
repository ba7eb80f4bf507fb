--------------------------- MODULE ResearchTasks ---------------------------
(***************************************************************************)
(* Durable research tasks and the one document that limits how many run    *)
(* over all replicas.  A worker takes a slot, then the task; both carry    *)
(* its token, and the lease of the task ends a safety margin before that   *)
(* of the slot.                                                            *)
(***************************************************************************)
EXTENDS Naturals, FiniteSets

CONSTANTS
  Task, Worker,
  Capacity,   \* maxActiveTasks
  Troubles,   \* bound: crashes, failed or late calls
  None        \* no task, or the token of a worker that is gone

VARIABLES
  tasks,      \* the ResearchTask documents
  slots,      \* activeLeases of the capacity document
  runner,     \* where each worker is, and the claim it holds
  freeing,    \* slots whose release a cancellation has still to send
  troubles

vars == <<tasks, slots, runner, freeing, troubles>>

Ended == {"COMPLETED", "FAILED", "CANCELED"}

\* left: the lease of a task is over when it is not live; a slot's is "live" while the lease
\* of a task could be taken from it, "closing" in its safety margin, then over.
Document == [status : {"NONE", "SUBMITTED", "WORKING"} \cup Ended, fence : Nat,
               token : Worker \cup {None}, live : BOOLEAN]
Slot == [task : Task, token : Worker \cup {None}, fence : Nat, left : {"live", "closing"}]
Place == {"idle", "acquire", "take", "undo", "work", "renew", "free"}

TypeOK ==
  /\ tasks \in [Task -> Document]
  /\ \A s \in slots \cup freeing : s \in Slot
  /\ runner \in [Worker -> [at : Place, task : Task \cup {None}, fence : Nat]]
  /\ troubles \in 0 .. Troubles

Idle == [at |-> "idle", task |-> None, fence |-> 0]

Init ==
  /\ tasks = [t \in Task |-> [status |-> "NONE", fence |-> 0, token |-> None, live |-> FALSE]]
  /\ slots = {} /\ freeing = {}
  /\ runner = [w \in Worker |-> Idle]
  /\ troubles = 0

-----------------------------------------------------------------------------

Trouble == troubles < Troubles /\ troubles' = troubles + 1

Goes(w, place) == runner' = [runner EXCEPT ![w] = IF place = "idle" THEN Idle ELSE [@ EXCEPT !.at = place]]

Open(t) == tasks[t].status \in {"SUBMITTED", "WORKING"}

\* The slots of worker w's claim: a slot matches by task, token and fence.
Mine(w) == {s \in slots : s.task = runner[w].task /\ s.token = w /\ s.fence = runner[w].fence}

Unleased(t, status) == [tasks[t] EXCEPT !.status = status, !.token = None, !.live = FALSE]

\* prepareAndClaim creates the document before anyone can claim it.
Submit(t) ==
  /\ tasks[t].status = "NONE"
  /\ tasks' = [tasks EXCEPT ![t].status = "SUBMITTED"]
  /\ UNCHANGED <<slots, runner, freeing, troubles>>

\* claimExecution and claimNextRecoverable read the task: only the sweep minds its lease,
\* for a claim under a live lease finds the slot taken.
Read(w, t) ==
  /\ runner[w].at = "idle" /\ Open(t)
  /\ runner' = [runner EXCEPT ![w] = [at |-> "acquire", task |-> t, fence |-> tasks[t].fence + 1]]
  /\ UNCHANGED <<tasks, slots, freeing, troubles>>

\* Mutant of Free: every task gets a slot.
FreeSlotPerTask(t) == \A s \in slots : s.task # t

Free(t) == Cardinality(slots) < Capacity /\ \A s \in slots : s.task # t

\* acquire: one update of the capacity document, whose answer may be lost.
Acquire(w) ==
  LET t == runner[w].task
      slot == [task |-> t, token |-> w, fence |-> runner[w].fence, left |-> "live"]
  IN
  /\ runner[w].at = "acquire"
  /\ \/ Free(t) /\ slots' = slots \cup {slot} /\ Goes(w, "take") /\ troubles' = troubles
     \/ Free(t) /\ Trouble /\ slots' = slots \cup {[slot EXCEPT !.token = None]} /\ Goes(w, "idle")
     \/ ~Free(t) /\ slots' = slots /\ Goes(w, "idle") /\ troubles' = troubles
  /\ UNCHANGED <<tasks, freeing>>

\* The task is as it was read, nobody's lease on it lives, and the slot has time left.
MayTake(w) ==
  LET t == runner[w].task IN
  /\ Open(t) /\ tasks[t].fence + 1 = runner[w].fence /\ ~tasks[t].live
  /\ \E s \in Mine(w) : s.left = "live"

\* claimTaskRecord.  Its update may throw, also after it took effect; a task that was not
\* taken, or is not known to be, gives its slot back; one without a message to answer is undone.
Take(w) ==
  LET t == runner[w].task
      taken == [tasks EXCEPT ![t].fence = @ + 1, ![t].token = w, ![t].live = TRUE]
  IN
  /\ runner[w].at = "take"
  /\ \/ MayTake(w) /\ tasks' = taken /\ Goes(w, "work") /\ troubles' = troubles
     \/ MayTake(w) /\ Trouble /\ tasks' = taken /\ Goes(w, "undo")
     \/ MayTake(w) /\ Trouble /\ tasks' \in {tasks, taken} /\ Goes(w, "free")
     \/ ~MayTake(w) /\ tasks' = tasks /\ Goes(w, "free") /\ troubles' = troubles
  /\ UNCHANGED <<slots, freeing>>

Holds(w) ==
  LET d == tasks[runner[w].task] IN d.token = w /\ d.fence = runner[w].fence

\* The lease is taken back; a failure is ignored, and the slot is released all the same.
Undo(w) ==
  LET t == runner[w].task IN
  /\ runner[w].at = "undo"
  /\ \/ Holds(w) /\ tasks' = [tasks EXCEPT ![t] = [Unleased(t, tasks[t].status) EXCEPT !.fence = @ + 1]]
     \/ tasks' = tasks
  /\ Goes(w, "free")
  /\ UNCHANGED <<slots, freeing, troubles>>

\* capacity.release, whose failure is ignored: the slot then stays until it is over.
GiveBack(w) ==
  /\ runner[w].at = "free"
  /\ \/ slots' = slots \ Mine(w) /\ troubles' = troubles
     \/ Trouble /\ slots' = (slots \ Mine(w)) \cup {[s EXCEPT !.token = None] : s \in Mine(w)}
  /\ Goes(w, "idle")
  /\ UNCHANGED <<tasks, freeing>>

\* The heartbeat renews the slot first, and gives up when it is over.
RenewSlot(w) ==
  /\ runner[w].at = "work"
  /\ IF Mine(w) # {}
     THEN /\ slots' = (slots \ Mine(w)) \cup {[s EXCEPT !.left = "live"] : s \in Mine(w)}
          /\ Goes(w, "renew")
     ELSE slots' = slots /\ Goes(w, "idle")
  /\ UNCHANGED <<tasks, freeing, troubles>>

\* ... then the lease of the task, which it never revives.
RenewTask(w) ==
  /\ runner[w].at = "renew"
  /\ IF Holds(w) /\ Open(runner[w].task) /\ tasks[runner[w].task].live
        /\ \E s \in Mine(w) : s.left = "live"
     THEN Goes(w, "work") ELSE Goes(w, "idle")
  /\ UNCHANGED <<tasks, slots, freeing, troubles>>

MaySave(w) == Holds(w) /\ Open(runner[w].task) /\ tasks[runner[w].task].live

\* saveClaimed: progress, or the end of the task, which gives lease and slot back; a worker
\* that may not save leaves.
Save(w) ==
  LET t == runner[w].task IN
  /\ runner[w].at \in {"work", "renew"}
  /\ \/ /\ MaySave(w) /\ tasks[t].status = "SUBMITTED"
        /\ tasks' = [tasks EXCEPT ![t].status = "WORKING"] /\ runner' = runner
     \/ /\ MaySave(w)
        /\ \E status \in {"COMPLETED", "FAILED"} : tasks' = [tasks EXCEPT ![t] = Unleased(t, status)]
        /\ Goes(w, "free")
     \/ ~MaySave(w) /\ tasks' = tasks /\ Goes(w, "idle")
  /\ UNCHANGED <<slots, freeing, troubles>>

\* releaseExecutionLease.
Release(w) ==
  LET t == runner[w].task IN
  /\ runner[w].at = "work" /\ Trouble
  /\ IF Holds(w) /\ Open(t)
     THEN /\ tasks' = [tasks EXCEPT ![t] = [Unleased(t, tasks[t].status) EXCEPT !.fence = @ + 1]]
          /\ Goes(w, "free")
     ELSE tasks' = tasks /\ Goes(w, "idle")
  /\ UNCHANGED <<slots, freeing>>

\* save of a cancellation, from any replica; the slot is freed in a second call.
Cancel(t) ==
  /\ Open(t)
  /\ tasks' = [tasks EXCEPT ![t] = [Unleased(t, "CANCELED") EXCEPT !.fence = @ + 1]]
  /\ freeing' = freeing \cup {s \in slots : s.task = t /\ s.token = tasks[t].token /\ s.fence = tasks[t].fence}
  /\ UNCHANGED <<slots, runner, troubles>>

FreeCanceled(s) ==
  /\ s \in freeing
  /\ freeing' = freeing \ {s}
  /\ slots' = {q \in slots : ~(q.task = s.task /\ q.token = s.token /\ q.fence = s.fence)}
  /\ UNCHANGED <<tasks, runner, troubles>>

\* The lease of a worker that still works ends only if its heartbeat is late.
LeaseEnds(t) ==
  /\ tasks[t].live
  /\ IF \E w \in Worker : runner[w].at \in {"undo", "work", "renew"} /\ runner[w].task = t /\ Holds(w)
     THEN Trouble ELSE troubles' = troubles
  /\ tasks' = [tasks EXCEPT ![t].live = FALSE]
  /\ UNCHANGED <<slots, runner, freeing>>

\* A slot comes to its safety margin after the lease that was taken from it; while its worker
\* is still to take the task only if that is late.
SlotCloses(s) ==
  /\ s \in slots /\ s.left = "live"
  /\ ~(tasks[s.task].live /\ tasks[s.task].token = s.token /\ tasks[s.task].fence = s.fence)
  /\ slots' = (slots \ {s}) \cup {[s EXCEPT !.left = "closing"]}
  /\ IF \E w \in Worker : s \in Mine(w) /\ runner[w].at = "take" THEN Trouble ELSE troubles' = troubles
  /\ UNCHANGED <<tasks, runner, freeing>>

SlotEnds(s) ==
  /\ s \in slots /\ s.left = "closing" /\ slots' = slots \ {s}
  /\ UNCHANGED <<tasks, runner, freeing, troubles>>

\* What the worker held keeps its token, which nobody has any more.
Crash(w) ==
  /\ runner[w].at # "idle" /\ Trouble
  /\ runner' = [runner EXCEPT ![w] = Idle]
  /\ tasks' = [t \in Task |-> IF tasks[t].token = w THEN [tasks[t] EXCEPT !.token = None] ELSE tasks[t]]
  /\ slots' = {[s EXCEPT !.token = IF @ = w THEN None ELSE @] : s \in slots}
  /\ UNCHANGED freeing

Next ==
  \/ \E t \in Task : Submit(t) \/ Cancel(t) \/ LeaseEnds(t) \/ \E w \in Worker : Read(w, t)
  \/ \E w \in Worker :
       \/ Acquire(w) \/ Take(w) \/ Undo(w) \/ GiveBack(w) \/ Save(w)
       \/ RenewSlot(w) \/ RenewTask(w) \/ Release(w) \/ Crash(w)
  \/ \E s \in slots \cup freeing : FreeCanceled(s) \/ SlotCloses(s) \/ SlotEnds(s)

-----------------------------------------------------------------------------

\* The task of worker w runs under its live lease.
RunsTask(w) == runner[w].at \in {"work", "renew"} /\ Holds(w) /\ tasks[runner[w].task].live

\* However slots and leases expire, are renewed, released and lost apart from each other, no
\* more tasks are run under a live lease than maxActiveTasks (acquire and claimTaskRecord).  A
\* lease whose claim failed after it took effect has no slot, and nobody runs its task.
CapacityHolds == Cardinality({runner[w].task : w \in {v \in Worker : RunsTask(v)}}) <= Capacity
=============================================================================
