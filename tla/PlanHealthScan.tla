-------------------------- MODULE PlanHealthScan --------------------------
(***************************************************************************)
(* The daily Plan Health scan: replicas compete for the lease of a period, *)
(* its holder inspects every user's current profile under a deadline, and  *)
(* an inspection publishes its event in a transaction fenced by the lease, *)
(* by the profile's revision and by a token of its own.                    *)
(***************************************************************************)
EXTENDS Naturals

CONSTANTS
  Worker,
  Users,        \* users 1 .. Users, in the order of their ids; a batch is one user
  Claims,       \* bound: executionGeneration of the period
  Revisions,    \* bound: revisions of the financial state of a user
  Troubles      \* bound: crashes, failed calls, late inspections, lost leases

VARIABLES
  lease,        \* the PlanHealthSchedulerLease of the period
  scans,        \* scans[w]: the scan replica w runs
  looks,        \* looks[g, u]: the inspection of u in generation g, its fence and its outcome
  revision,     \* revision[u]: the revision of u's FinancialProfileState
  troubles

scanVars == <<lease, scans, looks, revision, troubles>>

User == 1 .. Users
Look == (1 .. Claims) \X User
Ended == {"COMPLETED", "COMPLETED_WITH_ERRORS"}

TypeOK ==
  /\ lease \in [status : {"PENDING", "RUNNING", "FAILED"} \cup Ended, generation : 0 .. Claims, live : BOOLEAN,
                cursor : 0 .. Users, failed : BOOLEAN]
  /\ scans \in [Worker -> [at : {"idle", "list", "inspect"}, generation : 0 .. Claims, cursor : 0 .. Users, failed : BOOLEAN]]
  /\ looks \in [Look -> [at : {"none", "read", "write", "written", "over"}, revision : 0 .. Revisions, late : BOOLEAN,
                         fence : {"NONE", "RUNNING", "PUBLISHED", "TIMED_OUT", "STALE", "CANCELLED", "FAILED"},
                         outcome : {"none", "ok", "failed"}]]
  /\ revision \in [User -> 1 .. Revisions]
  /\ troubles \in 0 .. Troubles

Idle == [at |-> "idle", generation |-> 0, cursor |-> 0, failed |-> FALSE]

Init ==
  /\ lease = [status |-> "PENDING", generation |-> 0, live |-> FALSE, cursor |-> 0, failed |-> FALSE]
  /\ scans = [w \in Worker |-> Idle]
  /\ looks = [i \in Look |-> [at |-> "none", revision |-> 0, late |-> FALSE, fence |-> "NONE", outcome |-> "none"]]
  /\ revision = [u \in User |-> 1]
  /\ troubles = 0

-----------------------------------------------------------------------------
(* The scan *)

Trouble == troubles < Troubles /\ troubles' = troubles + 1

\* The filter of every write of the holder: its generation, RUNNING, before leaseUntil.
Holds(g) == lease.generation = g /\ lease.status = "RUNNING" /\ lease.live

Current(w) == <<scans[w].generation, scans[w].cursor + 1>>

\* claimPlanHealthSchedulerLease; the scan goes on where the last one saved its progress.
Claim(w) ==
  /\ scans[w].at = "idle" /\ lease.status \notin Ended /\ ~lease.live /\ lease.generation < Claims
  /\ lease' = [lease EXCEPT !.status = "RUNNING", !.generation = @ + 1, !.live = TRUE]
  /\ scans' = [scans EXCEPT ![w] =
       [at |-> "list", generation |-> lease.generation + 1, cursor |-> lease.cursor, failed |-> lease.failed]]
  /\ UNCHANGED <<looks, revision, troubles>>

\* The scan ends; what its inspections still do goes on.
Leave(w) == scans' = [scans EXCEPT ![w] = Idle]

\* assertLease, then the next user's state; the fence of its inspection is created.
Inspect(w) ==
  /\ scans[w].at = "list" /\ Holds(scans[w].generation) /\ scans[w].cursor < Users
  /\ scans' = [scans EXCEPT ![w].at = "inspect"]
  /\ looks' = [looks EXCEPT ![Current(w)] =
       [@ EXCEPT !.at = "read", !.revision = revision[Current(w)[2]], !.fence = "RUNNING"]]
  /\ UNCHANGED <<lease, revision, troubles>>

\* Mutant of Progress: the user counts as scanned when its inspection starts.
ProgressFirst(w) ==
  /\ scans[w].at = "inspect" /\ Holds(scans[w].generation)
  /\ lease' = [lease EXCEPT !.cursor = Current(w)[2], !.failed = @ \/ looks[Current(w)].outcome = "failed"]
  /\ scans' = [scans EXCEPT ![w].at = "list", ![w].cursor = @ + 1, ![w].failed = @ \/ looks[Current(w)].outcome = "failed"]
  /\ UNCHANGED <<looks, revision, troubles>>

\* The batch is over: its cursor and its failures are saved.
Progress(w) ==
  LET failed == looks[Current(w)].outcome = "failed" IN
  /\ scans[w].at = "inspect" /\ looks[Current(w)].outcome # "none" /\ Holds(scans[w].generation)
  /\ lease' = [lease EXCEPT !.cursor = Current(w)[2], !.failed = @ \/ failed]
  /\ scans' = [scans EXCEPT ![w].at = "list", ![w].cursor = @ + 1, ![w].failed = @ \/ failed]
  /\ UNCHANGED <<looks, revision, troubles>>

Complete(w) ==
  /\ scans[w].at = "list" /\ Holds(scans[w].generation) /\ scans[w].cursor = Users
  /\ lease' = [lease EXCEPT !.live = FALSE,
                            !.status = IF scans[w].failed THEN "COMPLETED_WITH_ERRORS" ELSE "COMPLETED"]
  /\ Leave(w)
  /\ UNCHANGED <<looks, revision, troubles>>

\* The assertion or the update misses: another replica has the period, or time is up.
LeaseLost(w) ==
  /\ scans[w].at # "idle"
  /\ scans[w].at = "inspect" => looks[Current(w)].outcome # "none"
  /\ ~Holds(scans[w].generation)
  /\ Leave(w)
  /\ UNCHANGED <<lease, looks, revision, troubles>>

\* invalidate: what is still RUNNING is over; the operation itself may go on.
Invalidated(i, status) ==
  IF looks[i].fence = "RUNNING" THEN [looks EXCEPT ![i].fence = status, ![i].outcome = "failed"]
  ELSE [looks EXCEPT ![i].outcome = "ok"]

\* A scan is aborted, by a failed heartbeat, or by a failed read or the end of the shutdown's
\* grace: then the period is given back.
Abort(w) ==
  /\ scans[w].at # "idle" /\ Trouble
  /\ scans[w].at = "inspect" => looks[Current(w)].outcome = "none"
  /\ Leave(w)
  /\ \E status \in {"STALE", "CANCELLED"} :
       /\ looks' = IF scans[w].at = "inspect" THEN Invalidated(Current(w), status) ELSE looks
       /\ lease' = IF status = "CANCELLED" /\ Holds(scans[w].generation)
                   THEN [lease EXCEPT !.status = "FAILED", !.live = FALSE] ELSE lease
  /\ UNCHANGED revision

\* Between heartbeats the lease of a live scan runs out only if the replica is late.
LeaseEnds ==
  /\ lease.live
  /\ IF \E w \in Worker : scans[w].at # "idle" /\ scans[w].generation = lease.generation
     THEN Trouble ELSE troubles' = troubles
  /\ lease' = [lease EXCEPT !.live = FALSE]
  /\ UNCHANGED <<scans, looks, revision>>

-----------------------------------------------------------------------------
(* One inspection *)

\* The first of the operation and the deadline decides the outcome.
Finish(i, fence, outcome) ==
  looks' = [looks EXCEPT ![i].at = "over", ![i].fence = fence,
                         ![i].outcome = IF @ = "none" THEN outcome ELSE @]

Failed(i) == Finish(i, IF looks[i].fence = "RUNNING" THEN "FAILED" ELSE looks[i].fence, "failed")

SameProfile(i) == revision[i[2]] = looks[i].revision

\* inspectPlanHealth reads the canonical profile and the plan, and asserts the lease.
Read(i) ==
  /\ looks[i].at = "read"
  /\ IF ~SameProfile(i) THEN Failed(i)
     ELSE IF ~Holds(i[1]) THEN Finish(i, looks[i].fence, "failed")
     ELSE looks' = [looks EXCEPT ![i].at = "write"]
  /\ UNCHANGED <<lease, scans, revision, troubles>>

Fenced(i) == Holds(i[1]) /\ SameProfile(i) /\ looks[i].fence = "RUNNING" /\ ~looks[i].late

\* withLeaseFence: events are resolved, superseded or created, and the token is PUBLISHED, in one transaction.
Publish(i) ==
  /\ looks[i].at = "write" /\ Fenced(i)
  /\ looks' = [looks EXCEPT ![i].at = "written", ![i].fence = "PUBLISHED"]
  /\ UNCHANGED <<lease, scans, revision, troubles>>

PublishRefused(i) ==
  /\ looks[i].at = "write" /\ ~Fenced(i)
  /\ IF ~Holds(i[1]) THEN Finish(i, looks[i].fence, "failed") ELSE Failed(i)
  /\ UNCHANGED <<lease, scans, revision, troubles>>

\* The outcome is read from the token; when that fails, a published inspection counts as failed.
Settle(i) ==
  /\ looks[i].at = "written"
  /\ \/ Finish(i, looks[i].fence, "ok") /\ troubles' = troubles
     \/ Finish(i, looks[i].fence, "failed") /\ Trouble
  /\ UNCHANGED <<lease, scans, revision>>

\* The deadline passes; the call that records it may fail.
Deadline(i) ==
  /\ looks[i].at \in {"read", "write", "written"} /\ looks[i].outcome = "none" /\ Trouble
  /\ \/ looks' = [Invalidated(i, "TIMED_OUT") EXCEPT ![i].late = TRUE]
     \/ looks' = [looks EXCEPT ![i].late = TRUE, ![i].outcome = "failed"]
  /\ UNCHANGED <<lease, scans, revision>>

-----------------------------------------------------------------------------

\* The replica dies, and its inspection with it.
Crash(w) ==
  /\ scans[w].at # "idle" /\ Trouble
  /\ Leave(w)
  /\ looks' = [i \in Look |-> IF i[1] = scans[w].generation THEN [looks[i] EXCEPT !.at = "over"] ELSE looks[i]]
  /\ UNCHANGED <<lease, revision>>

\* A profile is completed, updated or advised anew: its state has a new revision.
Promote(u) ==
  /\ revision[u] < Revisions
  /\ revision' = [revision EXCEPT ![u] = @ + 1]
  /\ UNCHANGED <<lease, scans, looks, troubles>>

Next ==
  \/ \E w \in Worker : Claim(w) \/ Inspect(w) \/ Progress(w) \/ Complete(w) \/ LeaseLost(w) \/ Abort(w) \/ Crash(w)
  \/ LeaseEnds
  \/ \E i \in Look : Read(i) \/ Publish(i) \/ PublishRefused(i) \/ Settle(i) \/ Deadline(i)
  \/ \E u \in User : Promote(u)

-----------------------------------------------------------------------------

\* A period is COMPLETED, without errors, only if every user's plan was inspected and the result
\* published in some generation of it, whichever replicas died, were late or took over
\* (profileStateCursor and failureCount, which a resumed scan inherits).
CompletedMeansInspected ==
  lease.status = "COMPLETED" => \A u \in User : \E g \in 1 .. Claims : looks[<<g, u>>].fence = "PUBLISHED"

=============================================================================
