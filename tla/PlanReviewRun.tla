--------------------------- MODULE PlanReviewRun ---------------------------
(***************************************************************************)
(* The queue of plan reviews of one profile: admission, workers with leased *)
(* and fenced runs, the durable budget of provider calls, retirement, and   *)
(* approval through a mandate.  One action per transaction or database call *)
(* of the worker; the nodes of the review graph between two calls are local *)
(* computation.                                                             *)
(***************************************************************************)
EXTENDS Naturals, FiniteSets

CONSTANTS
  Client,       \* requests that may ask for a review at the same time
  Worker,       \* plan review workers
  Runs,         \* bound: the reviews that may be created, 1 .. Runs
  Mandates,     \* bound: the mandates that may be created, 1 .. Mandates
  MaxChanges,   \* bound: changes of the financial source
  MaxAttempts,  \* PLAN_REVIEW_BUDGETS.maxAttempts (2)
  MaxCalls,     \* PLAN_REVIEW_BUDGETS.maxModelCalls (2)
  MaxNotes      \* bound: authorization events of one review

ASSUME BoundsAssumption ==
  /\ Runs \in Nat /\ Mandates \in Nat /\ MaxChanges \in Nat /\ MaxAttempts \in Nat \ {0}
  /\ MaxCalls \in Nat /\ MaxNotes \in Nat

VARIABLES
  runs,      \* the AgentRun documents
  events,    \* the numbers taken in each run's stream, with the AgentRunEvents they are for
  spent,     \* provider calls made for each run (history)
  source,    \* number of the user's current financial snapshot
  asked,     \* the snapshot each client read before its admission, or 0
  pc, mem,   \* where each worker is, and what it holds of its run
  mandates,  \* mandates created for the runs
  binding,   \* the mandate an approval has created and not yet bound, or 0
  sweep      \* the mandate whose reconciliation is to be marked, or 0

clientVars == <<asked, binding>>
workerVars == <<pc, mem>>
vars == <<runs, events, spent, source, pc, mem, mandates, sweep, clientVars>>

RunId == 1 .. Runs
Ended == {"COMPLETED", "FAILED", "CANCELLED", "SUPERSEDED", "BUDGET_EXCEEDED"}
Active == {"QUEUED", "RUNNING", "WAITING_FOR_APPROVAL"}
MandateEnd == {"EXECUTED", "REVOKED", "EXPIRED", "FAILED"}

\* due: its retryAt has come; saved: a replay checkpoint exists; calls: modelCallCount.
Run ==
  [status : Active \cup Ended \cup {"NONE"}, snap : Nat, gen : Nat, attempt : 0 .. MaxAttempts,
   lease : {"none", "live", "expired"}, due : BOOLEAN, seq : Nat, saved : BOOLEAN,
   calls : 0 .. MaxCalls, mandate : 0 .. Mandates]
NoRun ==
  [status |-> "NONE", snap |-> 0, gen |-> 0, attempt |-> 0, lease |-> "none", due |-> TRUE,
   seq |-> 0, saved |-> FALSE, calls |-> 0, mandate |-> 0]

\* A number is TAKEN until the authorization event it was allocated for is created.
Note == {"TAKEN", "AUTHORIZATION"}
Event == [seq : Nat, type : Ended \cup {"PROGRESS", "RETRY", "WAITING"} \cup Note]

\* err: why the run failed; seq: the event sequence finishRun read.
Memory ==
  [run : 0 .. Runs, gen : Nat, attempt : Nat, calls : Nat, seq : Nat,
   err : {"none", "retry", "fatal", "superseded", "budget"}]
Idle == [run |-> 0, gen |-> 0, attempt |-> 0, calls |-> 0, seq |-> 0, err |-> "none"]

TypeOK ==
  /\ runs \in [RunId -> Run]
  /\ events \in [RunId -> SUBSET Event]
  /\ spent \in [RunId -> Nat]
  /\ source \in 1 .. MaxChanges + 1
  /\ asked \in [Client -> 0 .. MaxChanges + 1]
  /\ pc \in [Worker -> {"idle", "load", "note", "event", "model", "call", "finish", "publish", "fail"}]
  /\ mem \in [Worker -> Memory]
  /\ mandates \in [1 .. Mandates -> [status : {"none", "open"} \cup MandateEnd, run : 0 .. Runs, settled : BOOLEAN]]
  /\ binding \in 0 .. Mandates
  /\ sweep \in 0 .. Mandates

Init ==
  /\ runs = [r \in RunId |-> NoRun] /\ events = [r \in RunId |-> {}] /\ spent = [r \in RunId |-> 0]
  /\ source = 1 /\ asked = [c \in Client |-> 0]
  /\ pc = [w \in Worker |-> "idle"] /\ mem = [w \in Worker |-> Idle]
  /\ mandates = [m \in 1 .. Mandates |-> [status |-> "none", run |-> 0, settled |-> FALSE]]
  /\ binding = 0 /\ sweep = 0

-----------------------------------------------------------------------------
(* Writes shared by several handlers *)

\* Run r as a terminal transition leaves it.
Over(r, status) == [r EXCEPT !.status = status, !.lease = "none"]

\* The event that a transaction publishes with its write of run r.
Published(r, type) == events[r] \cup {[seq |-> runs[r].seq + 1, type |-> type]}

Counted(r) == [r EXCEPT !.seq = @ + 1]

\* terminalizePlanReviewRun: the status is one the caller expects, or nothing happens.
Retired(r, status) ==
  /\ runs' = [runs EXCEPT ![r] = Counted(Over(@, status))]
  /\ events' = [events EXCEPT ![r] = Published(r, status)]

-----------------------------------------------------------------------------
(* The user's side *)

\* The source of the review is computed before the admission transaction.
ReadSource(c) ==
  /\ asked[c] = 0
  /\ asked' = [asked EXCEPT ![c] = source]
  /\ UNCHANGED <<runs, events, spent, source, workerVars, mandates, binding, sweep>>

\* Mutant of Stale: the admission leaves what is waiting for approval alone.
StaleUnlessWaiting(r, snap) == runs[r].status \in {"QUEUED", "RUNNING"} /\ runs[r].snap # snap

Stale(r, snap) == runs[r].status \in Active /\ runs[r].snap # snap

\* One admission at a time: the gate document makes the transactions conflict.
Admit(c) ==
  LET snap == asked[c]
      stale == {r \in RunId : Stale(r, snap)}
      same == {r \in RunId : runs[r].status \in Active /\ runs[r].snap = snap}
      free == {r \in RunId : runs[r].status = "NONE"}
      new == CHOOSE r \in free : TRUE
  IN /\ snap # 0
     /\ same = {} => free # {}
     /\ runs' = [r \in RunId |->
          CASE r \in stale -> Counted(Over(runs[r], "SUPERSEDED"))
            [] same = {} /\ r = new -> [NoRun EXCEPT !.status = "QUEUED", !.snap = snap]
            [] OTHER -> runs[r]]
     /\ events' = [r \in RunId |-> IF r \in stale THEN Published(r, "SUPERSEDED") ELSE events[r]]
     /\ asked' = [asked EXCEPT ![c] = 0]
     /\ UNCHANGED <<spent, source, workerVars, mandates, binding, sweep>>

\* Mutant of Supersede: the status read is not compared again.
SupersedeAnyway(r) ==
  /\ runs[r].status # "NONE" /\ runs[r].snap # source
  /\ Retired(r, "SUPERSEDED")
  /\ UNCHANGED <<spent, source, clientVars, workerVars, mandates, sweep>>

\* getPlanReviewRun: the status it read must still be there, and a source never comes back,
\* so its reads count as made at its write.
Supersede(r) ==
  /\ runs[r].status \in Active /\ runs[r].snap # source
  /\ Retired(r, "SUPERSEDED")
  /\ UNCHANGED <<spent, source, clientVars, workerVars, mandates, sweep>>

Cancel(r) ==
  /\ runs[r].status \in Active
  /\ Retired(r, "CANCELLED")
  /\ UNCHANGED <<spent, source, clientVars, workerVars, mandates, sweep>>

\* A profile update, a rebalance, a new recommendation.
SourceChanges ==
  /\ source <= MaxChanges /\ source' = source + 1
  /\ UNCHANGED <<runs, events, spent, clientVars, workerVars, mandates, sweep>>

-----------------------------------------------------------------------------
(* The worker *)

Goes(w, place, m) ==
  /\ pc' = [pc EXCEPT ![w] = place]
  /\ mem' = [mem EXCEPT ![w] = IF place = "idle" THEN Idle ELSE m]

Held(w) == runs[mem[w].run]

\* The lease filter of every write of a worker.
Holds(w) == Held(w).status = "RUNNING" /\ Held(w).gen = mem[w].gen /\ Held(w).lease = "live"

\* Mutant of Claimable: an expired run is left alone.
QueuedOnly(r) == runs[r].status = "QUEUED" /\ runs[r].due

Claimable(r) ==
  \/ runs[r].status = "QUEUED" /\ runs[r].due
  \/ runs[r].status = "RUNNING" /\ runs[r].lease = "expired" /\ runs[r].attempt < MaxAttempts

\* Mutant of CallsSoFar: a new attempt starts with its own budget.
CallsOfAttempt(r) == 0

\* reconcilePlanReviewReplayCheckpoint: without a checkpoint there is nothing to go on from.
CallsSoFar(r) == IF runs[r].saved THEN runs[r].calls ELSE 0

\* claimNextPlanReviewRun, and the counters of the replay checkpoint.
Claim(w) ==
  /\ pc[w] = "idle"
  /\ \E r \in RunId :
       /\ Claimable(r)
       /\ runs' = [runs EXCEPT ![r].status = "RUNNING", ![r].lease = "live", ![r].due = TRUE,
                               ![r].attempt = @ + 1, ![r].gen = @ + 1]
       /\ Goes(w, "load", [Idle EXCEPT !.run = r, !.gen = runs[r].gen + 1, !.attempt = runs[r].attempt + 1,
                                       !.calls = CallsSoFar(r)])
  /\ UNCHANGED <<events, spent, source, clientVars, mandates, sweep>>

\* load_context: the review is only started for the source it was asked for.
LoadContext(w) ==
  /\ pc[w] = "load"
  /\ IF Held(w).snap = source THEN Goes(w, "note", mem[w]) ELSE Goes(w, "fail", [mem[w] EXCEPT !.err = "superseded"])
  /\ UNCHANGED <<runs, events, spent, source, clientVars, mandates, sweep>>

\* updateProgress writes the checkpoint behind the lease.
Checkpoint(w) ==
  /\ pc[w] = "note"
  /\ IF Holds(w) THEN runs' = [runs EXCEPT ![mem[w].run].saved = TRUE] /\ Goes(w, "event", mem[w])
                 ELSE runs' = runs /\ Goes(w, "idle", mem[w])
  /\ UNCHANGED <<events, spent, source, clientVars, mandates, sweep>>

\* appendEvent: best effort, behind the lease.
AppendEvent(w) ==
  LET r == mem[w].run IN
  /\ pc[w] = "event"
  /\ \/ /\ Holds(w)
        /\ runs' = [runs EXCEPT ![r] = Counted(@)]
        /\ events' = [events EXCEPT ![r] = Published(r, "PROGRESS")]
     \/ UNCHANGED <<runs, events>>
  /\ \E place \in {"model", "finish"} : Goes(w, place, mem[w])
  /\ UNCHANGED <<spent, source, clientVars, mandates, sweep>>

\* Mutant of MayReserve: any worker of the run may reserve.
MayReserveAnyLease(w) == Held(w).status = "RUNNING"

MayReserve(w) == Holds(w)

\* A provider call is reserved in memory, then durably, then made.
Reserve(w) ==
  LET r == mem[w].run
      m == [mem[w] EXCEPT !.calls = @ + 1]
  IN /\ pc[w] = "model"
     /\ \/ /\ mem[w].calls >= MaxCalls /\ runs' = runs
           /\ Goes(w, "fail", [mem[w] EXCEPT !.err = "budget"])
        \/ /\ mem[w].calls < MaxCalls /\ MayReserve(w)
           /\ runs' = [runs EXCEPT ![r].calls = IF @ < m.calls THEN m.calls ELSE @]
           /\ Goes(w, "call", m)
        \/ mem[w].calls < MaxCalls /\ ~MayReserve(w) /\ runs' = runs /\ Goes(w, "idle", m)
     /\ UNCHANGED <<events, spent, source, clientVars, mandates, sweep>>

Call(w) ==
  /\ pc[w] = "call"
  /\ spent' = [spent EXCEPT ![mem[w].run] = @ + 1]
  /\ \E place \in {"model", "finish"} : Goes(w, place, mem[w])
  /\ UNCHANGED <<runs, events, source, clientVars, mandates, sweep>>

\* finishRun reads the run and its event sequence before its transaction.
ReadForFinish(w) ==
  /\ pc[w] = "finish"
  /\ IF Holds(w) THEN Goes(w, "publish", [mem[w] EXCEPT !.seq = Held(w).seq]) ELSE Goes(w, "idle", mem[w])
  /\ UNCHANGED <<runs, events, spent, source, clientVars, mandates, sweep>>

MayPublish(w) == Held(w).snap = source

Publishes(w) == Holds(w) /\ Held(w).seq = mem[w].seq

\* The result is published with its terminal event, against the source it was made for.
Publish(w) ==
  LET r == mem[w].run IN
  /\ pc[w] = "publish"
  /\ \/ /\ ~MayPublish(w)
        /\ Goes(w, "fail", [mem[w] EXCEPT !.err = "superseded"]) /\ UNCHANGED <<runs, events>>
     \/ /\ MayPublish(w) /\ Publishes(w)
        /\ \E status \in {"COMPLETED", "WAITING_FOR_APPROVAL"} :
             /\ runs' = [runs EXCEPT ![r] = [Counted(Over(@, status)) EXCEPT !.calls = mem[w].calls]]
             /\ events' = [events EXCEPT ![r] = @ \cup {[seq |-> mem[w].seq + 1,
                             type |-> IF status = "COMPLETED" THEN status ELSE "WAITING"]}]
        /\ Goes(w, "idle", mem[w])
     \/ /\ MayPublish(w) /\ ~Publishes(w)
        /\ Goes(w, "idle", mem[w]) /\ UNCHANGED <<runs, events>>
  /\ UNCHANGED <<spent, source, clientVars, mandates, sweep>>

Outcome(w) ==
  CASE mem[w].err = "superseded" -> "SUPERSEDED"
    [] mem[w].err = "budget" -> "BUDGET_EXCEEDED"
    [] mem[w].err = "retry" /\ mem[w].attempt < MaxAttempts -> "QUEUED"
    [] OTHER -> "FAILED"

\* Mutant of FailRun: the failed run is found by its id alone.
FailRunUnfenced(w) ==
  LET r == mem[w].run IN
  /\ pc[w] = "fail"
  /\ runs' = [runs EXCEPT ![r] = [Counted(Over(@, Outcome(w))) EXCEPT !.due = Outcome(w) # "QUEUED"]]
  /\ events' = [events EXCEPT ![r] = Published(r, IF Outcome(w) = "QUEUED" THEN "RETRY" ELSE Outcome(w))]
  /\ Goes(w, "idle", mem[w])
  /\ UNCHANGED <<spent, source, clientVars, mandates, sweep>>

\* failRun: end the run or queue it again, behind the lease; the usage measured is kept.
FailRun(w) ==
  LET r == mem[w].run IN
  /\ pc[w] = "fail"
  /\ IF Holds(w)
     THEN /\ runs' = [runs EXCEPT ![r] =
                [Counted(Over(runs[r], Outcome(w))) EXCEPT !.due = Outcome(w) # "QUEUED",
                   !.calls = IF @ < mem[w].calls THEN mem[w].calls ELSE @]]
          /\ events' = [events EXCEPT ![r] = Published(r, IF Outcome(w) = "QUEUED" THEN "RETRY" ELSE Outcome(w))]
     ELSE UNCHANGED <<runs, events>>
  /\ Goes(w, "idle", mem[w])
  /\ UNCHANGED <<spent, source, clientVars, mandates, sweep>>

\* The work fails or times out; a provider call on its way may still be made.
WorkFails(w) ==
  /\ pc[w] \in {"load", "note", "event", "model", "call", "finish", "publish"}
  /\ \E err \in {"retry", "fatal"} : Goes(w, "fail", [mem[w] EXCEPT !.err = err])
  /\ \/ spent' = spent
     \/ pc[w] = "call" /\ spent' = [spent EXCEPT ![mem[w].run] = @ + 1]
  /\ UNCHANGED <<runs, events, source, clientVars, mandates, sweep>>

\* The process dies, or its heartbeat finds the lease lost and aborts the work.
WorkerStops(w) ==
  /\ pc[w] # "idle"
  /\ Goes(w, "idle", mem[w])
  /\ UNCHANGED <<runs, events, spent, source, clientVars, mandates, sweep>>

LeaseExpires(r) ==
  /\ runs[r].status = "RUNNING" /\ runs[r].lease = "live"
  /\ runs' = [runs EXCEPT ![r].lease = "expired"]
  /\ UNCHANGED <<events, spent, source, clientVars, workerVars, mandates, sweep>>

RetryDue(r) ==
  /\ runs[r].status = "QUEUED" /\ ~runs[r].due
  /\ runs' = [runs EXCEPT ![r].due = TRUE]
  /\ UNCHANGED <<events, spent, source, clientVars, workerVars, mandates, sweep>>

\* recoverExpiredPlanReviewRuns: everything it found is in the filter of its write, so its
\* reads count as made at its write.
Recover(r) ==
  /\ runs[r].status = "RUNNING" /\ runs[r].lease = "expired" /\ runs[r].attempt >= MaxAttempts
  /\ Retired(r, "FAILED")
  /\ UNCHANGED <<spent, source, clientVars, workerVars, mandates, sweep>>

-----------------------------------------------------------------------------
(* Approval *)

\* The review is approved or rejected where mandates are switched off, or rejected.
Decide(r) ==
  /\ runs[r].status = "WAITING_FOR_APPROVAL" /\ runs[r].snap = source
  /\ runs' = [runs EXCEPT ![r] = Over(@, "COMPLETED")]
  /\ UNCHANGED <<events, spent, source, clientVars, workerVars, mandates, sweep>>

Notes(r) == {e \in events[r] : e.type \in Note}

\* Mutant of NumberNote: the number after the last event is taken and not counted in the run.
NumberAfterTail(r) ==
  /\ \E e \in events[r] : e.type = "WAITING"
  /\ Cardinality(Notes(r)) < MaxNotes
  /\ events' = [events EXCEPT ![r] = Published(r, "TAKEN")]
  /\ UNCHANGED <<runs, spent, source, clientVars, workerVars, mandates, sweep>>

\* appendAuthorizationEvent for a review that was put to its user: the handlers that propose
\* an action, create, verify, revoke or execute a mandate call it beside their writes, here
\* CreateMandate, Bind and MandateEnds, and go on whether or not it succeeds.  It takes the
\* run's next number, whatever became of the run, and creates the event in a second write.
NumberNote(r) ==
  /\ \E e \in events[r] : e.type = "WAITING"
  /\ Cardinality(Notes(r)) < MaxNotes
  /\ runs' = [runs EXCEPT ![r] = Counted(@)]
  /\ events' = [events EXCEPT ![r] = Published(r, "TAKEN")]
  /\ UNCHANGED <<spent, source, clientVars, workerVars, mandates, sweep>>

CreateNote(r) ==
  /\ \E e \in events[r] :
       /\ e.type = "TAKEN"
       /\ events' = [events EXCEPT ![r] = (@ \ {e}) \cup {[e EXCEPT !.type = "AUTHORIZATION"]}]
  /\ UNCHANGED <<runs, spent, source, clientVars, workerVars, mandates, sweep>>

\* APPROVE_RECOMPUTE creates a mandate for the review and binds it in a second write.
CreateMandate(r) ==
  /\ binding = 0 /\ runs[r].status = "WAITING_FOR_APPROVAL" /\ runs[r].snap = source
  /\ \E m \in 1 .. Mandates :
       /\ mandates[m].status = "none" /\ \A k \in 1 .. m - 1 : mandates[k].status # "none"
       /\ mandates' = [mandates EXCEPT ![m].status = "open", ![m].run = r]
       /\ binding' = m
  /\ UNCHANGED <<runs, events, spent, source, asked, workerVars, sweep>>

\* A review that moved on is not bound, and the mandate is revoked.
Bind ==
  LET r == mandates[binding].run IN
  /\ binding # 0
  /\ IF runs[r].status = "WAITING_FOR_APPROVAL"
     THEN runs' = [runs EXCEPT ![r].mandate = binding] /\ mandates' = mandates
     ELSE /\ runs' = runs
          /\ mandates' = [mandates EXCEPT ![binding].status = IF @ = "open" THEN "REVOKED" ELSE @]
  /\ binding' = 0
  /\ UNCHANGED <<events, spent, source, asked, workerVars, sweep>>

\* The server dies between the mandate and its binding.
ApprovalLost ==
  /\ binding # 0 /\ binding' = 0
  /\ UNCHANGED <<runs, events, spent, source, asked, workerVars, mandates, sweep>>

MandateResult(outcome) ==
  CASE outcome = "EXECUTED" -> "COMPLETED" [] outcome = "REVOKED" -> "CANCELLED" [] OTHER -> "FAILED"

Bound(m) == mandates[m].run # 0 /\ runs[mandates[m].run].mandate = m

\* completePlanReviewMandateAction for mandate m, which has ended with this outcome.
Completion(m, outcome) ==
  IF Bound(m) /\ runs[mandates[m].run].status = "WAITING_FOR_APPROVAL"
  THEN runs' = [runs EXCEPT ![mandates[m].run] = Over(@, MandateResult(outcome))] ELSE runs' = runs

\* The mandate expires, is revoked, found stale, or executed: the last changes the source.
\* The handler of the execution or revocation completes the review, or dies before.
MandateEnds(m) ==
  /\ mandates[m].status = "open"
  /\ \E outcome \in MandateEnd :
       /\ outcome = "EXECUTED" => source = runs[mandates[m].run].snap /\ source <= MaxChanges
       /\ source' = IF outcome = "EXECUTED" THEN source + 1 ELSE source
       /\ mandates' = [mandates EXCEPT ![m].status = outcome]
       /\ \/ outcome \in {"EXECUTED", "REVOKED"} /\ Completion(m, outcome)
          \/ runs' = runs
  /\ UNCHANGED <<events, spent, clientVars, workerVars, sweep>>

MandateExpires(m) ==
  /\ mandates[m].status = "open"
  /\ mandates' = [mandates EXCEPT ![m].status = "EXPIRED"]
  /\ UNCHANGED <<runs, events, spent, source, clientVars, workerVars, sweep>>

\* Mutant of ToSettle: an expired mandate is not looked for.
ToSettleByUser(m) == mandates[m].status \in {"EXECUTED", "REVOKED", "FAILED"} /\ ~mandates[m].settled

ToSettle(m) == mandates[m].status \in MandateEnd /\ ~mandates[m].settled

\* reconcileTerminalPlanReviewMandates: complete the review if it waits for this mandate;
\* whether it did or another status or mandate was found, the mandate is marked later.
SweepMandate(m) ==
  /\ sweep = 0 /\ ToSettle(m)
  /\ Completion(m, mandates[m].status)
  /\ sweep' = m
  /\ UNCHANGED <<events, spent, source, clientVars, workerVars, mandates>>

SweepMark ==
  /\ sweep # 0
  /\ mandates' = [mandates EXCEPT ![sweep].settled = TRUE]
  /\ sweep' = 0
  /\ UNCHANGED <<runs, events, spent, source, clientVars, workerVars>>

-----------------------------------------------------------------------------

Work(w) ==
  \/ LoadContext(w) \/ Checkpoint(w) \/ AppendEvent(w) \/ Reserve(w) \/ Call(w)
  \/ ReadForFinish(w) \/ Publish(w) \/ FailRun(w)

Next ==
  \/ \E c \in Client : ReadSource(c) \/ Admit(c)
  \/ \E r \in RunId :
       \/ Supersede(r) \/ Cancel(r) \/ LeaseExpires(r) \/ RetryDue(r) \/ Recover(r)
       \/ Decide(r) \/ CreateMandate(r) \/ NumberNote(r) \/ CreateNote(r)
  \/ SourceChanges \/ Bind \/ ApprovalLost \/ SweepMark
  \/ \E w \in Worker : Claim(w) \/ Work(w) \/ WorkFails(w) \/ WorkerStops(w)
  \/ \E m \in 1 .. Mandates : MandateEnds(m) \/ MandateExpires(m) \/ SweepMandate(m)

Spec == Init /\ [][Next]_vars

\* Workers poll, sweeps run on timers, leases, retries and mandates have their time.
FairSpec ==
  /\ Spec
  /\ \A w \in Worker : WF_vars(Work(w)) /\ SF_vars(Claim(w))
  /\ \A r \in RunId : WF_vars(LeaseExpires(r)) /\ WF_vars(RetryDue(r)) /\ WF_vars(Recover(r))
  /\ WF_vars(SweepMark)
  /\ \A m \in 1 .. Mandates : WF_vars(MandateExpires(m)) /\ SF_vars(SweepMandate(m))

-----------------------------------------------------------------------------

\* However admissions, workers, sweeps and approvals interleave, a profile has one review
\* that is queued, running or waiting (the admission gate and activeDedupeKey).
OneActiveReview == \A r, q \in RunId : runs[r].status \in Active /\ runs[q].status \in Active => r = q

\* Whoever writes to the stream of a run (GET /plan-review/:runId/events), its workers, the
\* sweeps, the user or the authorization handlers, no number is allocated twice or left out;
\* a terminal event names the status the run has and only authorization events follow it;
\* and a review without one was ended by its user's decision or mandate.
EventsTellTheEnd ==
  \A r \in RunId :
    /\ {e.seq : e \in events[r]} = 1 .. runs[r].seq
    /\ Cardinality(events[r]) = runs[r].seq
    /\ \A e \in events[r] : e.type \in Ended =>
         /\ runs[r].status = e.type
         /\ \A f \in events[r] : f.seq > e.seq => f.type \in Note
    /\ runs[r].status \in Ended => \E e \in events[r] : e.type \in {runs[r].status, "WAITING"}

\* Whatever crashed or was taken over between the reservation of a call and the call, no
\* review makes more provider calls over all its attempts than its budget.
CallsStayInBudget == \A r \in RunId : spent[r] <= MaxCalls

\* A worker whose run was claimed by another, retired or recovered writes nothing more to it.
FencedWorkerWritesNothing ==
  [][\A w \in Worker :
       (pc[w] # "idle" /\ pc'[w] # pc[w] /\ (mem[w].gen # Held(w).gen \/ Held(w).status \in Ended))
       => runs'[mem[w].run] = runs[mem[w].run] /\ events'[mem[w].run] = events[mem[w].run]]_vars

Phase(r) ==
  CASE runs[r].status = "NONE" -> "absent" [] runs[r].status = "QUEUED" -> "queued"
    [] runs[r].status = "RUNNING" -> "running" [] runs[r].status = "WAITING_FOR_APPROVAL" -> "waiting"
    [] OTHER -> runs[r].status

Lifecycle == INSTANCE ReviewLifecycle WITH
  Review <- RunId, Starts <- MaxAttempts,
  phase <- [r \in RunId |-> Phase(r)], started <- [r \in RunId |-> runs[r].attempt]

\* Each review is started MaxAttempts times at most and ends once, whoever ends it.
ImplementsLifecycle == Lifecycle!LSpec

\* A review that is queued or running ends or waits for its user, whatever workers die, and
\* one that waits for a mandate does not wait for ever, also when the server that ended the
\* mandate died before it completed the review (the sweeps of the worker).
ReviewComesToAnEnd ==
  /\ \A r \in RunId : runs[r].status \in {"QUEUED", "RUNNING"} ~> runs[r].status \in Ended \cup {"WAITING_FOR_APPROVAL"}
  /\ \A m \in 1 .. Mandates :
       (mandates[m].status = "open" /\ Bound(m) /\ runs[mandates[m].run].status = "WAITING_FOR_APPROVAL")
       ~> ~(Bound(m) /\ runs[mandates[m].run].status = "WAITING_FOR_APPROVAL")
=============================================================================
