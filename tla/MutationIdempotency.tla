------------------------ MODULE MutationIdempotency ------------------------
(***************************************************************************)
(* Exactly-once creation of a goal or a profile under one Idempotency-Key. *)
(*                                                                         *)
(* Models claimMutation, pollForMutationCompletion, the heartbeat,         *)
(* completeMutationIdempotency, resolveCommittedMutationForClaim and       *)
(* releaseMutationIdempotency of server/middleware/idempotency.js, driven  *)
(* by the POST /goals/create handler of server/routes/goals.js (POST       *)
(* /profile/build runs the same protocol).                                 *)
(*                                                                         *)
(* Every database call is a step of its own: the requests interleave       *)
(* between them, a worker may die before any of them, and any call may     *)
(* fail with or without having taken effect.  The commit is one step: the  *)
(* snapshot transaction updates the claim and inserts the resource, and a  *)
(* concurrent write of the claim aborts and retries it.                    *)
(***************************************************************************)
EXTENDS IdempotencyRecord, FiniteSets

CONSTANTS
  Wait,      \* MUTATION_WAIT_MS, in ticks
  Impatient  \* requests whose client may hang up before the answer

ASSUME WaitAssumption == Wait \in Nat \ {0}
ASSUME ImpatientAssumption == Impatient \subseteq Request

VARIABLES
  rec,        \* the IdempotencyKey document of the operation
  resources,  \* the resources created, each named by the request that created it
  payload,    \* payload[r]: the hash of request r
  ahead,      \* ahead[r]: how far the clock of r's server runs ahead
  pc,         \* where request r is
  seen,       \* seen[r]: the document r read last
  first,      \* first[r]: the owner of the document r found (existing.lockOwnerId)
  waiting,    \* waiting[r]: ticks until the polling deadline of r
  beating,    \* beating[r]: the heartbeat timer of r runs
  lost,       \* lost[r]: claim.lost
  gone,       \* gone[r]: the client of r hung up
  reply       \* reply[r]: the answer of r

worker == <<seen, first, waiting, beating, lost, gone, reply>>
vars == <<rec, resources, payload, ahead, pc, worker>>

PreClaim == {"idle", "find", "create", "poll", "takeover"}
Handling == {"work", "commit"}
Place == PreClaim \cup Handling \cup {"reconcile", "committed", "failed", "release", "end", "crashed"}

Reply ==
  [kind : {"none", "created", "replayed", "conflict", "in_progress", "error"},
   resource : Request \cup {None}]

NoReply == [kind |-> "none", resource |-> None]
Refusal(k) == [kind |-> k, resource |-> None]
Success(k, res) == [kind |-> k, resource |-> res]

TypeOK ==
  /\ rec \in Record
  /\ resources \subseteq Request
  /\ payload \in [Request -> Payload]
  /\ ahead \in [Request -> 0 .. Skew]
  /\ pc \in [Request -> Place]
  /\ seen \in [Request -> Record]
  /\ first \in [Request -> Request \cup {None}]
  /\ waiting \in [Request -> 0 .. Wait]
  /\ beating \in [Request -> BOOLEAN]
  /\ lost \in [Request -> BOOLEAN]
  /\ gone \in [Request -> BOOLEAN]
  /\ reply \in [Request -> Reply]

Init ==
  /\ rec = Absent
  /\ resources = {}
  /\ payload \in [Request -> Payload]
  /\ ahead \in [Request -> 0 .. Skew]
  /\ pc = [r \in Request |-> "idle"]
  /\ seen = [r \in Request |-> Absent]
  /\ first = [r \in Request |-> None]
  /\ waiting = [r \in Request |-> 0]
  /\ beating = [r \in Request |-> FALSE]
  /\ lost = [r \in Request |-> FALSE]
  /\ gone = [r \in Request |-> FALSE]
  /\ reply = [r \in Request |-> NoReply]

Goto(r, place) == pc' = [pc EXCEPT ![r] = place]

\* The request leaves the claim loop with an answer and holds no claim.
Answer(r, a) ==
  /\ reply' = [reply EXCEPT ![r] = a]
  /\ seen' = [seen EXCEPT ![r] = Absent]
  /\ first' = [first EXCEPT ![r] = None]
  /\ waiting' = [waiting EXCEPT ![r] = 0]
  /\ Goto(r, "end")
  /\ UNCHANGED <<beating, lost, gone>>

\* claimMutation returns a claim and the middleware starts the heartbeat.
Claimed(r) ==
  /\ beating' = [beating EXCEPT ![r] = TRUE]
  /\ seen' = [seen EXCEPT ![r] = Absent]
  /\ first' = [first EXCEPT ![r] = None]
  /\ Goto(r, "work")
  /\ UNCHANGED <<waiting, lost, gone, reply>>

-----------------------------------------------------------------------------
(* The claim: claimMutation and pollForMutationCompletion.                 *)

Arrive(r) ==
  /\ pc[r] = "idle"
  /\ Goto(r, "find")
  /\ UNCHANGED <<rec, resources, payload, ahead, worker>>

FindNothing(r) ==
  /\ pc[r] = "find" /\ rec.status = "ABSENT"
  /\ Goto(r, "create")
  /\ UNCHANGED <<rec, resources, payload, ahead, worker>>

FindConflict(r) ==
  /\ pc[r] = "find" /\ rec.status # "ABSENT" /\ rec.hash # payload[r]
  /\ Answer(r, Refusal("conflict"))
  /\ UNCHANGED <<rec, resources, payload, ahead>>

\* Mutant of FindDone: a DONE claim is replayed whatever payload it is bound to.
FindDoneAnyPayload(r) ==
  /\ pc[r] = "find" /\ rec.status = "DONE"
  /\ Answer(r, Success("replayed", rec.resource))
  /\ UNCHANGED <<rec, resources, payload, ahead>>

FindDone(r) ==
  /\ pc[r] = "find" /\ rec.status = "DONE" /\ rec.hash = payload[r]
  /\ Answer(r, Success("replayed", rec.resource))
  /\ UNCHANGED <<rec, resources, payload, ahead>>

FindLock(r) ==
  /\ pc[r] = "find" /\ rec.status = "LOCK" /\ rec.hash = payload[r]
  /\ seen' = [seen EXCEPT ![r] = rec]
  /\ first' = [first EXCEPT ![r] = rec.owner]
  /\ waiting' = [waiting EXCEPT ![r] = Wait]
  /\ Goto(r, "poll")
  /\ UNCHANGED <<rec, resources, payload, ahead, beating, lost, gone, reply>>

Create(r) ==
  /\ pc[r] = "create" /\ rec.status = "ABSENT"
  /\ rec' = Locked(r, payload[r], ahead[r])
  /\ Claimed(r)
  /\ UNCHANGED <<resources, payload, ahead>>

\* Duplicate key: another request created the document first.
CreateDuplicate(r) ==
  /\ pc[r] = "create" /\ rec.status # "ABSENT"
  /\ Goto(r, "find")
  /\ UNCHANGED <<rec, resources, payload, ahead, worker>>

PollTimeout(r) ==
  /\ pc[r] = "poll" /\ waiting[r] = 0
  /\ Answer(r, Refusal("in_progress"))
  /\ UNCHANGED <<rec, resources, payload, ahead>>

PollConflict(r) ==
  /\ pc[r] = "poll" /\ waiting[r] > 0 /\ seen[r].hash # payload[r]
  /\ Answer(r, Refusal("conflict"))
  /\ UNCHANGED <<rec, resources, payload, ahead>>

PollDone(r) ==
  /\ pc[r] = "poll" /\ waiting[r] > 0 /\ seen[r].hash = payload[r] /\ seen[r].status = "DONE"
  /\ Answer(r, Success("replayed", seen[r].resource))
  /\ UNCHANGED <<rec, resources, payload, ahead>>

LeavePoll(r) ==
  /\ seen' = [seen EXCEPT ![r] = Absent]
  /\ waiting' = [waiting EXCEPT ![r] = 0]
  /\ Goto(r, "takeover")
  /\ UNCHANGED <<first, beating, lost, gone, reply>>

PollExpired(r) ==
  /\ pc[r] = "poll" /\ waiting[r] > 0
  /\ seen[r].hash = payload[r] /\ seen[r].status = "LOCK" /\ Expired(seen[r], ahead[r])
  /\ LeavePoll(r)
  /\ UNCHANGED <<rec, resources, payload, ahead>>

\* The lease seen is still running: sleep, then read the document again.
PollRead(r) ==
  /\ pc[r] = "poll" /\ waiting[r] > 0
  /\ seen[r].hash = payload[r] /\ seen[r].status = "LOCK" /\ ~ Expired(seen[r], ahead[r])
  /\ \/ /\ rec.status = "ABSENT"
        /\ LeavePoll(r)
     \/ /\ rec.status # "ABSENT"
        /\ seen' = [seen EXCEPT ![r] = rec]
        /\ UNCHANGED <<pc, first, waiting, beating, lost, gone, reply>>
  /\ UNCHANGED <<rec, resources, payload, ahead>>

CanTakeOver(r) == Owns(rec, first[r], payload[r]) /\ Expired(rec, ahead[r])

Takeover(r) ==
  /\ pc[r] = "takeover" /\ CanTakeOver(r)
  /\ rec' = Locked(r, payload[r], ahead[r])
  /\ Claimed(r)
  /\ UNCHANGED <<resources, payload, ahead>>

\* Mutant of TakeoverMissed: the takeover is tried again without a fresh read.
TakeoverRetried(r) ==
  /\ pc[r] = "takeover" /\ ~ CanTakeOver(r)
  /\ UNCHANGED vars

\* The lock was renewed, released, completed or taken by another: start over.
TakeoverMissed(r) ==
  /\ pc[r] = "takeover" /\ ~ CanTakeOver(r)
  /\ first' = [first EXCEPT ![r] = None]
  /\ Goto(r, "find")
  /\ UNCHANGED <<rec, resources, payload, ahead, seen, waiting, beating, lost, gone, reply>>

\* A database call of the claim loop fails: 503, and no claim is recorded in
\* the request.  A create or a takeover may have reached the database before
\* its answer was lost; its lock then has an owner that does not work.
ClaimCallFails(r) ==
  /\ pc[r] \in {"find", "create", "poll", "takeover"}
  /\ \/ UNCHANGED rec
     \/ /\ pc[r] = "create" /\ rec.status = "ABSENT"
        /\ rec' = Locked(r, payload[r], ahead[r])
     \/ /\ pc[r] = "takeover" /\ CanTakeOver(r)
        /\ rec' = Locked(r, payload[r], ahead[r])
  /\ Answer(r, Refusal("error"))
  /\ UNCHANGED <<resources, payload, ahead>>

-----------------------------------------------------------------------------
(* The handler of the claim's holder.                                      *)

Heartbeat(r) ==
  /\ beating[r]
  /\ \/ /\ Owns(rec, r, payload[r])
        /\ rec' = [rec EXCEPT !.lease = Lease + ahead[r]]
        /\ UNCHANGED lost
     \/ /\ ~ Owns(rec, r, payload[r])
        /\ lost' = [lost EXCEPT ![r] = TRUE]
        /\ UNCHANGED rec
  /\ UNCHANGED <<resources, payload, ahead, pc, seen, first, waiting, beating, gone, reply>>

\* A failed heartbeat is a lost lease, whether the write was applied or not.
HeartbeatFails(r) ==
  /\ beating[r]
  /\ lost' = [lost EXCEPT ![r] = TRUE]
  /\ UNCHANGED <<rec, resources, payload, ahead, pc, seen, first, waiting, beating, gone, reply>>

\* Failures before the handler's try block (a duplicate name, a calculation)
\* go to the error handler; later ones are first reconciled.
WorkFails(r) ==
  /\ pc[r] = "work"
  /\ \/ Goto(r, "failed")
     \/ Goto(r, "reconcile")
  /\ UNCHANGED <<rec, resources, payload, ahead, worker>>

\* claim.lost is checked inside the transaction, before its writes.
StartCommit(r) ==
  /\ pc[r] = "work"
  /\ Goto(r, IF lost[r] THEN "reconcile" ELSE "commit")
  /\ UNCHANGED <<rec, resources, payload, ahead, worker>>

\* Mutant of Commit: the completion does not filter on the owner token.
CommitAnyToken(r) ==
  /\ pc[r] = "commit" /\ rec.status = "LOCK" /\ rec.hash = payload[r]
  /\ rec' = Done(payload[r], r)
  /\ resources' = resources \cup {r}
  /\ beating' = [beating EXCEPT ![r] = FALSE]
  /\ Goto(r, "committed")
  /\ UNCHANGED <<payload, ahead, seen, first, waiting, lost, gone, reply>>

\* Mutant of Commit: the completion does not check that it matched a claim.
CommitUnmatched(r) ==
  /\ pc[r] = "commit"
  /\ rec' = Done(payload[r], r)
  /\ resources' = resources \cup {r}
  /\ beating' = [beating EXCEPT ![r] = FALSE]
  /\ Goto(r, "committed")
  /\ UNCHANGED <<payload, ahead, seen, first, waiting, lost, gone, reply>>

\* The claim becomes DONE in the transaction that inserts the resource.  The
\* answer of the commit may be lost, and the handler then reconciles.
Commit(r) ==
  /\ pc[r] = "commit" /\ Owns(rec, r, payload[r])
  /\ rec' = Done(payload[r], r)
  /\ resources' = resources \cup {r}
  /\ \/ /\ Goto(r, "committed")
        /\ beating' = [beating EXCEPT ![r] = FALSE]
     \/ /\ Goto(r, "reconcile")
        /\ UNCHANGED beating
  /\ UNCHANGED <<payload, ahead, seen, first, waiting, lost, gone, reply>>

CommitRefused(r) ==
  /\ pc[r] = "commit" /\ ~ Owns(rec, r, payload[r])
  /\ Goto(r, "reconcile")
  /\ UNCHANGED <<rec, resources, payload, ahead, worker>>

\* The transaction aborts (its retries ran out) and nothing is written.
CommitAborts(r) ==
  /\ pc[r] = "commit"
  /\ Goto(r, "reconcile")
  /\ UNCHANGED <<rec, resources, payload, ahead, worker>>

ReconcileDone(r) ==
  /\ pc[r] = "reconcile" /\ rec.status = "DONE" /\ rec.hash = payload[r]
  /\ beating' = [beating EXCEPT ![r] = FALSE]
  /\ reply' = [reply EXCEPT ![r] = Success("replayed", rec.resource)]
  /\ Goto(r, "end")
  /\ UNCHANGED <<rec, resources, payload, ahead, seen, first, waiting, lost, gone>>

ReconcileNothing(r) ==
  /\ pc[r] = "reconcile" /\ ~ (rec.status = "DONE" /\ rec.hash = payload[r])
  /\ Goto(r, "failed")
  /\ UNCHANGED <<rec, resources, payload, ahead, worker>>

ReconcileFails(r) ==
  /\ pc[r] = "reconcile"
  /\ Goto(r, "failed")
  /\ UNCHANGED <<rec, resources, payload, ahead, worker>>

\* After the commit the handler rebuilds the response from current state; a
\* failure there is an error answer to a committed request.
AnswerCommitted(r) ==
  /\ pc[r] = "committed"
  /\ \/ reply' = [reply EXCEPT ![r] = Success("created", r)]
     \/ reply' = [reply EXCEPT ![r] = Refusal("error")]
  /\ Goto(r, "end")
  /\ UNCHANGED <<rec, resources, payload, ahead, seen, first, waiting, beating, lost, gone>>

\* Mutant of AnswerFailed: the 'finish' handler forgets to clear the heartbeat.
AnswerFailedBeating(r) ==
  /\ pc[r] = "failed"
  /\ reply' = [reply EXCEPT ![r] = Refusal("error")]
  /\ Goto(r, IF gone[r] THEN "end" ELSE "release")
  /\ UNCHANGED <<rec, resources, payload, ahead, seen, first, waiting, beating, lost, gone>>

\* The error answer.  Its 'finish' event clears the heartbeat and releases the
\* claim; a response whose client hung up is closed without ever finishing.
AnswerFailed(r) ==
  /\ pc[r] = "failed"
  /\ reply' = [reply EXCEPT ![r] = Refusal("error")]
  /\ \/ /\ gone[r]
        /\ Goto(r, "end")
        /\ UNCHANGED beating
     \/ /\ ~ gone[r]
        /\ Goto(r, "release")
        /\ beating' = [beating EXCEPT ![r] = FALSE]
  /\ UNCHANGED <<rec, resources, payload, ahead, seen, first, waiting, lost, gone>>

\* Mutant of Release: the document is deleted by its key alone.
ReleaseByKey(r) ==
  /\ pc[r] = "release"
  /\ rec' = Absent
  /\ Goto(r, "end")
  /\ UNCHANGED <<resources, payload, ahead, worker>>

Release(r) ==
  /\ pc[r] = "release"
  /\ rec' = IF Owns(rec, r, payload[r]) THEN Absent ELSE rec
  /\ Goto(r, "end")
  /\ UNCHANGED <<resources, payload, ahead, worker>>

\* The failure of the release is logged; the lock stays until its lease ends.
ReleaseFails(r) ==
  /\ pc[r] = "release"
  /\ Goto(r, "end")
  /\ UNCHANGED <<rec, resources, payload, ahead, worker>>

-----------------------------------------------------------------------------
(* The environment.                                                        *)

HangUp(r) ==
  /\ r \in Impatient /\ ~ gone[r]
  /\ pc[r] \notin {"idle", "release", "end", "crashed"}
  /\ gone' = [gone EXCEPT ![r] = TRUE]
  /\ UNCHANGED <<rec, resources, payload, ahead, pc, seen, first, waiting, beating, lost, reply>>

\* The server process of r dies, with its timers.
Crash(r) ==
  /\ pc[r] \notin {"idle", "crashed"}
  /\ pc[r] = "end" => beating[r]
  /\ Goto(r, "crashed")
  /\ beating' = [beating EXCEPT ![r] = FALSE]
  /\ seen' = [seen EXCEPT ![r] = Absent]
  /\ first' = [first EXCEPT ![r] = None]
  /\ waiting' = [waiting EXCEPT ![r] = 0]
  /\ UNCHANGED <<rec, resources, payload, ahead, lost, gone, reply>>

Tick ==
  /\ rec' = Aged(rec)
  /\ seen' = [r \in Request |-> Aged(seen[r])]
  /\ waiting' = [r \in Request |-> Less(waiting[r])]
  /\ UNCHANGED <<resources, payload, ahead, pc, first, beating, lost, gone, reply>>

ClaimStep(r) ==
  \/ FindNothing(r) \/ FindConflict(r) \/ FindDone(r) \/ FindLock(r)
  \/ Create(r) \/ CreateDuplicate(r)
  \/ PollTimeout(r) \/ PollConflict(r) \/ PollDone(r) \/ PollExpired(r) \/ PollRead(r)
  \/ Takeover(r) \/ TakeoverMissed(r)

HandlerStep(r) ==
  \/ StartCommit(r) \/ Commit(r) \/ CommitRefused(r)
  \/ ReconcileDone(r) \/ ReconcileNothing(r)
  \/ AnswerCommitted(r) \/ AnswerFailed(r) \/ Release(r)

Failure(r) ==
  \/ ClaimCallFails(r) \/ HeartbeatFails(r) \/ WorkFails(r) \/ CommitAborts(r)
  \/ ReconcileFails(r) \/ ReleaseFails(r) \/ HangUp(r) \/ Crash(r)

Next ==
  \/ \E r \in Request :
       Arrive(r) \/ ClaimStep(r) \/ Heartbeat(r) \/ HandlerStep(r) \/ Failure(r)
  \/ Tick

Spec == Init /\ [][Next]_vars

\* The event loop runs every pending continuation, so a request that can take a
\* step of its own takes one; time passes.  Arrivals, failures, hang-ups and
\* crashes are never forced, nor is the heartbeat: a stalled process misses it.
Fairness ==
  /\ WF_vars(Tick)
  /\ \A r \in Request : WF_vars(ClaimStep(r) \/ HandlerStep(r))

FairSpec == Spec /\ Fairness

-----------------------------------------------------------------------------
(* Properties.                                                             *)

\* The resource and the DONE claim that names it are written together, and at
\* most one resource is ever created under the key: whichever requests lost
\* their lease, failed, retried or were answered from a replay.
DoneNamesTheResource ==
  /\ rec.status # "DONE" => resources = {}
  /\ rec.status = "DONE" => /\ resources = {rec.resource}
                            /\ payload[rec.resource] = rec.hash

\* A success answer names the one resource of the key, created from the same
\* payload as the request that is answered.
SuccessNamesTheResource ==
  \A r \in Request :
    reply[r].kind \in {"created", "replayed"} =>
      /\ resources = {reply[r].resource}
      /\ payload[reply[r].resource] = payload[r]

\* A worker that is still handling its request but no longer owns the claim.
Fenced(r) == pc[r] \in Handling /\ ~ Owns(rec, r, payload[r])

\* "an expired worker cannot commit" (idempotency.js:135): once another request
\* has taken the claim over, completed it or removed it, the old worker creates
\* no resource, however long it stays paused and whatever follows.
FencedWorkerNeverCommits ==
  \A r \in Request : [](Fenced(r) => [](r \notin resources))

\* What a request knows, told from the place it has reached: it has created
\* nothing while it is still working, and has an answer only once it is over.
PlaceIsKept ==
  \A r \in Request :
    /\ pc[r] \in PreClaim \cup Handling => r \notin resources
    /\ pc[r] = "committed" => r \in resources
    /\ reply[r].kind # "none" => pc[r] \in {"release", "end", "crashed"}
    /\ reply[r].kind \in {"created", "replayed"} <=> reply[r].resource # None

\* A lock is bound to the payload of its owner, only a DONE claim names a
\* resource, and what a poller read as DONE is still the claim.
ClaimIsBound ==
  /\ rec.status = "LOCK" => rec.owner \in Request /\ rec.hash = payload[rec.owner]
  /\ rec.status # "DONE" => rec.resource = None
  /\ \A r \in Request :
       seen[r].status = "DONE" =>
         rec.status = "DONE" /\ rec.hash = seen[r].hash /\ rec.resource = seen[r].resource

\* The inductive invariant the proofs use.
Inductive ==
  TypeOK /\ DoneNamesTheResource /\ SuccessNamesTheResource /\ PlaceIsKept /\ ClaimIsBound

\* The key behaves as its specification: the durable claim is the operation
\* applied, and the answers are those it allows.
Abstract == INSTANCE ExactlyOnce WITH
  applied  <- rec.resource,
  answered <- {r \in Request : reply[r].kind # "none"},
  told     <- [r \in Request |-> reply[r].resource]

RefinesExactlyOnce == Abstract!ASpec

\* The heartbeat of a request that is over still runs: its client hung up.
Leaked(r) == beating[r] /\ pc[r] = "end"

\* Every request that arrives is answered, or its server dies: the claim loop
\* cannot spin forever behind a lock, except behind one that a leaked heartbeat
\* renews each time the loop is about to take it over.
EveryRequestAnswered ==
  \A r \in Request :
    pc[r] = "find" ~>
      \/ reply[r].kind # "none"
      \/ pc[r] = "crashed"
      \/ \E q \in Request : Leaked(q)

\* Nothing works for the claim r holds any more.
Orphaned(r) == Owns(rec, r, payload[r]) /\ pc[r] \in {"end", "crashed"}

\* The lock of r is removed, taken over, or at least its lease runs out on
\* every server's clock.
Yields(r) == ~ Owns(rec, r, payload[r]) \/ rec.lease = 0

\* A lock whose request is over does not block the key for good.
OrphanedLockCanBeTaken == \A r \in Request : Orphaned(r) ~> Yields(r)

\* The same of the requests whose clients wait for their answer, whatever the
\* clients of other requests with the key do.
PatientLockCanBeTaken == \A r \in Request : (Orphaned(r) /\ ~ gone[r]) ~> Yields(r)
=============================================================================
