------------------------ MODULE AdvisoryIdempotency ------------------------
(***************************************************************************)
(* The claim of an advisory operation: profile completion, profile update  *)
(* or recommendation generation under one Idempotency-Key.                 *)
(*                                                                         *)
(* Models claimAdvisoryIdempotency, findCompletedAdvisory, waitForAdvisory,*)
(* the heartbeat and releaseAdvisoryIdempotency of                         *)
(* server/middleware/idempotency.js, driven by the handlers of             *)
(* server/routes/profile.js and recommend.js and committed by              *)
(* persistAdvisoryAtomically.  It differs from MutationIdempotency in what *)
(* it looks up first (the Recommendation that carries the operation id),   *)
(* in giving up instead of starting over when a takeover is missed, in     *)
(* releasing from the handler's catch block, and in having the unique      *)
(* index on Recommendation.idempotencyOperationId as a second barrier.     *)
(*                                                                         *)
(* The compatibility path for profile updates that an older release bound  *)
(* to method POST is not modelled.                                         *)
(***************************************************************************)
EXTENDS IdempotencyRecord, FiniteSets

CONSTANTS
  Wait,       \* the waitMs of waitForAdvisory, in ticks
  Completing  \* whether the operation is profile.complete

ASSUME WaitAssumption == Wait \in Nat \ {0}
ASSUME CompletingAssumption == Completing \in BOOLEAN

VARIABLES
  rec,         \* the IdempotencyKey document of the operation
  advisories,  \* the Recommendations that carry its id, by the request that made them
  payload,     \* payload[r]: the hash of request r
  ahead,       \* ahead[r]: how far the clock of r's server runs ahead
  pc,          \* where request r is
  inspected,   \* inspected[r]: lockOwnerId of the document r inspected
  waiting,     \* waiting[r]: ticks until the deadline of r
  beating,     \* beating[r]: the heartbeat timer of r runs
  reply        \* reply[r]: the answer of r

vars == <<rec, advisories, payload, ahead, pc, inspected, waiting, beating, reply>>

Place == {"idle", "lookup", "create", "inspect", "waitLookup", "waitRead", "takeover",
          "capture", "work", "committed", "failed", "end", "crashed"}

NoReply == [kind |-> "none", resource |-> None]
Refusal(k) == [kind |-> k, resource |-> None]
Success(k, res) == [kind |-> k, resource |-> res]

TypeOK ==
  /\ rec \in Record
  /\ advisories \subseteq Request
  /\ payload \in [Request -> Payload]
  /\ ahead \in [Request -> 0 .. Skew]
  /\ pc \in [Request -> Place]
  /\ inspected \in [Request -> Request \cup {None}]
  /\ waiting \in [Request -> 0 .. Wait]
  /\ beating \in [Request -> BOOLEAN]
  /\ reply \in [Request ->
       [kind : {"none", "created", "replayed", "conflict", "in_progress", "error"},
        resource : Request \cup {None}]]

Init ==
  /\ rec = Absent
  /\ advisories = {}
  /\ payload \in [Request -> Payload]
  /\ ahead \in [Request -> 0 .. Skew]
  /\ pc = [r \in Request |-> "idle"]
  /\ inspected = [r \in Request |-> None]
  /\ waiting = [r \in Request |-> 0]
  /\ beating = [r \in Request |-> FALSE]
  /\ reply = [r \in Request |-> NoReply]

Goto(r, place) == pc' = [pc EXCEPT ![r] = place]

Answer(r, a) ==
  /\ reply' = [reply EXCEPT ![r] = a]
  /\ inspected' = [inspected EXCEPT ![r] = None]
  /\ waiting' = [waiting EXCEPT ![r] = 0]
  /\ Goto(r, "end")
  /\ UNCHANGED beating

Claimed(r) ==
  /\ rec' = Locked(r, payload[r], ahead[r])
  /\ beating' = [beating EXCEPT ![r] = TRUE]
  /\ inspected' = [inspected EXCEPT ![r] = None]
  /\ waiting' = [waiting EXCEPT ![r] = 0]
  /\ Goto(r, "capture")
  /\ UNCHANGED reply

-----------------------------------------------------------------------------
(* The claim.                                                              *)

Arrive(r) ==
  /\ pc[r] = "idle"
  /\ Goto(r, "lookup")
  /\ UNCHANGED <<rec, advisories, payload, ahead, inspected, waiting, beating, reply>>

\* Mutant of AnswerFromAdvisory: the stored request hash is not compared.
AnswerFromAnyAdvisory(r) ==
  /\ \E a \in advisories : Answer(r, Success("replayed", a))
  /\ UNCHANGED <<rec, advisories, payload, ahead>>

\* findCompletedAdvisory has found the advisory that carries the operation id.
AnswerFromAdvisory(r) ==
  /\ \E a \in advisories :
       Answer(r, IF payload[a] = payload[r] THEN Success("replayed", a) ELSE Refusal("conflict"))
  /\ UNCHANGED <<rec, advisories, payload, ahead>>

LookupFound(r) ==
  pc[r] = "lookup" /\ AnswerFromAdvisory(r)

LookupNothing(r) ==
  /\ pc[r] = "lookup" /\ advisories = {}
  /\ Goto(r, "create")
  /\ UNCHANGED <<rec, advisories, payload, ahead, inspected, waiting, beating, reply>>

Create(r) ==
  /\ pc[r] = "create" /\ rec.status = "ABSENT"
  /\ Claimed(r)
  /\ UNCHANGED <<advisories, payload, ahead>>

CreateDuplicate(r) ==
  /\ pc[r] = "create" /\ rec.status # "ABSENT"
  /\ Goto(r, "inspect")
  /\ UNCHANGED <<rec, advisories, payload, ahead, inspected, waiting, beating, reply>>

InspectConflict(r) ==
  /\ pc[r] = "inspect" /\ rec.status # "ABSENT" /\ rec.hash # payload[r]
  /\ Answer(r, Refusal("conflict"))
  /\ UNCHANGED <<rec, advisories, payload, ahead>>

\* The document inspected may be a lock, done, or already released.
Inspect(r) ==
  /\ pc[r] = "inspect" /\ (rec.status = "ABSENT" \/ rec.hash = payload[r])
  /\ inspected' = [inspected EXCEPT ![r] = rec.owner]
  /\ waiting' = [waiting EXCEPT ![r] = Wait]
  /\ Goto(r, "waitLookup")
  /\ UNCHANGED <<rec, advisories, payload, ahead, beating, reply>>

WaitTimeout(r) ==
  /\ pc[r] = "waitLookup" /\ waiting[r] = 0
  /\ Answer(r, Refusal("in_progress"))
  /\ UNCHANGED <<rec, advisories, payload, ahead>>

WaitFound(r) ==
  pc[r] = "waitLookup" /\ waiting[r] > 0 /\ AnswerFromAdvisory(r)

WaitNothing(r) ==
  /\ pc[r] = "waitLookup" /\ waiting[r] > 0 /\ advisories = {}
  /\ Goto(r, "waitRead")
  /\ UNCHANGED <<rec, advisories, payload, ahead, inspected, waiting, beating, reply>>

WaitConflict(r) ==
  /\ pc[r] = "waitRead" /\ rec.status # "ABSENT" /\ rec.hash # payload[r]
  /\ Answer(r, Refusal("conflict"))
  /\ UNCHANGED <<rec, advisories, payload, ahead>>

\* A DONE document names the recommendation in its response body.
WaitDone(r) ==
  /\ pc[r] = "waitRead" /\ rec.status = "DONE" /\ rec.hash = payload[r]
  /\ Answer(r, Success("replayed", rec.resource))
  /\ UNCHANGED <<rec, advisories, payload, ahead>>

WaitOver(r) ==
  /\ pc[r] = "waitRead"
  /\ \/ rec.status = "ABSENT"
     \/ rec.status = "LOCK" /\ rec.hash = payload[r] /\ Expired(rec, ahead[r])
  /\ Goto(r, "takeover")
  /\ UNCHANGED <<rec, advisories, payload, ahead, inspected, waiting, beating, reply>>

WaitAgain(r) ==
  /\ pc[r] = "waitRead"
  /\ rec.status = "LOCK" /\ rec.hash = payload[r] /\ ~ Expired(rec, ahead[r])
  /\ Goto(r, "waitLookup")
  /\ UNCHANGED <<rec, advisories, payload, ahead, inspected, waiting, beating, reply>>

CanTakeOver(r) == Owns(rec, inspected[r], payload[r]) /\ Expired(rec, ahead[r])

Takeover(r) ==
  /\ pc[r] = "takeover" /\ CanTakeOver(r)
  /\ Claimed(r)
  /\ UNCHANGED <<advisories, payload, ahead>>

\* Mutant of TakeoverMissed: the request waits on for the lock it inspected.
TakeoverRewaits(r) ==
  /\ pc[r] = "takeover" /\ ~ CanTakeOver(r)
  /\ Goto(r, "waitRead")
  /\ UNCHANGED <<rec, advisories, payload, ahead, inspected, waiting, beating, reply>>

\* The lock inspected is gone, renewed or another's: the request gives up.
TakeoverMissed(r) ==
  /\ pc[r] = "takeover" /\ ~ CanTakeOver(r)
  /\ Answer(r, Refusal("in_progress"))
  /\ UNCHANGED <<rec, advisories, payload, ahead>>

\* A database call of the claim fails; a create or a takeover may have reached
\* the database before its answer was lost.
ClaimCallFails(r) ==
  /\ pc[r] \in {"lookup", "create", "inspect", "waitLookup", "waitRead", "takeover"}
  /\ \/ UNCHANGED rec
     \/ /\ \/ pc[r] = "create" /\ rec.status = "ABSENT"
           \/ pc[r] = "takeover" /\ CanTakeOver(r)
        /\ rec' = Locked(r, payload[r], ahead[r])
  /\ Answer(r, Refusal("error"))
  /\ UNCHANGED <<advisories, payload, ahead>>

-----------------------------------------------------------------------------
(* The handler of the claim's holder.                                      *)

\* A heartbeat that does not match marks the claim lost; nothing reads the mark.
Heartbeat(r) ==
  /\ beating[r] /\ Owns(rec, r, payload[r])
  /\ rec' = [rec EXCEPT !.lease = Lease + ahead[r]]
  /\ UNCHANGED <<advisories, payload, ahead, pc, inspected, waiting, beating, reply>>

Capture(r) ==
  /\ pc[r] = "capture"
  /\ Goto(r, "work")
  /\ UNCHANGED <<rec, advisories, payload, ahead, inspected, waiting, beating, reply>>

\* The state of the user cannot be captured.  profile.complete captures it
\* before its try block: the error goes out and the claim is left as it is.
CaptureFails(r) ==
  /\ pc[r] = "capture"
  /\ \/ Completing /\ Answer(r, Refusal("error"))
     \/ ~ Completing /\ Goto(r, "failed") /\ UNCHANGED <<inspected, waiting, beating, reply>>
  /\ UNCHANGED <<rec, advisories, payload, ahead>>

WorkFails(r) ==
  /\ pc[r] = "work"
  /\ Goto(r, "failed")
  /\ UNCHANGED <<rec, advisories, payload, ahead, inspected, waiting, beating, reply>>

\* Mutant of CanCommit: the completion does not filter on the owner token.
CanCommitAnyToken(r) == rec.status = "LOCK" /\ rec.hash = payload[r] /\ advisories = {}

\* The transaction creates the advisory, unique by operation id, and completes
\* the claim by its owner token; the answer of the commit may be lost.
CanCommit(r) == Owns(rec, r, payload[r]) /\ advisories = {}

Commit(r) ==
  /\ pc[r] = "work" /\ CanCommit(r)
  /\ rec' = Done(payload[r], r)
  /\ advisories' = {r}
  /\ \/ Goto(r, "committed") /\ beating' = [beating EXCEPT ![r] = FALSE]
     \/ Goto(r, "failed") /\ UNCHANGED beating
  /\ UNCHANGED <<payload, ahead, inspected, waiting, reply>>

CommitRefused(r) ==
  /\ pc[r] = "work" /\ ~ CanCommit(r)
  /\ Goto(r, "failed")
  /\ UNCHANGED <<rec, advisories, payload, ahead, inspected, waiting, beating, reply>>

\* The response is rebuilt from current state; a failure there goes to the
\* catch block like any other.
AnswerCommitted(r) ==
  /\ pc[r] = "committed"
  /\ \/ Answer(r, Success("created", r))
     \/ Goto(r, "failed") /\ UNCHANGED <<inspected, waiting, beating, reply>>
  /\ UNCHANGED <<rec, advisories, payload, ahead>>

\* Mutant of Stopped: the heartbeat of a failed request is not cleared.
StoppedBeating(r) ==
  /\ pc[r] = "failed"
  /\ reply' = [reply EXCEPT ![r] = Refusal("error")]
  /\ Goto(r, "end")
  /\ UNCHANGED <<advisories, payload, ahead, inspected, waiting, beating>>

\* The catch block stops the heartbeat and removes the lock it still owns; the
\* failure of the removal is swallowed.
Stopped(r) ==
  /\ pc[r] = "failed"
  /\ beating' = [beating EXCEPT ![r] = FALSE]
  /\ reply' = [reply EXCEPT ![r] = Refusal("error")]
  /\ Goto(r, "end")
  /\ UNCHANGED <<advisories, payload, ahead, inspected, waiting>>

Release(r) ==
  /\ Stopped(r)
  /\ rec' = IF Owns(rec, r, payload[r]) THEN Absent ELSE rec

ReleaseFails(r) == Stopped(r) /\ UNCHANGED rec

-----------------------------------------------------------------------------
(* The environment.                                                        *)

Crash(r) ==
  /\ pc[r] \notin {"idle", "crashed"}
  /\ pc[r] = "end" => beating[r]
  /\ Goto(r, "crashed")
  /\ beating' = [beating EXCEPT ![r] = FALSE]
  /\ inspected' = [inspected EXCEPT ![r] = None]
  /\ waiting' = [waiting EXCEPT ![r] = 0]
  /\ UNCHANGED <<rec, advisories, payload, ahead, reply>>

Tick ==
  /\ rec' = Aged(rec)
  /\ waiting' = [r \in Request |-> Less(waiting[r])]
  /\ UNCHANGED <<advisories, payload, ahead, pc, inspected, beating, reply>>

ClaimStep(r) ==
  \/ LookupFound(r) \/ LookupNothing(r) \/ Create(r) \/ CreateDuplicate(r)
  \/ InspectConflict(r) \/ Inspect(r)
  \/ WaitTimeout(r) \/ WaitFound(r) \/ WaitNothing(r)
  \/ WaitConflict(r) \/ WaitDone(r) \/ WaitOver(r) \/ WaitAgain(r)
  \/ Takeover(r) \/ TakeoverMissed(r)

HandlerStep(r) ==
  \/ Capture(r) \/ Commit(r) \/ CommitRefused(r) \/ AnswerCommitted(r) \/ Release(r)

Failure(r) ==
  \/ ClaimCallFails(r) \/ CaptureFails(r) \/ WorkFails(r) \/ ReleaseFails(r) \/ Crash(r)

Next ==
  \/ \E r \in Request :
       Arrive(r) \/ ClaimStep(r) \/ Heartbeat(r) \/ HandlerStep(r) \/ Failure(r)
  \/ Tick

Spec == Init /\ [][Next]_vars

\* As in MutationIdempotency: pending continuations run and time passes;
\* failures, crashes and heartbeats are never forced.
Fairness ==
  /\ WF_vars(Tick)
  /\ \A r \in Request : WF_vars(ClaimStep(r) \/ HandlerStep(r))

FairSpec == Spec /\ Fairness

-----------------------------------------------------------------------------
(* Properties.                                                             *)

\* The advisory and the DONE claim that names it are written together.
DoneNamesTheAdvisory ==
  /\ rec.status # "DONE" => advisories = {}
  /\ rec.status = "DONE" => /\ advisories = {rec.resource}
                            /\ payload[rec.resource] = rec.hash

\* A worker that is still computing but no longer owns the claim.
Fenced(r) == pc[r] \in {"capture", "work"} /\ ~ Owns(rec, r, payload[r])

\* Once its claim was taken over, completed or removed, a worker commits no
\* advisory: no lease check and no claim.lost is consulted, only the token.
FencedWorkerNeverCommits ==
  \A r \in Request : [](Fenced(r) => [](r \notin advisories))

\* The claim behaves as the specification of an Idempotency-Key.
Abstract == INSTANCE ExactlyOnce WITH
  applied  <- rec.resource,
  answered <- {r \in Request : reply[r].kind # "none"},
  told     <- [r \in Request |-> reply[r].resource]

RefinesExactlyOnce == Abstract!ASpec

\* Every request that arrives is answered, or its server dies.
EveryRequestAnswered ==
  \A r \in Request :
    pc[r] = "lookup" ~> (reply[r].kind # "none" \/ pc[r] = "crashed")

\* A lock whose request is over does not block the key for good: it is removed,
\* taken over, or at least its lease runs out on every server's clock.
Orphaned(r) == Owns(rec, r, payload[r]) /\ pc[r] \in {"end", "crashed"}

OrphanedLockCanBeTaken ==
  \A r \in Request : Orphaned(r) ~> (~ Owns(rec, r, payload[r]) \/ rec.lease = 0)
=============================================================================
