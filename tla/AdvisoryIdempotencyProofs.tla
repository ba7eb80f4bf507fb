--------------------- MODULE AdvisoryIdempotencyProofs ---------------------
(***************************************************************************)
(* Proofs about AdvisoryIdempotency, for every set of requests and         *)
(* payloads, every lease, wait and clock skew, and each of the three       *)
(* operations.  The argument is that of MutationIdempotencyProofs, with    *)
(* the advisory found by its operation id as another source of answers.    *)
(***************************************************************************)
EXTENDS AdvisoryIdempotency, TLAPS

Reply ==
  [kind : {"none", "created", "replayed", "conflict", "in_progress", "error"},
   resource : Request \cup {None}]

\* The documents the claim writes are documents of the schema.
LEMMA DocumentsTyped ==
  /\ Absent \in Record
  /\ \A r \in Request, h \in Payload, s \in 0 .. Skew : Locked(r, h, s) \in Record
  /\ \A r \in Request, h \in Payload : Done(h, r) \in Record
  /\ \A d \in Record : Aged(d) \in Record
  /\ \A d \in Record, s \in 0 .. Skew : [d EXCEPT !.lease = Lease + s] \in Record
<1>1. Absent \in Record
  BY LeaseAssumption DEF Absent, Record
<1>2. ASSUME NEW r \in Request, NEW h \in Payload, NEW s \in 0 .. Skew
      PROVE  Locked(r, h, s) \in Record
  BY LeaseAssumption DEF Locked, Record
<1>3. ASSUME NEW r \in Request, NEW h \in Payload
      PROVE  Done(h, r) \in Record
  BY LeaseAssumption DEF Done, Record
<1>4. ASSUME NEW d \in Record PROVE Aged(d) \in Record
  <2>1. Less(d.lease) \in 0 .. Lease + Skew
    BY LeaseAssumption DEF Record, Less
  <2>. QED
    BY <2>1 DEF Aged, Record
<1>5. ASSUME NEW d \in Record, NEW s \in 0 .. Skew
      PROVE  [d EXCEPT !.lease = Lease + s] \in Record
  BY LeaseAssumption DEF Record
<1>. QED
  BY <1>1, <1>2, <1>3, <1>4, <1>5

\* What the fields of those documents hold.
LEMMA DocumentFields ==
  /\ Absent.status = "ABSENT" /\ Absent.owner = None /\ Absent.resource = None
  /\ \A r, h, s : /\ Locked(r, h, s).status = "LOCK" /\ Locked(r, h, s).hash = h
                  /\ Locked(r, h, s).owner = r /\ Locked(r, h, s).resource = None
  /\ \A h, r : /\ Done(h, r).status = "DONE" /\ Done(h, r).hash = h
               /\ Done(h, r).owner = None /\ Done(h, r).resource = r
  /\ \A d \in Record : /\ Aged(d).status = d.status /\ Aged(d).hash = d.hash
                       /\ Aged(d).owner = d.owner /\ Aged(d).resource = d.resource
  BY DEF Absent, Locked, Done, Aged, Record

\* What the answers hold.
LEMMA AnswersTyped ==
  /\ \A k \in {"conflict", "in_progress", "error"} :
       Refusal(k) \in Reply /\ Refusal(k).kind = k /\ Refusal(k).resource = None
  /\ \A k \in {"created", "replayed"}, x \in Request \cup {None} :
       Success(k, x) \in Reply /\ Success(k, x).kind = k /\ Success(k, x).resource = x
  BY DEF Refusal, Success, Reply

\* The fields of a document have their types.
LEMMA DocumentTypes ==
  ASSUME NEW d \in Record
  PROVE  /\ d.resource \in Request \cup {None} /\ d.owner \in Request \cup {None}
         /\ d.hash \in Payload \cup {None} /\ d.status \in {"ABSENT", "LOCK", "DONE"}
  BY DEF Record

-----------------------------------------------------------------------------
\* An answer keeps the types.
LEMMA AnswerTyped ==
  ASSUME TypeOK, NEW r \in Request, NEW a \in Reply, Answer(r, a),
         rec' \in Record, UNCHANGED <<advisories, payload, ahead>>
  PROVE  TypeOK'
  BY WaitAssumption DEF Answer, Goto, TypeOK, Place, Reply

\* A claim keeps the types.
LEMMA ClaimedTyped ==
  ASSUME TypeOK, NEW r \in Request, Claimed(r), UNCHANGED <<advisories, payload, ahead>>
  PROVE  TypeOK'
<1>1. rec' \in Record
  BY DocumentsTyped DEF Claimed, TypeOK
<1>. QED
  BY <1>1, WaitAssumption DEF Claimed, Goto, TypeOK, Place

\* A step that only moves its request keeps the types.
LEMMA MoveTyped ==
  ASSUME TypeOK, NEW r \in Request, NEW p \in Place, Goto(r, p),
         UNCHANGED <<rec, advisories, payload, ahead, inspected, waiting, beating, reply>>
  PROVE  TypeOK'
  BY DEF Goto, TypeOK

\* Every step keeps the types.
LEMMA TypeStep ==
  ASSUME TypeOK, [Next]_vars
  PROVE  TypeOK'
<1>0. rec \in Record /\ \A a \in advisories : a \in Request
  BY DEF TypeOK
<1>1. ASSUME NEW r \in Request, LookupFound(r) \/ WaitFound(r) PROVE TypeOK'
  <2>1. PICK a \in advisories :
          Answer(r, IF payload[a] = payload[r] THEN Success("replayed", a) ELSE Refusal("conflict"))
    BY <1>1 DEF LookupFound, WaitFound, AnswerFromAdvisory
  <2>. QED
    BY <1>0, <1>1, <2>1, AnswersTyped, AnswerTyped DEF LookupFound, WaitFound, AnswerFromAdvisory
<1>2. ASSUME NEW r \in Request,
             Arrive(r) \/ LookupNothing(r) \/ CreateDuplicate(r) \/ WaitNothing(r) \/ WaitOver(r)
               \/ WaitAgain(r) \/ Capture(r) \/ WorkFails(r) \/ CommitRefused(r)
      PROVE  TypeOK'
  BY <1>2, MoveTyped DEF Arrive, LookupNothing, CreateDuplicate, WaitNothing, WaitOver, WaitAgain,
                         Capture, WorkFails, CommitRefused, Place
<1>3. ASSUME NEW r \in Request, Create(r) \/ Takeover(r) PROVE TypeOK'
  BY <1>3, ClaimedTyped DEF Create, Takeover
<1>4. ASSUME NEW r \in Request,
             InspectConflict(r) \/ WaitTimeout(r) \/ WaitConflict(r) \/ TakeoverMissed(r)
      PROVE  TypeOK'
  BY <1>0, <1>4, AnswersTyped, AnswerTyped DEF InspectConflict, WaitTimeout, WaitConflict, TakeoverMissed
<1>5. ASSUME NEW r \in Request, Inspect(r) PROVE TypeOK'
  BY <1>0, <1>5, DocumentTypes, WaitAssumption DEF Inspect, Goto, TypeOK, Place
<1>6. ASSUME NEW r \in Request, WaitDone(r) PROVE TypeOK'
  BY <1>0, <1>6, DocumentTypes, AnswersTyped, AnswerTyped DEF WaitDone
<1>7. ASSUME NEW r \in Request, ClaimCallFails(r) PROVE TypeOK'
  <2>1. rec' \in Record
    BY <1>0, <1>7, DocumentsTyped DEF ClaimCallFails, TypeOK
  <2>. QED
    BY <1>7, <2>1, AnswersTyped, AnswerTyped DEF ClaimCallFails
<1>8. ASSUME NEW r \in Request, Heartbeat(r) PROVE TypeOK'
  <2>1. rec' \in Record
    BY <1>0, <1>8, DocumentsTyped DEF Heartbeat, TypeOK
  <2>. QED
    BY <1>8, <2>1 DEF Heartbeat, TypeOK
<1>9. ASSUME NEW r \in Request, CaptureFails(r) PROVE TypeOK'
  <2>1. CASE Answer(r, Refusal("error"))
    BY <1>0, <1>9, <2>1, AnswersTyped, AnswerTyped DEF CaptureFails
  <2>2. CASE Goto(r, "failed") /\ UNCHANGED <<inspected, waiting, beating, reply>>
    BY <1>9, <2>2, MoveTyped DEF CaptureFails, Place
  <2>. QED
    BY <1>9, <2>1, <2>2 DEF CaptureFails
<1>10. ASSUME NEW r \in Request, Commit(r) PROVE TypeOK'
  <2>1. rec' \in Record /\ advisories' \subseteq Request
    BY <1>10, DocumentsTyped DEF Commit, TypeOK
  <2>. QED
    BY <1>10, <2>1 DEF Commit, Goto, TypeOK, Place
<1>11. ASSUME NEW r \in Request, AnswerCommitted(r) PROVE TypeOK'
  <2>1. CASE Answer(r, Success("created", r))
    BY <1>0, <1>11, <2>1, AnswersTyped, AnswerTyped DEF AnswerCommitted
  <2>2. CASE Goto(r, "failed") /\ UNCHANGED <<inspected, waiting, beating, reply>>
    BY <1>11, <2>2, MoveTyped DEF AnswerCommitted, Place
  <2>. QED
    BY <1>11, <2>1, <2>2 DEF AnswerCommitted
<1>12. ASSUME NEW r \in Request, Release(r) \/ ReleaseFails(r) PROVE TypeOK'
  <2>1. rec' \in Record
    BY <1>0, <1>12, DocumentsTyped DEF Release, ReleaseFails
  <2>2. reply' \in [Request -> Reply]
    BY <1>12, AnswersTyped DEF Release, ReleaseFails, Stopped, TypeOK, Reply
  <2>. QED
    BY <1>12, <2>1, <2>2 DEF Release, ReleaseFails, Stopped, Goto, TypeOK, Place, Reply
<1>13. ASSUME NEW r \in Request, Crash(r) PROVE TypeOK'
  BY <1>13, WaitAssumption DEF Crash, Goto, TypeOK, Place
<1>14. CASE Tick
  <2>1. rec' \in Record
    BY <1>0, <1>14, DocumentsTyped DEF Tick
  <2>2. \A n \in 0 .. Wait : Less(n) \in 0 .. Wait
    BY WaitAssumption DEF Less
  <2>3. waiting' \in [Request -> 0 .. Wait]
    BY <1>14, <2>2 DEF Tick, TypeOK
  <2>. QED
    BY <1>14, <2>1, <2>3 DEF Tick, TypeOK
<1>15. CASE UNCHANGED vars
  BY <1>15 DEF vars, TypeOK
<1>. QED
  BY <1>1, <1>2, <1>3, <1>4, <1>5, <1>6, <1>7, <1>8, <1>9, <1>10, <1>11, <1>12, <1>13, <1>14, <1>15
     DEF Next, ClaimStep, HandlerStep, Failure
-----------------------------------------------------------------------------
(* What a step can do to the claim and to the set of advisories.           *)

\* The claim keeps its owner and its content; at most its lease changes.
SameClaim ==
  /\ rec'.status = rec.status /\ rec'.hash = rec.hash
  /\ rec'.owner = rec.owner /\ rec'.resource = rec.resource
  /\ advisories' = advisories

\* A claim that is not DONE gets a new owner, or is removed.
Relocked ==
  /\ rec.status # "DONE" /\ advisories' = advisories
  /\ \/ \E r \in Request : rec' = Locked(r, payload[r], ahead[r])
     \/ rec' = Absent

\* A step keeps the claim, relocks or removes one that is not DONE, or commits.
LEMMA ClaimStepKinds ==
  ASSUME TypeOK, [Next]_vars
  PROVE  payload' = payload /\ (SameClaim \/ Relocked \/ \E r \in Request : Commit(r))
<1>. DEFINE Goal == payload' = payload /\ (SameClaim \/ Relocked \/ \E r \in Request : Commit(r))
<1>1. ASSUME NEW r \in Request,
             Arrive(r) \/ LookupFound(r) \/ LookupNothing(r) \/ CreateDuplicate(r) \/ InspectConflict(r)
               \/ Inspect(r) \/ WaitTimeout(r) \/ WaitFound(r)
      PROVE  Goal
  BY <1>1 DEF Arrive, LookupFound, LookupNothing, CreateDuplicate, InspectConflict, Inspect,
              WaitTimeout, WaitFound, AnswerFromAdvisory, SameClaim
<1>2. ASSUME NEW r \in Request,
             WaitNothing(r) \/ WaitConflict(r) \/ WaitDone(r) \/ WaitOver(r) \/ WaitAgain(r)
               \/ TakeoverMissed(r)
      PROVE  Goal
  BY <1>2 DEF WaitNothing, WaitConflict, WaitDone, WaitOver, WaitAgain, TakeoverMissed, SameClaim
<1>3. ASSUME NEW r \in Request, Create(r) \/ Takeover(r)
      PROVE  Goal
  BY <1>3 DEF Create, Takeover, Claimed, CanTakeOver, Owns, Relocked
<1>4. ASSUME NEW r \in Request, ClaimCallFails(r)
      PROVE  Goal
  BY <1>4 DEF ClaimCallFails, CanTakeOver, Owns, Relocked, SameClaim
<1>5. ASSUME NEW r \in Request, Heartbeat(r)
      PROVE  Goal
  <2>1. SameClaim
    BY <1>5 DEF Heartbeat, SameClaim, TypeOK, Record
  <2>. QED
    BY <1>5, <2>1 DEF Heartbeat
<1>6. ASSUME NEW r \in Request,
             Capture(r) \/ CaptureFails(r) \/ WorkFails(r) \/ CommitRefused(r) \/ AnswerCommitted(r)
               \/ ReleaseFails(r) \/ Crash(r)
      PROVE  Goal
  BY <1>6 DEF Capture, CaptureFails, WorkFails, CommitRefused, AnswerCommitted, ReleaseFails,
              Stopped, Crash, SameClaim
<1>7. ASSUME NEW r \in Request, Commit(r)
      PROVE  Goal
  BY <1>7 DEF Commit
<1>8. ASSUME NEW r \in Request, Release(r)
      PROVE  Goal
  BY <1>8 DEF Release, Stopped, Owns, Relocked, SameClaim
<1>9. ASSUME Tick
      PROVE  Goal
  <2>1. SameClaim
    BY <1>9, DocumentFields DEF Tick, SameClaim, TypeOK
  <2>. QED
    BY <1>9, <2>1 DEF Tick
<1>10. ASSUME UNCHANGED vars
       PROVE  Goal
  BY <1>10 DEF vars, SameClaim
<1>. QED
  BY <1>1, <1>2, <1>3, <1>4, <1>5, <1>6, <1>7, <1>8, <1>9, <1>10
     DEF Next, ClaimStep, HandlerStep, Failure

-----------------------------------------------------------------------------
(* Where a step can take a request, and what it can answer.                *)

Claiming == {"idle", "lookup", "create", "inspect", "waitLookup", "waitRead", "takeover"}
Working == Claiming \cup {"capture", "work"}
Over == {"end", "crashed"}

\* A request never returns to work, and is committed only by its own commit.
LEMMA PlaceStepKinds ==
  ASSUME TypeOK, [Next]_vars, NEW q \in Request
  PROVE  /\ pc'[q] \in Working => pc[q] \in Working
         /\ pc'[q] \in Claiming => pc[q] \in Claiming
         /\ pc'[q] = "committed" => pc[q] = "committed" \/ Commit(q)
         /\ pc[q] \in Over => pc'[q] \in Over
         /\ Commit(q) => pc'[q] \notin Working
<1>. DEFINE Goal == /\ pc'[q] \in Working => pc[q] \in Working
                    /\ pc'[q] \in Claiming => pc[q] \in Claiming
                    /\ pc'[q] = "committed" => pc[q] = "committed" \/ Commit(q)
                    /\ pc[q] \in Over => pc'[q] \in Over
                    /\ Commit(q) => pc'[q] \notin Working
<1>. USE DEF Working, Over, Claiming, Goto
<1>0. Commit(q) => pc'[q] \notin Working
  BY DEF Commit, TypeOK
<1>1. ASSUME NEW r \in Request,
             Arrive(r) \/ LookupNothing(r) \/ CreateDuplicate(r) \/ Inspect(r) \/ WaitNothing(r)
               \/ WaitOver(r) \/ WaitAgain(r)
      PROVE  Goal
  BY <1>0, <1>1 DEF Arrive, LookupNothing, CreateDuplicate, Inspect, WaitNothing, WaitOver,
                    WaitAgain, TypeOK
<1>2. ASSUME NEW r \in Request, LookupFound(r) \/ WaitFound(r)
      PROVE  Goal
  BY <1>0, <1>2 DEF LookupFound, WaitFound, AnswerFromAdvisory, Answer, TypeOK
<1>3. ASSUME NEW r \in Request,
             InspectConflict(r) \/ WaitTimeout(r) \/ WaitConflict(r) \/ WaitDone(r)
               \/ TakeoverMissed(r) \/ ClaimCallFails(r)
      PROVE  Goal
  BY <1>0, <1>3 DEF InspectConflict, WaitTimeout, WaitConflict, WaitDone, TakeoverMissed,
                    ClaimCallFails, Answer, TypeOK
<1>4. ASSUME NEW r \in Request, Create(r) \/ Takeover(r)
      PROVE  Goal
  BY <1>0, <1>4 DEF Create, Takeover, Claimed, TypeOK
<1>5. ASSUME NEW r \in Request, Capture(r) \/ CaptureFails(r) \/ WorkFails(r) \/ CommitRefused(r)
      PROVE  Goal
  BY <1>0, <1>5 DEF Capture, CaptureFails, WorkFails, CommitRefused, Answer, TypeOK
<1>6. ASSUME NEW r \in Request, Commit(r)
      PROVE  Goal
  <2>1. CASE r = q
    BY <1>0, <1>6, <2>1 DEF Commit
  <2>2. CASE r # q
    BY <1>0, <1>6, <2>2 DEF Commit, TypeOK
  <2>. QED
    BY <2>1, <2>2
<1>7. ASSUME NEW r \in Request, AnswerCommitted(r) \/ Release(r) \/ ReleaseFails(r) \/ Crash(r)
      PROVE  Goal
  BY <1>0, <1>7 DEF AnswerCommitted, Release, ReleaseFails, Stopped, Crash, Answer, TypeOK
<1>8. ASSUME (\E r \in Request : Heartbeat(r)) \/ Tick \/ UNCHANGED vars
      PROVE  Goal
  BY <1>0, <1>8 DEF Heartbeat, Tick, vars
<1>. QED
  BY <1>1, <1>2, <1>3, <1>4, <1>5, <1>6, <1>7, <1>8 DEF Next, ClaimStep, HandlerStep, Failure

\* A request is refused, told an advisory or the resource of a DONE claim made from its
\* own payload, or, having committed, told its own advisory.
Refused(q) == \E k \in {"conflict", "in_progress", "error"} : reply'[q] = Refusal(k)
Replayed(q) ==
  \/ \E a \in advisories : payload[a] = payload[q] /\ reply'[q] = Success("replayed", a)
  \/ /\ rec.status = "DONE" /\ rec.hash = payload[q]
     /\ reply'[q] = Success("replayed", rec.resource)
Created(q) == pc[q] = "committed" /\ reply'[q] = Success("created", q)

\* An answer is given once, when the request is over, and is one of the three kinds.
LEMMA ReplyStepKinds ==
  ASSUME TypeOK, [Next]_vars, NEW q \in Request, reply'[q] # reply[q]
  PROVE  /\ pc[q] \notin Over /\ pc'[q] \in Over
         /\ Refused(q) \/ Replayed(q) \/ Created(q)
         /\ reply' = [reply EXCEPT ![q] = reply'[q]]
<1>. DEFINE Goal == /\ pc[q] \notin Over /\ pc'[q] \in Over
                    /\ Refused(q) \/ Replayed(q) \/ Created(q)
                    /\ reply' = [reply EXCEPT ![q] = reply'[q]]
<1>. USE DEF Over, Goto
<1>1. ASSUME NEW r \in Request,
             InspectConflict(r) \/ WaitTimeout(r) \/ WaitConflict(r) \/ TakeoverMissed(r)
               \/ ClaimCallFails(r) \/ CaptureFails(r)
      PROVE  Goal
  BY <1>1 DEF InspectConflict, WaitTimeout, WaitConflict, TakeoverMissed, ClaimCallFails,
              CaptureFails, Answer, Refused, TypeOK
<1>2. ASSUME NEW r \in Request, LookupFound(r) \/ WaitFound(r)
      PROVE  Goal
  <2>1. PICK a \in advisories :
          Answer(r, IF payload[a] = payload[r] THEN Success("replayed", a) ELSE Refusal("conflict"))
    BY <1>2 DEF LookupFound, WaitFound, AnswerFromAdvisory
  <2>2. q = r /\ pc[q] \notin Over
    BY <1>2, <2>1 DEF LookupFound, WaitFound, Answer, TypeOK
  <2>3. CASE payload[a] = payload[r]
    BY <2>1, <2>2, <2>3 DEF Answer, Replayed, TypeOK
  <2>4. CASE payload[a] # payload[r]
    BY <2>1, <2>2, <2>4 DEF Answer, Refused, TypeOK
  <2>. QED
    BY <2>3, <2>4
<1>3. ASSUME NEW r \in Request, WaitDone(r)
      PROVE  Goal
  BY <1>3 DEF WaitDone, Answer, Replayed, TypeOK
<1>4. ASSUME NEW r \in Request, AnswerCommitted(r)
      PROVE  Goal
  BY <1>4 DEF AnswerCommitted, Answer, Created, TypeOK
<1>5. ASSUME NEW r \in Request, Release(r) \/ ReleaseFails(r)
      PROVE  Goal
  BY <1>5 DEF Release, ReleaseFails, Stopped, Refused, TypeOK
<1>6. ASSUME NEW r \in Request,
             Arrive(r) \/ LookupNothing(r) \/ Create(r) \/ CreateDuplicate(r) \/ Inspect(r)
               \/ WaitNothing(r) \/ WaitOver(r) \/ WaitAgain(r) \/ Takeover(r)
      PROVE  FALSE
  BY <1>6 DEF Arrive, LookupNothing, Create, CreateDuplicate, Inspect, WaitNothing, WaitOver,
              WaitAgain, Takeover, Claimed
<1>7. ASSUME NEW r \in Request,
             Heartbeat(r) \/ Capture(r) \/ WorkFails(r) \/ Commit(r) \/ CommitRefused(r) \/ Crash(r)
      PROVE  FALSE
  BY <1>7 DEF Heartbeat, Capture, WorkFails, Commit, CommitRefused, Crash
<1>8. ASSUME Tick \/ UNCHANGED vars
      PROVE  FALSE
  BY <1>8 DEF Tick, vars
<1>. QED
  BY <1>1, <1>2, <1>3, <1>4, <1>5, <1>6, <1>7, <1>8 DEF Next, ClaimStep, HandlerStep, Failure
-----------------------------------------------------------------------------
(* The inductive invariant.                                                *)

\* What the place of a request says of it: it has committed nothing while it works, and has
\* an answer only once it is over.
PlaceIsKept ==
  \A q \in Request :
    /\ pc[q] \in Working => q \notin advisories
    /\ pc[q] = "committed" => q \in advisories
    /\ reply[q].kind # "none" => pc[q] \in Over
    /\ reply[q].kind \in {"none", "conflict", "in_progress", "error"} => reply[q].resource = None

\* A lock carries the payload of its owner, and only a DONE document names a resource.
ClaimIsBound ==
  /\ rec.status = "LOCK" => rec.owner \in Request /\ rec.hash = payload[rec.owner]
  /\ rec.status # "DONE" => rec.resource = None

Inductive == TypeOK /\ DoneNamesTheAdvisory /\ PlaceIsKept /\ ClaimIsBound

\* The invariant holds before any request arrives.
LEMMA InductiveInit == Init => Inductive
<1>. SUFFICES ASSUME Init PROVE Inductive
  OBVIOUS
<1>1. TypeOK
  BY LeaseAssumption, WaitAssumption, DocumentsTyped DEF Init, TypeOK, Place, NoReply
<1>2. PlaceIsKept
  BY DEF Init, PlaceIsKept, NoReply
<1>3. DoneNamesTheAdvisory /\ ClaimIsBound
  BY DocumentFields DEF Init, DoneNamesTheAdvisory, ClaimIsBound
<1>. QED
  BY <1>1, <1>2, <1>3 DEF Inductive

\* What a commit finds and leaves: the key was open, and now names the request.
LEMMA CommitEffect ==
  ASSUME Inductive, NEW r \in Request, Commit(r)
  PROVE  /\ rec.status = "LOCK" /\ rec.owner = r /\ rec.hash = payload[r]
         /\ advisories = {} /\ advisories' = {r}
         /\ rec'.status = "DONE" /\ rec'.hash = payload[r] /\ rec'.resource = r
         /\ pc[r] = "work" /\ payload' = payload /\ reply' = reply
  BY DocumentFields DEF Commit, CanCommit, Owns

\* A DONE claim names the one advisory, made from the payload it is bound to.
LEMMA RecordIsNamed ==
  ASSUME Inductive, rec.status = "DONE"
  PROVE  rec.resource \in Request /\ payload[rec.resource] = rec.hash /\ advisories = {rec.resource}
  BY DEF Inductive, TypeOK, DoneNamesTheAdvisory

\* An advisory exists only under a DONE claim, which names it.
LEMMA AdvisoryIsNamed ==
  ASSUME Inductive, NEW a \in advisories
  PROVE  rec.status = "DONE" /\ a = rec.resource
  BY RecordIsNamed DEF Inductive, DoneNamesTheAdvisory

\* Every step keeps the claim and the advisories together.
LEMMA DoneNamesStep ==
  ASSUME Inductive, [Next]_vars
  PROVE  DoneNamesTheAdvisory'
<1>1. payload' = payload /\ (SameClaim \/ Relocked \/ \E r \in Request : Commit(r))
  BY ClaimStepKinds DEF Inductive
<1>2. CASE SameClaim
  BY <1>1, <1>2 DEF SameClaim, Inductive, DoneNamesTheAdvisory
<1>3. CASE Relocked
  BY <1>1, <1>3, DocumentFields DEF Relocked, Inductive, DoneNamesTheAdvisory
<1>4. CASE \E r \in Request : Commit(r)
  BY <1>4, CommitEffect DEF DoneNamesTheAdvisory
<1>. QED
  BY <1>1, <1>2, <1>3, <1>4

\* Every step keeps the lock bound to its owner.
LEMMA ClaimIsBoundStep ==
  ASSUME Inductive, [Next]_vars
  PROVE  ClaimIsBound'
<1>1. payload' = payload /\ (SameClaim \/ Relocked \/ \E r \in Request : Commit(r))
  BY ClaimStepKinds DEF Inductive
<1>2. CASE SameClaim
  BY <1>1, <1>2 DEF SameClaim, Inductive, ClaimIsBound
<1>3. CASE Relocked
  BY <1>1, <1>3, DocumentFields DEF Relocked, ClaimIsBound
<1>4. CASE \E r \in Request : Commit(r)
  BY <1>4, CommitEffect DEF ClaimIsBound
<1>. QED
  BY <1>1, <1>2, <1>3, <1>4

\* Every step keeps advisories and answers in line with the place of each request.
LEMMA PlaceIsKeptStep ==
  ASSUME Inductive, [Next]_vars
  PROVE  PlaceIsKept'
<1>. SUFFICES ASSUME NEW q \in Request
              PROVE  /\ pc'[q] \in Working => q \notin advisories'
                     /\ pc'[q] = "committed" => q \in advisories'
                     /\ reply'[q].kind # "none" => pc'[q] \in Over
                     /\ reply'[q].kind \in {"none", "conflict", "in_progress", "error"} =>
                          reply'[q].resource = None
  BY DEF PlaceIsKept, Working, Claiming, Over
<1>1. TypeOK /\ PlaceIsKept
  BY DEF Inductive
<1>2. advisories' = advisories \/ \E r \in Request : Commit(r) /\ advisories' = {r}
  BY <1>1, ClaimStepKinds, CommitEffect DEF SameClaim, Relocked
<1>3. pc'[q] \in Working => q \notin advisories'
  BY <1>1, <1>2, PlaceStepKinds DEF PlaceIsKept, Working
<1>4. pc'[q] = "committed" => q \in advisories'
  BY <1>1, <1>2, PlaceStepKinds, CommitEffect DEF PlaceIsKept
<1>5. CASE reply'[q] = reply[q]
  BY <1>1, <1>3, <1>4, <1>5, PlaceStepKinds DEF PlaceIsKept, Over
<1>6. CASE reply'[q] # reply[q]
  <2>1. pc'[q] \in Over /\ (Refused(q) \/ Replayed(q) \/ Created(q))
    BY <1>1, <1>6, ReplyStepKinds
  <2>. DEFINE Agree == reply'[q].kind \in {"none", "conflict", "in_progress", "error"} =>
                         reply'[q].resource = None
  <2>2. ASSUME Refused(q) PROVE Agree
    BY <2>2, AnswersTyped DEF Refused
  <2>3. ASSUME Replayed(q) PROVE Agree
    <3>1. PICK x \in Request : reply'[q] = Success("replayed", x)
      BY <1>1, <2>3, RecordIsNamed DEF Replayed, TypeOK
    <3>. QED
      BY <3>1, AnswersTyped
  <2>4. ASSUME Created(q) PROVE Agree
    BY <2>4, AnswersTyped DEF Created
  <2>. QED
    BY <1>3, <1>4, <2>1, <2>2, <2>3, <2>4
<1>. QED
  BY <1>5, <1>6

\* The invariant is inductive.
LEMMA InductiveStep == Inductive /\ [Next]_vars => Inductive'
<1>. SUFFICES ASSUME Inductive, [Next]_vars PROVE Inductive'
  OBVIOUS
<1>1. TypeOK'
  BY TypeStep DEF Inductive
<1>. QED
  BY <1>1, DoneNamesStep, PlaceIsKeptStep, ClaimIsBoundStep DEF Inductive

\* The invariant holds in every reachable state.
LEMMA InductiveHolds == Spec => []Inductive
  BY InductiveInit, InductiveStep, PTL DEF Spec

-----------------------------------------------------------------------------
(* The theorems.                                                           *)

\* Every variable keeps its type in every reachable state.
THEOREM AdvisoryTypeCorrect == Spec => []TypeOK
<1>1. Inductive => TypeOK
  BY DEF Inductive
<1>. QED
  BY <1>1, InductiveHolds, PTL

\* At most one advisory carries the operation id, and exactly when the claim is DONE and
\* names it: persistAdvisoryAtomically never lets a second one through.
THEOREM AtMostOneAdvisory == Spec => []DoneNamesTheAdvisory
<1>1. Inductive => DoneNamesTheAdvisory
  BY DEF Inductive
<1>. QED
  BY <1>1, InductiveHolds, PTL

\* A request that has committed nothing, is past its claim and does not hold the key.
ShutOut(r) == /\ r \notin advisories
              /\ pc[r] \notin Claiming
              /\ ~ Owns(rec, r, payload[r])

\* Only a request that is still claiming can come to own the claim.
LEMMA OwnershipIsClaimed ==
  ASSUME Inductive, [Next]_vars, NEW q \in Request,
         Owns(rec', q, payload'[q]), ~ Owns(rec, q, payload[q])
  PROVE  pc[q] \in Claiming
<1>. USE DEF Owns
<1>1. TypeOK
  BY DEF Inductive
<1>2. ASSUME NEW r \in Request, Create(r) \/ Takeover(r) \/ ClaimCallFails(r)
      PROVE  pc[q] \in Claiming
  BY <1>2, DocumentFields DEF Create, Takeover, ClaimCallFails, Claiming, Claimed, Answer
<1>3. ASSUME NEW r \in Request,
             Arrive(r) \/ LookupFound(r) \/ LookupNothing(r) \/ CreateDuplicate(r) \/ InspectConflict(r)
               \/ Inspect(r) \/ WaitTimeout(r) \/ WaitFound(r) \/ WaitNothing(r)
      PROVE  FALSE
  BY <1>3 DEF Arrive, LookupFound, LookupNothing, CreateDuplicate, InspectConflict, Inspect,
              WaitTimeout, WaitFound, WaitNothing, AnswerFromAdvisory
<1>4. ASSUME NEW r \in Request,
             WaitConflict(r) \/ WaitDone(r) \/ WaitOver(r) \/ WaitAgain(r) \/ TakeoverMissed(r)
               \/ Capture(r) \/ CaptureFails(r) \/ WorkFails(r)
      PROVE  FALSE
  BY <1>4 DEF WaitConflict, WaitDone, WaitOver, WaitAgain, TakeoverMissed, Capture, CaptureFails, WorkFails
<1>5. ASSUME NEW r \in Request, Heartbeat(r)
      PROVE  FALSE
  <2>1. rec'.status = rec.status /\ rec'.hash = rec.hash /\ rec'.owner = rec.owner
    BY <1>1, <1>5 DEF Heartbeat, TypeOK, Record
  <2>. QED
    BY <1>5, <2>1 DEF Heartbeat
<1>6. ASSUME NEW r \in Request,
             CommitRefused(r) \/ AnswerCommitted(r) \/ ReleaseFails(r) \/ Crash(r)
      PROVE  FALSE
  BY <1>6 DEF CommitRefused, AnswerCommitted, ReleaseFails, Stopped, Crash
<1>7. ASSUME NEW r \in Request, Commit(r) \/ Release(r)
      PROVE  FALSE
  BY <1>7, DocumentFields DEF Commit, Release, Stopped
<1>8. ASSUME Tick
      PROVE  FALSE
  BY <1>1, <1>8, DocumentFields DEF Tick, TypeOK
<1>9. ASSUME UNCHANGED vars
      PROVE  FALSE
  BY <1>9 DEF vars
<1>. QED
  BY <1>2, <1>3, <1>4, <1>5, <1>6, <1>7, <1>8, <1>9 DEF Next, ClaimStep, HandlerStep, Failure

\* A request that is shut out stays so.
LEMMA ShutOutIsStable ==
  ASSUME Inductive, [Next]_vars, NEW r \in Request, ShutOut(r)
  PROVE  ShutOut(r)'
<1>1. ~ Owns(rec', r, payload'[r])
  BY OwnershipIsClaimed DEF ShutOut
<1>2. r \notin advisories'
  <2>1. ~ Commit(r)
    BY DEF Commit, CanCommit, ShutOut
  <2>2. advisories' = advisories \/ \E q \in Request : Commit(q) /\ advisories' = {q}
    BY ClaimStepKinds, CommitEffect DEF Inductive, SameClaim, Relocked
  <2>. QED
    BY <2>1, <2>2 DEF ShutOut
<1>3. pc'[r] \notin Claiming
  BY PlaceStepKinds DEF Inductive, ShutOut
<1>. QED
  BY <1>1, <1>2, <1>3 DEF ShutOut

\* A worker that is fenced off commits no advisory, however long it is paused, though
\* nothing reads claim.lost: the owner token in the filter of the completion suffices.
THEOREM FencedAdvisoryNeverCommits == Spec => FencedWorkerNeverCommits
<1>. SUFFICES ASSUME NEW r \in Request
              PROVE  Spec => [](Fenced(r) => [](r \notin advisories))
  BY DEF FencedWorkerNeverCommits
<1>1. Inductive /\ Fenced(r) => ShutOut(r)
  BY DEF Inductive, PlaceIsKept, Fenced, ShutOut, Working, Claiming
<1>2. Inductive /\ ShutOut(r) /\ [Next]_vars => ShutOut(r)'
  BY ShutOutIsStable
<1>3. ShutOut(r) => r \notin advisories
  BY DEF ShutOut
<1>. QED
  BY <1>1, <1>2, <1>3, InductiveHolds, PTL DEF Spec

-----------------------------------------------------------------------------
(* The claim implements the specification of the key.                      *)

\* The initial states map to the initial states of the specification.
LEMMA AbstractInit == Init => Abstract!AInit
  BY DocumentFields DEF Init, Abstract!AInit, NoReply

\* A commit maps to Apply, an answer to Succeed or Refuse, the rest to stuttering.
LEMMA AbstractStep ==
  ASSUME Inductive, [Next]_vars
  PROVE  [Abstract!ANext]_(Abstract!avars)
<1>. DEFINE answered == {r \in Request : reply[r].kind # "none"}
            told == [r \in Request |-> reply[r].resource]
<1>1. TypeOK /\ PlaceIsKept /\ ClaimIsBound
  BY DEF Inductive
<1>2. payload' = payload /\ (SameClaim \/ Relocked \/ \E r \in Request : Commit(r))
  BY <1>1, ClaimStepKinds
<1>3. CASE \E r \in Request : Commit(r)
  <2>1. PICK r \in Request : Commit(r)
    BY <1>3
  <2>2. rec.resource = None /\ rec'.resource = r /\ reply' = reply
    BY <1>1, <2>1, CommitEffect DEF ClaimIsBound
  <2>3. r \notin answered
    BY <1>1, <2>1, CommitEffect DEF PlaceIsKept, Over
  <2>. QED
    BY <1>2, <2>2, <2>3 DEF Abstract!ANext, Abstract!Apply
<1>4. CASE ~ \E r \in Request : Commit(r)
  <2>1. rec'.resource = rec.resource
    BY <1>1, <1>2, <1>4, DocumentFields DEF SameClaim, Relocked, ClaimIsBound
  <2>2. CASE reply' = reply
    BY <1>2, <2>1, <2>2 DEF Abstract!avars
  <2>3. CASE reply' # reply
    <3>1. PICK q \in Request : reply'[q] # reply[q]
      BY <1>1, <2>3, TypeStep DEF TypeOK
    <3>2. /\ pc[q] \notin Over
          /\ Refused(q) \/ Replayed(q) \/ Created(q)
          /\ reply' = [reply EXCEPT ![q] = reply'[q]]
      BY <1>1, <3>1, ReplyStepKinds
    <3>3. q \notin answered /\ reply[q].resource = None
      BY <1>1, <3>2 DEF PlaceIsKept, Over
    <3>4. ASSUME reply'[q].kind # "none"
          PROVE  /\ answered' = answered \cup {q}
                 /\ told' = [told EXCEPT ![q] = reply'[q].resource]
      <4>1. \A r \in Request : r # q => reply'[r] = reply[r]
        BY <1>1, <3>2 DEF TypeOK
      <4>2. answered' = answered \cup {q}
        BY <3>4, <4>1
      <4>3. told' = [told EXCEPT ![q] = reply'[q].resource]
        BY <4>1
      <4>. QED
        BY <4>2, <4>3
    <3>5. CASE Refused(q)
      <4>1. reply'[q].kind # "none" /\ reply'[q].resource = None
        BY <3>5, AnswersTyped DEF Refused
      <4>2. told' = told
        <5>1. \A r \in Request : reply'[r].resource = reply[r].resource
          BY <1>1, <3>2, <3>3, <4>1 DEF TypeOK
        <5>. QED
          BY <5>1
      <4>. QED
        BY <1>2, <2>1, <3>3, <3>4, <4>1, <4>2 DEF Abstract!ANext, Abstract!Refuse
    <3>6. CASE Replayed(q) \/ Created(q)
      <4>1. /\ rec.status = "DONE" /\ payload[rec.resource] = payload[q]
            /\ reply'[q] = Success("replayed", rec.resource) \/ reply'[q] = Success("created", rec.resource)
        <5>1. CASE Replayed(q)
          BY <5>1, RecordIsNamed, AdvisoryIsNamed DEF Replayed
        <5>2. CASE Created(q)
          <6>1. q \in advisories
            BY <1>1, <5>2 DEF Created, PlaceIsKept
          <6>. QED
            BY <5>2, <6>1, AdvisoryIsNamed DEF Created
        <5>. QED
          BY <3>6, <5>1, <5>2
      <4>2. reply'[q].kind # "none" /\ reply'[q].resource = rec.resource
        BY <4>1, RecordIsNamed, AnswersTyped
      <4>3. rec.resource # None
        BY <4>1, RecordIsNamed, NoneAssumption
      <4>. QED
        BY <1>2, <2>1, <3>3, <3>4, <4>1, <4>2, <4>3 DEF Abstract!ANext, Abstract!Succeed
    <3>. QED
      BY <3>2, <3>5, <3>6
  <2>. QED
    BY <2>2, <2>3
<1>. QED
  BY <1>3, <1>4

\* The claim of advisory operations implements the exactly-once specification.
THEOREM AdvisoryImplementsExactlyOnce == Spec => RefinesExactlyOnce
  BY AbstractInit, AbstractStep, InductiveHolds, PTL DEF Spec, RefinesExactlyOnce, Abstract!ASpec
=============================================================================
