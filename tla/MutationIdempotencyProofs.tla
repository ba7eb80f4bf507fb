--------------------- MODULE MutationIdempotencyProofs ---------------------
(***************************************************************************)
(* Proofs about MutationIdempotency, for every set of requests and         *)
(* payloads and every lease, wait and clock skew.                          *)
(***************************************************************************)
EXTENDS MutationIdempotency, TLAPS

-----------------------------------------------------------------------------
(* The documents the code writes and the answers it gives have their type. *)

\* The documents the code writes are documents of the schema.
LEMMA RecordsTyped ==
  /\ Absent \in Record
  /\ \A r \in Request, h \in Payload, s \in 0 .. Skew : Locked(r, h, s) \in Record
  /\ \A r \in Request, h \in Payload : Done(h, r) \in Record
  /\ \A d \in Record : Aged(d) \in Record
  /\ \A d \in Record, s \in 0 .. Skew : [d EXCEPT !.lease = Lease + s] \in Record
<1>1. Absent \in Record
  BY LeaseAssumption DEF Absent, Record
<1>2. ASSUME NEW r \in Request, NEW h \in Payload, NEW s \in 0 .. Skew
      PROVE  Locked(r, h, s) \in Record
  BY LeaseAssumption DEF Locked, Record
<1>3. ASSUME NEW r \in Request, NEW h \in Payload
      PROVE  Done(h, r) \in Record
  BY LeaseAssumption DEF Done, Record
<1>4. ASSUME NEW d \in Record PROVE Aged(d) \in Record
  <2>1. Less(d.lease) \in 0 .. Lease + Skew
    BY LeaseAssumption DEF Record, Less
  <2>. QED
    BY <2>1 DEF Aged, Record
<1>5. ASSUME NEW d \in Record, NEW s \in 0 .. Skew
      PROVE  [d EXCEPT !.lease = Lease + s] \in Record
  BY LeaseAssumption DEF Record
<1>. QED
  BY <1>1, <1>2, <1>3, <1>4, <1>5

\* What the fields of those documents hold.
LEMMA RecordFields ==
  /\ Absent.status = "ABSENT" /\ Absent.owner = None /\ Absent.resource = None
  /\ \A r, h, s : /\ Locked(r, h, s).status = "LOCK" /\ Locked(r, h, s).hash = h
                  /\ Locked(r, h, s).owner = r /\ Locked(r, h, s).resource = None
  /\ \A h, r : /\ Done(h, r).status = "DONE" /\ Done(h, r).hash = h
               /\ Done(h, r).owner = None /\ Done(h, r).resource = r
  /\ \A d \in Record : /\ Aged(d).status = d.status /\ Aged(d).hash = d.hash
                       /\ Aged(d).owner = d.owner /\ Aged(d).resource = d.resource
  BY DEF Absent, Locked, Done, Aged, Record

\* What the answers hold.
LEMMA RepliesTyped ==
  /\ \A k \in {"conflict", "in_progress", "error"} :
       Refusal(k) \in Reply /\ Refusal(k).kind = k /\ Refusal(k).resource = None
  /\ \A k \in {"created", "replayed"}, x \in Request \cup {None} :
       Success(k, x) \in Reply /\ Success(k, x).kind = k /\ Success(k, x).resource = x
  BY DEF Refusal, Success, Reply

\* The fields of a document have their types.
LEMMA RecordResource ==
  ASSUME NEW d \in Record
  PROVE  /\ d.resource \in Request \cup {None} /\ d.owner \in Request \cup {None}
         /\ d.hash \in Payload \cup {None} /\ d.status \in {"ABSENT", "LOCK", "DONE"}
  BY DEF Record

-----------------------------------------------------------------------------
\* Every step keeps the types.
LEMMA TypeStep ==
  ASSUME TypeOK, [Next]_vars
  PROVE  TypeOK'
<1>. USE WaitAssumption, NoneAssumption, RecordsTyped, RepliesTyped, RecordResource
<1>1. ASSUME NEW r \in Request, Arrive(r) PROVE TypeOK'
  BY <1>1 DEF Arrive, Goto, worker, TypeOK, Place, PreClaim
<1>2. ASSUME NEW r \in Request, FindNothing(r) PROVE TypeOK'
  BY <1>2 DEF FindNothing, Goto, worker, TypeOK, Place, PreClaim, Handling
<1>3. ASSUME NEW r \in Request, FindConflict(r) PROVE TypeOK'
  BY <1>3 DEF FindConflict, Answer, Goto, TypeOK, Place, PreClaim, Handling
<1>4. ASSUME NEW r \in Request, FindDone(r) PROVE TypeOK'
  BY <1>4 DEF FindDone, Answer, Goto, TypeOK, Place, PreClaim, Handling
<1>5. ASSUME NEW r \in Request, FindLock(r) PROVE TypeOK'
  BY <1>5 DEF FindLock, Goto, TypeOK, Place, PreClaim, Handling
<1>6. ASSUME NEW r \in Request, Create(r) PROVE TypeOK'
  BY <1>6 DEF Create, Claimed, Goto, TypeOK, Place, PreClaim, Handling
<1>7. ASSUME NEW r \in Request, CreateDuplicate(r) PROVE TypeOK'
  BY <1>7 DEF CreateDuplicate, Goto, worker, TypeOK, Place, PreClaim, Handling
<1>8. ASSUME NEW r \in Request, PollTimeout(r) PROVE TypeOK'
  BY <1>8 DEF PollTimeout, Answer, Goto, TypeOK, Place, PreClaim, Handling
<1>9. ASSUME NEW r \in Request, PollConflict(r) PROVE TypeOK'
  BY <1>9 DEF PollConflict, Answer, Goto, TypeOK, Place, PreClaim, Handling
<1>10. ASSUME NEW r \in Request, PollDone(r) PROVE TypeOK'
  BY <1>10 DEF PollDone, Answer, Goto, TypeOK, Place, PreClaim, Handling
<1>11. ASSUME NEW r \in Request, PollExpired(r) PROVE TypeOK'
  BY <1>11 DEF PollExpired, LeavePoll, Goto, TypeOK, Place, PreClaim, Handling
<1>12. ASSUME NEW r \in Request, PollRead(r) PROVE TypeOK'
  <2>1. CASE LeavePoll(r)
    BY <1>12, <2>1 DEF PollRead, LeavePoll, Goto, TypeOK, Place, PreClaim
  <2>2. CASE ~ LeavePoll(r)
    <3>1. seen' = [seen EXCEPT ![r] = rec]
      BY <1>12, <2>2 DEF PollRead
    <3>. QED
      BY <1>12, <2>2, <3>1 DEF PollRead, TypeOK
  <2>. QED
    BY <2>1, <2>2
<1>13. ASSUME NEW r \in Request, Takeover(r) PROVE TypeOK'
  BY <1>13 DEF Takeover, Claimed, Goto, CanTakeOver, Owns, TypeOK, Place, PreClaim, Handling
<1>14. ASSUME NEW r \in Request, TakeoverMissed(r) PROVE TypeOK'
  BY <1>14 DEF TakeoverMissed, Goto, TypeOK, Place, PreClaim, Handling
<1>15. ASSUME NEW r \in Request, ClaimCallFails(r) PROVE TypeOK'
  BY <1>15 DEF ClaimCallFails, Answer, Goto, CanTakeOver, Owns, TypeOK, Place, PreClaim, Handling
<1>16. ASSUME NEW r \in Request, Heartbeat(r) PROVE TypeOK'
  <2>1. CASE Owns(rec, r, payload[r])
    <3>1. rec' = [rec EXCEPT !.lease = Lease + ahead[r]]
      BY <1>16, <2>1 DEF Heartbeat
    <3>2. rec \in Record /\ ahead[r] \in 0 .. Skew
      BY DEF TypeOK
    <3>3. rec' \in Record
      BY <3>1, <3>2
    <3>. QED
      BY <1>16, <2>1, <3>3 DEF Heartbeat, TypeOK
  <2>2. CASE ~ Owns(rec, r, payload[r])
    <3>1. lost' = [lost EXCEPT ![r] = TRUE] /\ UNCHANGED rec
      BY <1>16, <2>2 DEF Heartbeat
    <3>. QED
      BY <1>16, <3>1 DEF Heartbeat, TypeOK
  <2>. QED
    BY <2>1, <2>2
<1>17. ASSUME NEW r \in Request, HeartbeatFails(r) PROVE TypeOK'
  BY <1>17 DEF HeartbeatFails, TypeOK, Place, PreClaim, Handling
<1>18. ASSUME NEW r \in Request, WorkFails(r) PROVE TypeOK'
  <2>1. CASE Goto(r, "failed")
    BY <1>18, <2>1 DEF WorkFails, Goto, worker, TypeOK, Place
  <2>2. CASE Goto(r, "reconcile")
    BY <1>18, <2>2 DEF WorkFails, Goto, worker, TypeOK, Place
  <2>. QED
    BY <1>18, <2>1, <2>2 DEF WorkFails
<1>19. ASSUME NEW r \in Request, StartCommit(r) PROVE TypeOK'
  BY <1>19 DEF StartCommit, Goto, worker, TypeOK, Place, PreClaim, Handling
<1>20. ASSUME NEW r \in Request, Commit(r) PROVE TypeOK'
  <2>1. rec' \in Record /\ resources' \subseteq Request
    BY <1>20 DEF Commit, TypeOK
  <2>2. CASE Goto(r, "committed") /\ beating' = [beating EXCEPT ![r] = FALSE]
    BY <1>20, <2>1, <2>2 DEF Commit, Goto, TypeOK, Place
  <2>3. CASE Goto(r, "reconcile") /\ UNCHANGED beating
    BY <1>20, <2>1, <2>3 DEF Commit, Goto, TypeOK, Place
  <2>. QED
    BY <1>20, <2>2, <2>3 DEF Commit
<1>21. ASSUME NEW r \in Request, CommitRefused(r) PROVE TypeOK'
  BY <1>21 DEF CommitRefused, Goto, worker, TypeOK, Place, PreClaim, Handling
<1>22. ASSUME NEW r \in Request, CommitAborts(r) PROVE TypeOK'
  BY <1>22 DEF CommitAborts, Goto, worker, TypeOK, Place, PreClaim, Handling
<1>23. ASSUME NEW r \in Request, ReconcileDone(r) PROVE TypeOK'
  BY <1>23 DEF ReconcileDone, Goto, TypeOK, Place, PreClaim, Handling
<1>24. ASSUME NEW r \in Request, ReconcileNothing(r) PROVE TypeOK'
  BY <1>24 DEF ReconcileNothing, Goto, worker, TypeOK, Place, PreClaim, Handling
<1>25. ASSUME NEW r \in Request, ReconcileFails(r) PROVE TypeOK'
  BY <1>25 DEF ReconcileFails, Goto, worker, TypeOK, Place, PreClaim, Handling
<1>26. ASSUME NEW r \in Request, AnswerCommitted(r) PROVE TypeOK'
  <2>1. Success("created", r) \in Reply /\ Refusal("error") \in Reply
    OBVIOUS
  <2>2. PICK a \in Reply : reply' = [reply EXCEPT ![r] = a]
    BY <1>26, <2>1 DEF AnswerCommitted
  <2>. QED
    BY <1>26, <2>2 DEF AnswerCommitted, Goto, TypeOK, Place
<1>27. ASSUME NEW r \in Request, AnswerFailed(r) PROVE TypeOK'
  <2>1. reply' \in [Request -> Reply]
    BY <1>27 DEF AnswerFailed, TypeOK
  <2>2. CASE Goto(r, "end") /\ UNCHANGED beating
    BY <1>27, <2>1, <2>2 DEF AnswerFailed, Goto, TypeOK, Place
  <2>3. CASE Goto(r, "release") /\ beating' = [beating EXCEPT ![r] = FALSE]
    BY <1>27, <2>1, <2>3 DEF AnswerFailed, Goto, TypeOK, Place
  <2>. QED
    BY <1>27, <2>2, <2>3 DEF AnswerFailed
<1>28. ASSUME NEW r \in Request, Release(r) PROVE TypeOK'
  BY <1>28 DEF Release, Goto, worker, Owns, TypeOK, Place, PreClaim, Handling
<1>29. ASSUME NEW r \in Request, ReleaseFails(r) PROVE TypeOK'
  BY <1>29 DEF ReleaseFails, Goto, worker, TypeOK, Place, PreClaim, Handling
<1>30. ASSUME NEW r \in Request, HangUp(r) PROVE TypeOK'
  BY <1>30 DEF HangUp, TypeOK, Place, PreClaim, Handling
<1>31. ASSUME NEW r \in Request, Crash(r) PROVE TypeOK'
  BY <1>31 DEF Crash, Goto, TypeOK, Place, PreClaim, Handling
<1>32. CASE Tick
  BY <1>32 DEF Tick, Less, TypeOK, Place, PreClaim, Handling
<1>33. CASE UNCHANGED vars
  BY <1>33 DEF vars, worker, TypeOK, Place, PreClaim, Handling
<1>. QED
  BY <1>1, <1>2, <1>3, <1>4, <1>5, <1>6, <1>7, <1>8, <1>9, <1>10, <1>11, <1>12, <1>13, <1>14,
     <1>15, <1>16, <1>17, <1>18, <1>19, <1>20, <1>21, <1>22, <1>23, <1>24, <1>25, <1>26, <1>27,
     <1>28, <1>29, <1>30, <1>31, <1>32, <1>33
     DEF Next, ClaimStep, HandlerStep, Failure

-----------------------------------------------------------------------------
(* What a step can do to the claim and to the set of resources.            *)

\* The claim keeps its owner and its content; at most its lease changes.
SameClaim ==
  /\ rec'.status = rec.status /\ rec'.hash = rec.hash
  /\ rec'.owner = rec.owner /\ rec'.resource = rec.resource
  /\ resources' = resources

\* A claim that is not DONE gets a new owner, or is removed.
Relocked ==
  /\ rec.status # "DONE" /\ resources' = resources
  /\ \/ \E r \in Request : rec' = Locked(r, payload[r], ahead[r])
     \/ rec' = Absent

\* A step keeps the claim, relocks or removes one that is not DONE, or commits.
LEMMA ClaimStepKinds ==
  ASSUME TypeOK, [Next]_vars
  PROVE  payload' = payload /\ (SameClaim \/ Relocked \/ \E r \in Request : Commit(r))
<1>. DEFINE Goal == payload' = payload /\ (SameClaim \/ Relocked \/ \E r \in Request : Commit(r))
<1>1. ASSUME NEW r \in Request, Arrive(r) \/ FindNothing(r) \/ FindConflict(r) \/ FindDone(r) \/ FindLock(r)
      PROVE  Goal
  BY <1>1 DEF Arrive, FindNothing, FindConflict, FindDone, FindLock, SameClaim
<1>2. ASSUME NEW r \in Request, Create(r) \/ Takeover(r)
      PROVE  Goal
  BY <1>2 DEF Create, Takeover, CanTakeOver, Owns, Relocked
<1>3. ASSUME NEW r \in Request,
             CreateDuplicate(r) \/ PollTimeout(r) \/ PollConflict(r) \/ PollDone(r)
               \/ PollExpired(r) \/ PollRead(r) \/ TakeoverMissed(r)
      PROVE  Goal
  BY <1>3 DEF CreateDuplicate, PollTimeout, PollConflict, PollDone, PollExpired, PollRead,
              TakeoverMissed, SameClaim
<1>4. ASSUME NEW r \in Request, ClaimCallFails(r)
      PROVE  Goal
  BY <1>4 DEF ClaimCallFails, CanTakeOver, Owns, Relocked, SameClaim
<1>5. ASSUME NEW r \in Request, Heartbeat(r)
      PROVE  Goal
  <2>1. SameClaim
    BY <1>5 DEF Heartbeat, SameClaim, TypeOK, Record
  <2>. QED
    BY <1>5, <2>1 DEF Heartbeat
<1>6. ASSUME NEW r \in Request,
             HeartbeatFails(r) \/ WorkFails(r) \/ StartCommit(r) \/ CommitRefused(r) \/ CommitAborts(r)
      PROVE  Goal
  BY <1>6 DEF HeartbeatFails, WorkFails, StartCommit, CommitRefused, CommitAborts, SameClaim
<1>7. ASSUME NEW r \in Request, Commit(r)
      PROVE  Goal
  BY <1>7 DEF Commit
<1>8. ASSUME NEW r \in Request,
             ReconcileDone(r) \/ ReconcileNothing(r) \/ ReconcileFails(r)
               \/ AnswerCommitted(r) \/ AnswerFailed(r)
      PROVE  Goal
  BY <1>8 DEF ReconcileDone, ReconcileNothing, ReconcileFails, AnswerCommitted, AnswerFailed, SameClaim
<1>9. ASSUME NEW r \in Request, Release(r)
      PROVE  Goal
  BY <1>9 DEF Release, Owns, Relocked, SameClaim
<1>10. ASSUME NEW r \in Request, ReleaseFails(r) \/ HangUp(r) \/ Crash(r)
       PROVE  Goal
  BY <1>10 DEF ReleaseFails, HangUp, Crash, SameClaim
<1>11. ASSUME Tick
       PROVE  Goal
  <2>1. SameClaim
    BY <1>11, RecordFields DEF Tick, SameClaim, TypeOK
  <2>. QED
    BY <1>11, <2>1 DEF Tick
<1>12. ASSUME UNCHANGED vars
       PROVE  Goal
  BY <1>12 DEF vars, SameClaim
<1>. QED
  BY <1>1, <1>2, <1>3, <1>4, <1>5, <1>6, <1>7, <1>8, <1>9, <1>10, <1>11, <1>12
     DEF Next, ClaimStep, HandlerStep, Failure

\* The document a poller keeps is the one it had, an empty one, or a fresh read.
LEMMA SeenStepKinds ==
  ASSUME TypeOK, [Next]_vars, NEW q \in Request, seen'[q].status = "DONE"
  PROVE  \/ /\ seen'[q].status = seen[q].status /\ seen'[q].hash = seen[q].hash
            /\ seen'[q].resource = seen[q].resource
         \/ seen'[q] = rec /\ rec' = rec
<1>. DEFINE Kept == /\ seen'[q].status = seen[q].status /\ seen'[q].hash = seen[q].hash
                    /\ seen'[q].resource = seen[q].resource
            Fresh == seen'[q] = rec /\ rec' = rec
<1>. USE RecordFields
<1>1. ASSUME NEW r \in Request,
             FindConflict(r) \/ FindDone(r) \/ PollTimeout(r) \/ PollConflict(r) \/ PollDone(r)
               \/ PollExpired(r) \/ ClaimCallFails(r) \/ Create(r) \/ Takeover(r) \/ Crash(r)
      PROVE  Kept
  BY <1>1 DEF FindConflict, FindDone, PollTimeout, PollConflict, PollDone, PollExpired,
              ClaimCallFails, Create, Takeover, Crash, Answer, Claimed, LeavePoll, TypeOK
<1>2. ASSUME NEW r \in Request, FindLock(r)
      PROVE  Kept \/ Fresh
  BY <1>2 DEF FindLock, TypeOK
<1>3. ASSUME NEW r \in Request, PollRead(r)
      PROVE  Kept \/ Fresh
  BY <1>3 DEF PollRead, LeavePoll, TypeOK
<1>4. ASSUME NEW r \in Request,
             Arrive(r) \/ FindNothing(r) \/ CreateDuplicate(r) \/ TakeoverMissed(r) \/ Heartbeat(r)
               \/ HeartbeatFails(r) \/ WorkFails(r) \/ StartCommit(r) \/ Commit(r)
               \/ CommitRefused(r) \/ CommitAborts(r)
      PROVE  Kept
  BY <1>4 DEF Arrive, FindNothing, CreateDuplicate, TakeoverMissed, Heartbeat, HeartbeatFails,
              WorkFails, StartCommit, Commit, CommitRefused, CommitAborts, worker
<1>5. ASSUME NEW r \in Request,
             ReconcileDone(r) \/ ReconcileNothing(r) \/ ReconcileFails(r) \/ AnswerCommitted(r)
               \/ AnswerFailed(r) \/ Release(r) \/ ReleaseFails(r) \/ HangUp(r)
      PROVE  Kept
  BY <1>5 DEF ReconcileDone, ReconcileNothing, ReconcileFails, AnswerCommitted, AnswerFailed,
              Release, ReleaseFails, HangUp, worker
<1>6. ASSUME Tick
      PROVE  Kept
  BY <1>6 DEF Tick, TypeOK
<1>7. ASSUME UNCHANGED vars
      PROVE  Kept
  BY <1>7 DEF vars, worker
<1>. QED
  BY <1>1, <1>2, <1>3, <1>4, <1>5, <1>6, <1>7 DEF Next, ClaimStep, HandlerStep, Failure

-----------------------------------------------------------------------------
(* Where a step can take a request, and what it can answer.                *)

Working == PreClaim \cup Handling
Over == {"release", "end", "crashed"}

\* A request never returns to work, and is committed only by its own commit.
LEMMA PlaceStepKinds ==
  ASSUME TypeOK, [Next]_vars, NEW q \in Request
  PROVE  /\ pc'[q] \in Working => pc[q] \in Working
         /\ pc'[q] \in PreClaim => pc[q] \in PreClaim
         /\ pc'[q] = "committed" => pc[q] = "committed" \/ Commit(q)
         /\ pc[q] \in Over => pc'[q] \in Over
         /\ Commit(q) => pc'[q] \notin Working
<1>. DEFINE Goal == /\ pc'[q] \in Working => pc[q] \in Working
                    /\ pc'[q] \in PreClaim => pc[q] \in PreClaim
                    /\ pc'[q] = "committed" => pc[q] = "committed" \/ Commit(q)
                    /\ pc[q] \in Over => pc'[q] \in Over
                    /\ Commit(q) => pc'[q] \notin Working
<1>. USE DEF Working, Over, PreClaim, Handling, Goto
<1>0. Commit(q) => pc'[q] \notin Working
  BY DEF Commit, TypeOK
<1>1. ASSUME NEW r \in Request, Arrive(r) \/ FindNothing(r) \/ FindLock(r) \/ CreateDuplicate(r)
      PROVE  Goal
  BY <1>0, <1>1 DEF Arrive, FindNothing, FindLock, CreateDuplicate, TypeOK
<1>2. ASSUME NEW r \in Request, FindConflict(r) \/ FindDone(r) \/ PollTimeout(r) \/ PollConflict(r)
                                  \/ PollDone(r) \/ ClaimCallFails(r)
      PROVE  Goal
  BY <1>0, <1>2 DEF FindConflict, FindDone, PollTimeout, PollConflict, PollDone, ClaimCallFails,
                    Answer, TypeOK
<1>3. ASSUME NEW r \in Request, PollExpired(r) \/ PollRead(r) \/ TakeoverMissed(r)
      PROVE  Goal
  BY <1>0, <1>3 DEF PollExpired, PollRead, LeavePoll, TakeoverMissed, TypeOK
<1>4. ASSUME NEW r \in Request, Create(r) \/ Takeover(r)
      PROVE  Goal
  BY <1>0, <1>4 DEF Create, Takeover, Claimed, TypeOK
<1>5. ASSUME NEW r \in Request, Heartbeat(r) \/ HeartbeatFails(r) \/ HangUp(r)
      PROVE  Goal
  BY <1>0, <1>5 DEF Heartbeat, HeartbeatFails, HangUp, TypeOK
<1>6. ASSUME NEW r \in Request, WorkFails(r) \/ StartCommit(r) \/ CommitRefused(r) \/ CommitAborts(r)
      PROVE  Goal
  BY <1>0, <1>6 DEF WorkFails, StartCommit, CommitRefused, CommitAborts, TypeOK
<1>7. ASSUME NEW r \in Request, Commit(r)
      PROVE  Goal
  <2>1. CASE r = q
    BY <1>0, <1>7, <2>1 DEF Commit
  <2>2. CASE r # q
    BY <1>0, <1>7, <2>2 DEF Commit, TypeOK
  <2>. QED
    BY <2>1, <2>2
<1>8. ASSUME NEW r \in Request, ReconcileDone(r) \/ ReconcileNothing(r) \/ ReconcileFails(r)
      PROVE  Goal
  BY <1>0, <1>8 DEF ReconcileDone, ReconcileNothing, ReconcileFails, TypeOK
<1>9. ASSUME NEW r \in Request, AnswerCommitted(r) \/ AnswerFailed(r)
      PROVE  Goal
  BY <1>0, <1>9 DEF AnswerCommitted, AnswerFailed, TypeOK
<1>10. ASSUME NEW r \in Request, Release(r) \/ ReleaseFails(r) \/ Crash(r)
       PROVE  Goal
  BY <1>0, <1>10 DEF Release, ReleaseFails, Crash, TypeOK
<1>11. ASSUME Tick \/ UNCHANGED vars
       PROVE  Goal
  BY <1>0, <1>11 DEF Tick, vars
<1>. QED
  BY <1>1, <1>2, <1>3, <1>4, <1>5, <1>6, <1>7, <1>8, <1>9, <1>10, <1>11
     DEF Next, ClaimStep, HandlerStep, Failure

\* A request is refused, told the resource of a DONE claim with its own
\* payload, or, having committed, told its own resource.
Refused(q) == \E k \in {"conflict", "in_progress", "error"} : reply'[q] = Refusal(k)
Replayed(q) ==
  \/ /\ rec.status = "DONE" /\ rec.hash = payload[q]
     /\ reply'[q] = Success("replayed", rec.resource)
  \/ /\ seen[q].status = "DONE" /\ seen[q].hash = payload[q]
     /\ reply'[q] = Success("replayed", seen[q].resource)
Created(q) == pc[q] = "committed" /\ reply'[q] = Success("created", q)

\* An answer is given once, when the request is over, and is one of the three kinds.
LEMMA ReplyStepKinds ==
  ASSUME TypeOK, [Next]_vars, NEW q \in Request, reply'[q] # reply[q]
  PROVE  /\ pc[q] \notin Over /\ pc'[q] \in Over
         /\ Refused(q) \/ Replayed(q) \/ Created(q)
         /\ reply' = [reply EXCEPT ![q] = reply'[q]]
<1>. DEFINE Goal == /\ pc[q] \notin Over /\ pc'[q] \in Over
                    /\ Refused(q) \/ Replayed(q) \/ Created(q)
                    /\ reply' = [reply EXCEPT ![q] = reply'[q]]
<1>. USE DEF Over, Goto
<1>1. ASSUME NEW r \in Request, FindConflict(r) \/ PollTimeout(r) \/ PollConflict(r) \/ ClaimCallFails(r)
      PROVE  Goal
  BY <1>1 DEF FindConflict, PollTimeout, PollConflict, ClaimCallFails, Answer, Refused, TypeOK
<1>2. ASSUME NEW r \in Request, FindDone(r) \/ PollDone(r)
      PROVE  Goal
  BY <1>2 DEF FindDone, PollDone, Answer, Replayed, TypeOK
<1>3. ASSUME NEW r \in Request, ReconcileDone(r)
      PROVE  Goal
  BY <1>3 DEF ReconcileDone, Replayed, TypeOK
<1>4. ASSUME NEW r \in Request, AnswerCommitted(r)
      PROVE  Goal
  BY <1>4 DEF AnswerCommitted, Refused, Created, TypeOK
<1>5. ASSUME NEW r \in Request, AnswerFailed(r)
      PROVE  Goal
  BY <1>5 DEF AnswerFailed, Refused, TypeOK
<1>6. ASSUME NEW r \in Request,
             Arrive(r) \/ FindNothing(r) \/ FindLock(r) \/ Create(r) \/ CreateDuplicate(r)
               \/ PollExpired(r) \/ PollRead(r) \/ Takeover(r) \/ TakeoverMissed(r)
               \/ Heartbeat(r) \/ HeartbeatFails(r)
      PROVE  FALSE
  BY <1>6 DEF Arrive, FindNothing, FindLock, Create, CreateDuplicate, PollExpired, PollRead,
              Takeover, TakeoverMissed, Heartbeat, HeartbeatFails, Claimed, LeavePoll, worker
<1>7. ASSUME NEW r \in Request,
             WorkFails(r) \/ StartCommit(r) \/ Commit(r) \/ CommitRefused(r) \/ CommitAborts(r)
               \/ ReconcileNothing(r) \/ ReconcileFails(r) \/ Release(r) \/ ReleaseFails(r)
               \/ HangUp(r) \/ Crash(r)
      PROVE  FALSE
  BY <1>7 DEF WorkFails, StartCommit, Commit, CommitRefused, CommitAborts, ReconcileNothing,
              ReconcileFails, Release, ReleaseFails, HangUp, Crash, worker
<1>8. ASSUME Tick \/ UNCHANGED vars
      PROVE  FALSE
  BY <1>8 DEF Tick, vars, worker
<1>. QED
  BY <1>1, <1>2, <1>3, <1>4, <1>5, <1>6, <1>7, <1>8 DEF Next, ClaimStep, HandlerStep, Failure

-----------------------------------------------------------------------------
(* The inductive invariant.                                                *)

\* The invariant holds before any request arrives.
LEMMA InductiveInit == Init => Inductive
<1>. SUFFICES ASSUME Init PROVE Inductive
  OBVIOUS
<1>1. TypeOK
  BY LeaseAssumption, WaitAssumption, RecordsTyped
     DEF Init, TypeOK, Place, PreClaim, NoReply, Reply
<1>2. PlaceIsKept /\ SuccessNamesTheResource
  BY NoneAssumption DEF Init, PlaceIsKept, SuccessNamesTheResource, NoReply
<1>3. DoneNamesTheResource /\ ClaimIsBound
  BY RecordFields DEF Init, DoneNamesTheResource, ClaimIsBound
<1>. QED
  BY <1>1, <1>2, <1>3 DEF Inductive

\* What a commit finds and leaves: the key was open, and now names the request.
LEMMA CommitEffect ==
  ASSUME Inductive, NEW r \in Request, Commit(r)
  PROVE  /\ rec.status = "LOCK" /\ rec.owner = r /\ rec.hash = payload[r]
         /\ resources = {} /\ resources' = {r}
         /\ rec'.status = "DONE" /\ rec'.hash = payload[r] /\ rec'.resource = r
         /\ pc[r] = "commit" /\ payload' = payload /\ reply' = reply
  BY RecordFields DEF Commit, Owns, Inductive, DoneNamesTheResource

\* A DONE claim names a resource, created from the payload it is bound to.
LEMMA RecordIsNamed ==
  ASSUME Inductive, rec.status = "DONE"
  PROVE  rec.resource \in Request /\ payload[rec.resource] = rec.hash /\ resources = {rec.resource}
  BY DEF Inductive, TypeOK, DoneNamesTheResource

\* Every step keeps the claim and the resources together.
LEMMA DoneNamesStep ==
  ASSUME Inductive, [Next]_vars
  PROVE  DoneNamesTheResource'
<1>1. payload' = payload /\ (SameClaim \/ Relocked \/ \E r \in Request : Commit(r))
  BY ClaimStepKinds DEF Inductive
<1>2. CASE SameClaim
  BY <1>1, <1>2 DEF SameClaim, Inductive, DoneNamesTheResource
<1>3. CASE Relocked
  BY <1>1, <1>3, RecordFields DEF Relocked, Inductive, DoneNamesTheResource
<1>4. CASE \E r \in Request : Commit(r)
  BY <1>4, CommitEffect DEF DoneNamesTheResource
<1>. QED
  BY <1>1, <1>2, <1>3, <1>4

\* Every step keeps the lock bound to its owner and what pollers saw DONE true.
LEMMA ClaimIsBoundStep ==
  ASSUME Inductive, [Next]_vars
  PROVE  ClaimIsBound'
<1>1. payload' = payload /\ (SameClaim \/ Relocked \/ \E r \in Request : Commit(r))
  BY ClaimStepKinds DEF Inductive
<1>2. /\ rec'.status = "LOCK" => rec'.owner \in Request /\ rec'.hash = payload'[rec'.owner]
      /\ rec'.status # "DONE" => rec'.resource = None
  <2>1. CASE SameClaim
    BY <1>1, <2>1 DEF SameClaim, Inductive, ClaimIsBound
  <2>2. CASE Relocked
    BY <1>1, <2>2, RecordFields DEF Relocked
  <2>3. CASE \E r \in Request : Commit(r)
    BY <2>3, CommitEffect
  <2>. QED
    BY <1>1, <2>1, <2>2, <2>3
<1>3. rec.status = "DONE" => /\ rec'.status = "DONE" /\ rec'.hash = rec.hash
                             /\ rec'.resource = rec.resource
  BY <1>1, CommitEffect DEF SameClaim, Relocked
<1>4. ASSUME NEW q \in Request, seen'[q].status = "DONE"
      PROVE  rec'.status = "DONE" /\ rec'.hash = seen'[q].hash /\ rec'.resource = seen'[q].resource
  BY <1>3, <1>4, SeenStepKinds DEF Inductive, ClaimIsBound
<1>. QED
  BY <1>2, <1>4 DEF ClaimIsBound

\* Every step keeps resources and answers in line with the place of each request.
LEMMA PlaceIsKeptStep ==
  ASSUME Inductive, [Next]_vars
  PROVE  PlaceIsKept'
<1>. SUFFICES ASSUME NEW q \in Request
              PROVE  /\ pc'[q] \in Working => q \notin resources'
                     /\ pc'[q] = "committed" => q \in resources'
                     /\ reply'[q].kind # "none" => pc'[q] \in Over
                     /\ reply'[q].kind \in {"created", "replayed"} <=> reply'[q].resource # None
  BY DEF PlaceIsKept, Working, Over
<1>1. TypeOK /\ PlaceIsKept /\ ClaimIsBound
  BY DEF Inductive
<1>2. payload' = payload /\ (SameClaim \/ Relocked \/ \E r \in Request : Commit(r))
  BY <1>1, ClaimStepKinds
<1>3. resources' = resources \/ \E r \in Request : Commit(r) /\ resources' = {r}
  BY <1>2, CommitEffect DEF SameClaim, Relocked
<1>4. pc'[q] \in Working => q \notin resources'
  BY <1>1, <1>3, PlaceStepKinds DEF PlaceIsKept, Working
<1>5. pc'[q] = "committed" => q \in resources'
  BY <1>1, <1>3, PlaceStepKinds, CommitEffect DEF PlaceIsKept
<1>6. CASE reply'[q] = reply[q]
  BY <1>1, <1>4, <1>5, <1>6, PlaceStepKinds DEF PlaceIsKept, Over
<1>7. CASE reply'[q] # reply[q]
  <2>1. pc'[q] \in Over /\ (Refused(q) \/ Replayed(q) \/ Created(q))
    BY <1>1, <1>7, ReplyStepKinds
  <2>. DEFINE Agree == reply'[q].kind \in {"created", "replayed"} <=> reply'[q].resource # None
  <2>2. ASSUME Refused(q) PROVE Agree
    BY <2>2, RepliesTyped DEF Refused
  <2>3. ASSUME Replayed(q) PROVE Agree
    <3>1. PICK x \in Request : reply'[q] = Success("replayed", x)
      BY <1>1, <2>3, RecordIsNamed DEF Replayed, ClaimIsBound
    <3>. QED
      BY <3>1, NoneAssumption, RepliesTyped
  <2>4. ASSUME Created(q) PROVE Agree
    BY <2>4, NoneAssumption, RepliesTyped DEF Created
  <2>. QED
    BY <1>4, <1>5, <2>1, <2>2, <2>3, <2>4
<1>. QED
  BY <1>6, <1>7

\* Every step keeps the success answers true.
LEMMA SuccessNamesStep ==
  ASSUME Inductive, [Next]_vars
  PROVE  SuccessNamesTheResource'
<1>. SUFFICES ASSUME NEW q \in Request, reply'[q].kind \in {"created", "replayed"}
              PROVE  resources' = {reply'[q].resource} /\ payload'[reply'[q].resource] = payload'[q]
  BY DEF SuccessNamesTheResource
<1>1. payload' = payload /\ (SameClaim \/ Relocked \/ \E r \in Request : Commit(r))
  BY ClaimStepKinds DEF Inductive
<1>2. resources # {} => resources' = resources
  BY <1>1, CommitEffect DEF SameClaim, Relocked
<1>3. CASE reply'[q] = reply[q]
  BY <1>1, <1>2, <1>3 DEF Inductive, SuccessNamesTheResource
<1>4. CASE reply'[q] # reply[q]
  <2>1. Refused(q) \/ Replayed(q) \/ Created(q)
    BY <1>4, ReplyStepKinds DEF Inductive
  <2>2. ~ Refused(q)
    BY RepliesTyped DEF Refused
  <2>3. CASE Replayed(q)
    <3>1. /\ rec.status = "DONE" /\ rec.hash = payload[q]
          /\ reply'[q] = Success("replayed", rec.resource)
      BY <2>3 DEF Replayed, Inductive, ClaimIsBound
    <3>2. reply'[q].resource = rec.resource
      BY <3>1, RecordIsNamed, RepliesTyped
    <3>. QED
      BY <1>1, <1>2, <3>1, <3>2, RecordIsNamed
  <2>4. CASE Created(q)
    <3>1. q \in resources /\ rec.status = "DONE"
      BY <2>4 DEF Created, Inductive, PlaceIsKept, DoneNamesTheResource
    <3>2. resources = {q}
      BY <3>1, RecordIsNamed
    <3>3. reply'[q].resource = q
      BY <2>4, RepliesTyped DEF Created
    <3>. QED
      BY <1>1, <1>2, <3>2, <3>3
  <2>. QED
    BY <2>1, <2>2, <2>3, <2>4
<1>. QED
  BY <1>3, <1>4

\* The invariant is inductive.
LEMMA InductiveStep == Inductive /\ [Next]_vars => Inductive'
<1>. SUFFICES ASSUME Inductive, [Next]_vars PROVE Inductive'
  OBVIOUS
<1>1. TypeOK'
  BY TypeStep DEF Inductive
<1>. QED
  BY <1>1, DoneNamesStep, SuccessNamesStep, PlaceIsKeptStep, ClaimIsBoundStep DEF Inductive

\* The invariant holds in every reachable state.
LEMMA InductiveHolds == Spec => []Inductive
  BY InductiveInit, InductiveStep, PTL DEF Spec

-----------------------------------------------------------------------------
(* The theorems.                                                           *)

\* Every variable keeps its type in every reachable state.
THEOREM TypeCorrect == Spec => []TypeOK
<1>1. Inductive => TypeOK
  BY DEF Inductive
<1>. QED
  BY <1>1, InductiveHolds, PTL

\* At most one resource exists under the key and exactly when the claim is DONE
\* and names it: completeMutationIdempotency never lets a second create through.
THEOREM AtMostOneResource == Spec => []DoneNamesTheResource
<1>1. Inductive => DoneNamesTheResource
  BY DEF Inductive
<1>. QED
  BY <1>1, InductiveHolds, PTL

\* Every success answer, first or replayed, names that one resource and answers
\* a request with its payload.
THEOREM AnswersAreTrue == Spec => []SuccessNamesTheResource
<1>1. Inductive => SuccessNamesTheResource
  BY DEF Inductive
<1>. QED
  BY <1>1, InductiveHolds, PTL

\* "an expired worker cannot commit": a request that is working without owning
\* the claim stays shut out of the resources for ever.  ShutOut is the stable
\* part of it: the request is past its claim, or its claim is not its own.
ShutOut(r) == /\ r \notin resources
              /\ pc[r] \notin PreClaim
              /\ ~ Owns(rec, r, payload[r])

\* Only a request that is still claiming can come to own the claim.
LEMMA OwnershipIsClaimed ==
  ASSUME Inductive, [Next]_vars, NEW q \in Request,
         Owns(rec', q, payload'[q]), ~ Owns(rec, q, payload[q])
  PROVE  pc[q] \in PreClaim
<1>. USE DEF Owns
<1>1. TypeOK
  BY DEF Inductive
<1>2. ASSUME NEW r \in Request, Create(r) \/ Takeover(r) \/ ClaimCallFails(r)
      PROVE  pc[q] \in PreClaim
  BY <1>2, RecordFields DEF Create, Takeover, ClaimCallFails, PreClaim, Claimed, Answer
<1>3. ASSUME NEW r \in Request,
             Arrive(r) \/ FindNothing(r) \/ FindConflict(r) \/ FindDone(r) \/ FindLock(r)
               \/ CreateDuplicate(r) \/ PollTimeout(r) \/ PollConflict(r) \/ PollDone(r)
               \/ PollExpired(r) \/ PollRead(r) \/ TakeoverMissed(r)
      PROVE  FALSE
  BY <1>3 DEF Arrive, FindNothing, FindConflict, FindDone, FindLock, CreateDuplicate, PollTimeout,
              PollConflict, PollDone, PollExpired, PollRead, TakeoverMissed
<1>4. ASSUME NEW r \in Request, Heartbeat(r)
      PROVE  FALSE
  <2>1. rec'.status = rec.status /\ rec'.hash = rec.hash /\ rec'.owner = rec.owner
    BY <1>1, <1>4 DEF Heartbeat, TypeOK, Record
  <2>. QED
    BY <1>4, <2>1 DEF Heartbeat
<1>5. ASSUME NEW r \in Request,
             HeartbeatFails(r) \/ WorkFails(r) \/ StartCommit(r) \/ CommitRefused(r)
               \/ CommitAborts(r) \/ ReconcileDone(r) \/ ReconcileNothing(r) \/ ReconcileFails(r)
               \/ AnswerCommitted(r) \/ AnswerFailed(r) \/ ReleaseFails(r) \/ HangUp(r) \/ Crash(r)
      PROVE  FALSE
  BY <1>5 DEF HeartbeatFails, WorkFails, StartCommit, CommitRefused, CommitAborts, ReconcileDone,
              ReconcileNothing, ReconcileFails, AnswerCommitted, AnswerFailed, ReleaseFails, HangUp, Crash
<1>6. ASSUME NEW r \in Request, Commit(r) \/ Release(r)
      PROVE  FALSE
  BY <1>6, RecordFields DEF Commit, Release
<1>7. ASSUME Tick
      PROVE  FALSE
  BY <1>1, <1>7, RecordFields DEF Tick, TypeOK
<1>8. ASSUME UNCHANGED vars
      PROVE  FALSE
  BY <1>8 DEF vars
<1>. QED
  BY <1>2, <1>3, <1>4, <1>5, <1>6, <1>7, <1>8 DEF Next, ClaimStep, HandlerStep, Failure

\* A request that is shut out stays so.
LEMMA ShutOutIsStable ==
  ASSUME Inductive, [Next]_vars, NEW r \in Request, ShutOut(r)
  PROVE  ShutOut(r)'
<1>1. ~ Owns(rec', r, payload'[r])
  BY OwnershipIsClaimed DEF ShutOut
<1>2. r \notin resources'
  <2>1. ~ Commit(r)
    BY DEF Commit, ShutOut
  <2>2. resources' = resources \/ \E q \in Request : Commit(q) /\ resources' = {q}
    BY ClaimStepKinds, CommitEffect DEF Inductive, SameClaim, Relocked
  <2>. QED
    BY <2>1, <2>2 DEF ShutOut
<1>3. pc'[r] \notin PreClaim
  BY PlaceStepKinds DEF Inductive, ShutOut
<1>. QED
  BY <1>1, <1>2, <1>3 DEF ShutOut

\* A worker that is fenced off creates no resource, however long it is paused.
THEOREM FencedNeverCommits == Spec => FencedWorkerNeverCommits
<1>. SUFFICES ASSUME NEW r \in Request
              PROVE  Spec => [](Fenced(r) => [](r \notin resources))
  BY DEF FencedWorkerNeverCommits
<1>1. Inductive /\ Fenced(r) => ShutOut(r)
  BY DEF Inductive, PlaceIsKept, Fenced, ShutOut, Handling, PreClaim
<1>2. Inductive /\ ShutOut(r) /\ [Next]_vars => ShutOut(r)'
  BY ShutOutIsStable
<1>3. ShutOut(r) => r \notin resources
  BY DEF ShutOut
<1>. QED
  BY <1>1, <1>2, <1>3, InductiveHolds, PTL DEF Spec

-----------------------------------------------------------------------------
(* The claim implements the specification of the key.                      *)

\* The initial states map to the initial states of the specification.
LEMMA AbstractInit == Init => Abstract!AInit
  BY RecordFields DEF Init, Abstract!AInit, NoReply

\* A commit maps to Apply, an answer to Succeed or Refuse, the rest to stuttering.
LEMMA AbstractStep ==
  ASSUME Inductive, [Next]_vars
  PROVE  [Abstract!ANext]_(Abstract!avars)
<1>. DEFINE answered == {r \in Request : reply[r].kind # "none"}
            told == [r \in Request |-> reply[r].resource]
<1>1. TypeOK /\ PlaceIsKept /\ ClaimIsBound
  BY DEF Inductive
<1>2. payload' = payload /\ (SameClaim \/ Relocked \/ \E r \in Request : Commit(r))
  BY <1>1, ClaimStepKinds
<1>3. CASE \E r \in Request : Commit(r)
  <2>1. PICK r \in Request : Commit(r)
    BY <1>3
  <2>2. rec.resource = None /\ rec'.resource = r /\ reply' = reply
    BY <1>1, <2>1, CommitEffect DEF ClaimIsBound
  <2>3. r \notin answered
    BY <1>1, <2>1, CommitEffect DEF PlaceIsKept
  <2>. QED
    BY <1>2, <2>2, <2>3 DEF Abstract!ANext, Abstract!Apply
<1>4. CASE ~ \E r \in Request : Commit(r)
  <2>1. rec'.resource = rec.resource
    BY <1>1, <1>2, <1>4, RecordFields DEF SameClaim, Relocked, ClaimIsBound
  <2>2. CASE reply' = reply
    BY <1>2, <2>1, <2>2 DEF Abstract!avars
  <2>3. CASE reply' # reply
    <3>1. PICK q \in Request : reply'[q] # reply[q]
      BY <1>1, <2>3, TypeStep DEF TypeOK
    <3>2. /\ pc[q] \notin Over
          /\ Refused(q) \/ Replayed(q) \/ Created(q)
          /\ reply' = [reply EXCEPT ![q] = reply'[q]]
      BY <1>1, <3>1, ReplyStepKinds
    <3>3. q \notin answered /\ reply[q].resource = None
      BY <1>1, <3>2 DEF PlaceIsKept, Over
    <3>4. ASSUME reply'[q].kind # "none"
          PROVE  /\ answered' = answered \cup {q}
                 /\ told' = [told EXCEPT ![q] = reply'[q].resource]
      <4>1. \A r \in Request : r # q => reply'[r] = reply[r]
        BY <1>1, <3>2 DEF TypeOK
      <4>2. answered' = answered \cup {q}
        BY <3>4, <4>1
      <4>3. told' = [told EXCEPT ![q] = reply'[q].resource]
        BY <4>1
      <4>. QED
        BY <4>2, <4>3
    <3>5. CASE Refused(q)
      <4>1. reply'[q].kind # "none" /\ reply'[q].resource = None
        BY <3>5, RepliesTyped DEF Refused
      <4>2. told' = told
        <5>1. \A r \in Request : reply'[r].resource = reply[r].resource
          BY <1>1, <3>2, <3>3, <4>1 DEF TypeOK
        <5>. QED
          BY <5>1
      <4>. QED
        BY <1>2, <2>1, <3>3, <3>4, <4>1, <4>2 DEF Abstract!ANext, Abstract!Refuse
    <3>6. CASE Replayed(q) \/ Created(q)
      <4>1. /\ rec.status = "DONE" /\ payload[rec.resource] = payload[q]
            /\ reply'[q] = Success("replayed", rec.resource) \/ reply'[q] = Success("created", rec.resource)
        BY <1>1, <3>6, RecordIsNamed DEF Replayed, Created, ClaimIsBound, PlaceIsKept, Inductive,
                                          DoneNamesTheResource
      <4>2. reply'[q].kind # "none" /\ reply'[q].resource = rec.resource
        BY <4>1, RecordIsNamed, RepliesTyped
      <4>3. rec.resource # None
        BY <4>1, RecordIsNamed, NoneAssumption
      <4>. QED
        BY <1>2, <2>1, <3>3, <3>4, <4>1, <4>2, <4>3 DEF Abstract!ANext, Abstract!Succeed
    <3>. QED
      BY <3>2, <3>5, <3>6
  <2>. QED
    BY <2>2, <2>3
<1>. QED
  BY <1>3, <1>4

\* The idempotency middleware implements the exactly-once specification.
THEOREM ImplementsExactlyOnce == Spec => RefinesExactlyOnce
  BY AbstractInit, AbstractStep, InductiveHolds, PTL DEF Spec, RefinesExactlyOnce, Abstract!ASpec
=============================================================================
