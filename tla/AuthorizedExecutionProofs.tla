--------------------- MODULE AuthorizedExecutionProofs ---------------------
(***************************************************************************)
(* Proofs about the life of a mandate, for any number of executors,        *)
(* recoveries, failed calls and crashes: it is spent or voided, never      *)
(* both; only a spent one that was approved changes the user's finances,   *)
(* and once; and what is final has its receipt.                            *)
(***************************************************************************)
EXTENDS AuthorizedExecution, TLAPS

-----------------------------------------------------------------------------
(* The invariant.                                                          *)

\* The statuses of a mandate that was taken.
Used == {"EXECUTING", "EXECUTED"}

\* What the documents say of each other.
Books ==
  /\ receipt => changes = 1
  /\ changes = 1 => mandate.status \in Used
  /\ mandate.status = "EXECUTED" => mandate.receipt /\ receipt
  /\ mandate.status \in {"AUTHORIZED"} \cup Used => mandate.challenge = "consumed"
  /\ attempt.final => mandate.status = "EXECUTED"
  /\ attempt.status = "EXECUTING" => mandate.status \in Used
  /\ attempt.status \in {"COMMITTED", "RECEIPT_PENDING", "COMPLETED"} => changes = 1

\* What a worker at place p with memory m knows of a mandate with status s, of c changes and
\* of whether there is a receipt: each holds ever after.
Knows(p, m, s, c, r) ==
  /\ m.status \in Used => s \in Used
  /\ m.status = "EXECUTED" => s = "EXECUTED"
  /\ p = "start" => s \in Used
  /\ p \in {"pending", "receipt", "complete", "finalize", "mark", "rc_receipt", "rc_finalize", "rc_complete"} => c = 1
  /\ p \in {"complete", "finalize", "mark", "rec_finalize", "rec_complete", "rc_finalize", "rc_complete"} => r
  /\ p \in {"mark", "rec_complete", "rc_complete"} => s = "EXECUTED"

Inductive ==
  /\ TypeOK
  /\ Books
  /\ \A w \in Worker : Knows(pc[w], mem[w], mandate.status, changes, receipt)

\* What no step takes back.
Later ==
  /\ mandate.status \in Used => mandate'.status \in Used
  /\ mandate.status = "EXECUTED" => mandate'.status = "EXECUTED"
  /\ changes = 1 => changes' = 1
  /\ receipt => receipt'

MandateRecord ==
  [status : MandateStatus, live : BOOLEAN, challenge : {"none", "open", "consumed"}, receipt : BOOLEAN]

\* The types of the documents.
StoreTyped ==
  mandate \in MandateRecord /\ attempt \in Attempt /\ changes \in 0 .. 1 /\ receipt \in BOOLEAN

-----------------------------------------------------------------------------
(* Steps.                                                                  *)

\* What a worker knows stays true.
LEMMA KnowsLater ==
  ASSUME Later, NEW p, NEW m, Knows(p, m, mandate.status, changes, receipt)
  PROVE  Knows(p, m, mandate'.status, changes', receipt')
  BY DEF Later, Knows

\* The memory of a worker that starts anew claims nothing.
LEMMA FreshMemory ==
  /\ NoMemory \in Memory
  /\ \A s, c, r : Knows("idle", NoMemory, s, c, r)
<1>1. NothingSeen \in Glimpse
  BY DEF NothingSeen, Glimpse, AttemptStatus
<1>. QED
  BY <1>1 DEF NoMemory, Memory, MandateStatus, Knows, Used

\* A step of worker w that leaves sound documents and puts it where it knows enough.
LEMMA WorkerStep ==
  ASSUME Inductive, NEW w \in Worker, NEW p \in Place, NEW m \in Memory, Go(w, p, m),
         Later, Books', StoreTyped', source' \in {"approved", "revised", "replaced"}, fresh' \in BOOLEAN,
         approver' = approver, crashes' \in 0 .. MaxCrashes,
         p # "idle" => Knows(p, m, mandate'.status, changes', receipt')
  PROVE  Inductive'
<1>. DEFINE n == IF p = "idle" THEN NoMemory ELSE m
<1>1. n \in Memory /\ Knows(p, n, mandate'.status, changes', receipt')
  BY FreshMemory
<1>. HIDE DEF n
<1>2. pc' = [pc EXCEPT ![w] = p] /\ mem' = [mem EXCEPT ![w] = n]
  BY DEF Go, n
<1>3. pc \in [Worker -> Place] /\ mem \in [Worker -> Memory]
  BY DEF Inductive, TypeOK
<1>4. pc' \in [Worker -> Place] /\ mem' \in [Worker -> Memory]
  BY <1>1, <1>2, <1>3
<1>5. TypeOK'
  BY <1>4 DEF Inductive, TypeOK, StoreTyped, MandateRecord
<1>6. ASSUME NEW v \in Worker PROVE Knows(pc'[v], mem'[v], mandate'.status, changes', receipt')
  <2>1. CASE v = w
    BY <1>1, <1>2, <1>3, <2>1
  <2>2. CASE v # w
    <3>1. pc'[v] = pc[v] /\ mem'[v] = mem[v]
      BY <1>2, <1>3, <2>2
    <3>. QED
      BY <3>1, KnowsLater DEF Inductive
  <2>. QED
    BY <2>1, <2>2
<1>. QED
  BY <1>5, <1>6 DEF Inductive

\* A step of worker w that leaves the documents alone.
LEMMA QuietStep ==
  ASSUME Inductive, NEW w \in Worker, NEW p \in Place, NEW m \in Memory, Go(w, p, m),
         UNCHANGED <<store, source, fresh, approver>>, crashes' \in 0 .. MaxCrashes,
         p # "idle" => Knows(p, m, mandate.status, changes, receipt)
  PROVE  Inductive'
<1>1. Later /\ Books' /\ StoreTyped'
  BY DEF store, Later, Inductive, Books, TypeOK, StoreTyped, MandateRecord
<1>2. mandate' = mandate /\ changes' = changes /\ receipt' = receipt
  BY DEF store
<1>3. source' \in {"approved", "revised", "replaced"} /\ fresh' \in BOOLEAN
  BY DEF Inductive, TypeOK
<1>. QED
  BY <1>1, <1>2, <1>3, WorkerStep

\* A step that moves no worker.
LEMMA SharedStep ==
  ASSUME Inductive, Later, Books', StoreTyped', UNCHANGED <<pc, mem, crashes>>,
         source' \in {"approved", "revised", "replaced"}, fresh' \in BOOLEAN,
         approver' \in {"idle", "challenged", "asserted"}
  PROVE  Inductive'
<1>1. TypeOK'
  BY DEF Inductive, TypeOK, StoreTyped, MandateRecord
<1>2. \A w \in Worker : Knows(pc'[w], mem'[w], mandate'.status, changes', receipt')
  BY KnowsLater DEF Inductive
<1>. QED
  BY <1>1, <1>2 DEF Inductive

\* The approval and the environment keep the invariant.
LEMMA ApprovalStep ==
  ASSUME Inductive, Approval \/ Environment
  PROVE  Inductive'
<1>. USE DEF Inductive, TypeOK, Books, Later, StoreTyped, MandateRecord, MandateStatus, Used, others, store
<1>1. CASE Revoke
  BY <1>1, SharedStep DEF Revoke, Revocable
<1>2. CASE CreateChallenge
  BY <1>2, SharedStep DEF CreateChallenge
<1>3. CASE AwaitVerification
  BY <1>3, SharedStep DEF AwaitVerification
<1>4. CASE CheckAssertion
  BY <1>4, SharedStep DEF CheckAssertion
<1>5. CASE Authorize
  BY <1>5, SharedStep DEF Authorize
<1>6. CASE ExpireMandate
  BY <1>6, SharedStep DEF ExpireMandate, Revocable
<1>7. CASE TimePasses
  BY <1>7, SharedStep DEF TimePasses
<1>8. CASE LeaseExpires
  BY <1>8, SharedStep DEF LeaseExpires, Attempt
<1>9. CASE ProfileChanges \/ Rebalance \/ PolicyChanges
  <2>1. CASE ProfileChanges
    <3>1. fresh' \in {fresh, changes = 1} /\ fresh \in BOOLEAN
      BY <2>1 DEF ProfileChanges
    <3>2. fresh' \in BOOLEAN
      BY ONLY <3>1, Zenon
    <3>3. source' = "replaced" /\ UNCHANGED <<store, approver, pc, mem, crashes>>
      BY <2>1 DEF ProfileChanges
    <3>. QED
      BY <3>2, <3>3, SharedStep
  <2>2. CASE Rebalance
    BY <2>2, SharedStep DEF Rebalance
  <2>3. CASE PolicyChanges
    <3>1. fresh' = FALSE
      BY <2>3 DEF PolicyChanges
    <3>2. fresh' \in BOOLEAN
      BY ONLY <3>1, Zenon
    <3>. QED
      BY <2>3, <3>2, SharedStep DEF PolicyChanges
  <2>. QED
    BY <1>9, <2>1, <2>2, <2>3
<1>. QED
  BY <1>1, <1>2, <1>3, <1>4, <1>5, <1>6, <1>7, <1>8, <1>9 DEF Approval, Environment

\* What a worker has before its step.
LEMMA WorkerTyped ==
  ASSUME Inductive, NEW w \in Worker
  PROVE  /\ pc[w] \in Place /\ mem[w] \in Memory /\ Seen \in Glimpse
         /\ mandate \in MandateRecord /\ attempt \in Attempt /\ changes \in 0 .. 1 /\ receipt \in BOOLEAN
         /\ Knows(pc[w], mem[w], mandate.status, changes, receipt)
         /\ crashes \in 0 .. MaxCrashes
  BY DEF Inductive, TypeOK, MandateRecord, Seen, Glimpse, Attempt

\* The reads of the executor keep the invariant.
LEMMA ReadStep ==
  ASSUME Inductive, NEW w \in Worker,
         \/ Execute(w) \/ ReadMandate(w) \/ ReadAttempt(w) \/ CheckSource(w) \/ ReadForClaim(w)
         \/ Work(w) \/ VerifyCommitted(w)
  PROVE  Inductive'
<1>1. /\ pc[w] \in Place /\ mem[w] \in Memory /\ Seen \in Glimpse /\ mandate \in MandateRecord
      /\ Knows(pc[w], mem[w], mandate.status, changes, receipt) /\ crashes \in 0 .. MaxCrashes
      /\ mandate.status \in MandateStatus /\ mandate.live \in BOOLEAN /\ Books
  BY WorkerTyped DEF Inductive, MandateRecord
<1>2. ASSUME NEW p \in Place, NEW m \in Memory, NEW from, Step(w, from, p, m),
             p # "idle" => Knows(p, m, mandate.status, changes, receipt)
      PROVE  Inductive'
  BY <1>1, <1>2, QuietStep DEF Step, others
<1>3. CASE Execute(w)
  <2>. DEFINE m == [NoMemory EXCEPT !.status = mandate.status]
  <2>1. m \in Memory
    BY <1>1, FreshMemory DEF Memory
  <2>2. Knows("attempt", m, mandate.status, changes, receipt)
    BY <1>1 DEF Knows, NoMemory, Used
  <2>. QED
    BY <1>2, <1>3, <2>1, <2>2 DEF Execute, Place
<1>4. CASE ReadMandate(w)
  <2>. DEFINE m == [mem[w] EXCEPT !.status = mandate.status]
  <2>1. m \in Memory /\ m.status = mandate.status
    BY <1>1 DEF Memory
  <2>. HIDE DEF m
  <2>2. Knows("attempt", m, mandate.status, changes, receipt)
    BY <2>1 DEF Knows, Used
  <2>. QED
    BY <1>2, <1>4, <2>1, <2>2 DEF ReadMandate, Place, m
<1>5. CASE ReadAttempt(w)
  <2>. DEFINE p == AfterReads(w)
              m == [mem[w] EXCEPT !.seen = Seen, !.back = IF mem[w].kind = "recover" THEN "execute" ELSE "replay"]
  <2>1. m \in Memory /\ m.status = mem[w].status
    BY <1>1 DEF Memory
  <2>2. p \in {"rec_attempt", "idle", "check"}
    BY DEF AfterReads
  <2>3. Step(w, "attempt", p, m)
    BY <1>5 DEF ReadAttempt
  <2>. HIDE DEF m, p
  <2>4. Knows(p, m, mandate.status, changes, receipt)
    BY <1>1, <2>1, <2>2 DEF Knows
  <2>. QED
    BY <1>2, <2>1, <2>2, <2>3, <2>4 DEF Place
<1>6. CASE CheckSource(w)
  <2>. DEFINE p == IF source = "approved" THEN "claim_read" ELSE "stale"
  <2>1. Step(w, "check", p, mem[w]) /\ p \in {"claim_read", "stale"}
    BY <1>6 DEF CheckSource
  <2>. HIDE DEF p
  <2>2. Knows(p, mem[w], mandate.status, changes, receipt)
    BY <1>1, <2>1 DEF Knows
  <2>. QED
    BY <1>1, <1>2, <2>1, <2>2 DEF Place
<1>7. CASE ReadForClaim(w)
  <2>. DEFINE m == [mem[w] EXCEPT !.seen = Seen, !.timely = mandate.live]
  <2>1. m \in Memory /\ m.status = mem[w].status
    BY <1>1 DEF Memory
  <2>2. PICK p \in {"idle", "claim"} : Step(w, "claim_read", p, m)
    BY <1>7 DEF ReadForClaim
  <2>. HIDE DEF m
  <2>3. Knows(p, m, mandate.status, changes, receipt)
    BY <1>1, <2>1 DEF Knows
  <2>. QED
    BY <1>2, <2>1, <2>2, <2>3 DEF Place
<1>8. CASE Work(w)
  <2>1. PICK p \in {"verify", "commit", "fail"} : Step(w, "work", p, mem[w])
    BY <1>8 DEF Work
  <2>2. Knows(p, mem[w], mandate.status, changes, receipt)
    BY <1>1, <2>1 DEF Knows
  <2>. QED
    BY <1>1, <1>2, <2>1, <2>2 DEF Place
<1>9. CASE VerifyCommitted(w)
  <2>1. CASE Mine(w) /\ attempt.status = "COMMITTED"
    <3>1. Knows("pending", mem[w], mandate.status, changes, receipt)
      BY <1>1, <2>1 DEF Knows, Books
    <3>. QED
      BY <1>1, <1>2, <1>9, <2>1, <3>1 DEF VerifyCommitted, Place
  <2>2. CASE ~ (Mine(w) /\ attempt.status = "COMMITTED")
    <3>. DEFINE m == [mem[w] EXCEPT !.code = "reconcile"]
    <3>1. m \in Memory /\ m.status = mem[w].status
      BY <1>1 DEF Memory
    <3>2. Step(w, "verify", "fail", m)
      BY <1>9, <2>2 DEF VerifyCommitted
    <3>. HIDE DEF m
    <3>3. Knows("fail", m, mandate.status, changes, receipt)
      BY <1>1, <3>1 DEF Knows
    <3>. QED
      BY <1>2, <3>1, <3>2, <3>3 DEF Place
  <2>. QED
    BY <2>1, <2>2
<1>. QED
  BY <1>3, <1>4, <1>5, <1>6, <1>7, <1>8, <1>9

\* A call that fails, a server that dies.
LEMMA FailureStep ==
  ASSUME Inductive, NEW w \in Worker, CallFails(w) \/ Crash(w)
  PROVE  Inductive'
<1>1. /\ mem[w] \in Memory /\ crashes \in 0 .. MaxCrashes
      /\ Knows(pc[w], mem[w], mandate.status, changes, receipt)
  BY WorkerTyped
<1>2. PICK p \in {"idle", "fail"} : Go(w, p, mem[w])
  BY DEF CallFails, Crash
<1>3. UNCHANGED <<store, source, fresh, approver>> /\ crashes' \in 0 .. MaxCrashes
  BY <1>1, LimitAssumption DEF CallFails, Crash
<1>4. Knows(p, mem[w], mandate.status, changes, receipt)
  BY <1>1 DEF Knows
<1>. QED
  BY <1>1, <1>2, <1>3, <1>4, QuietStep DEF Place

\* The writes of the executor to the attempt keep the invariant.
LEMMA AttemptStep ==
  ASSUME Inductive, NEW w \in Worker,
         \/ Claim(w) \/ NotTaken(w) \/ Start(w) \/ AwaitReceipt(w) \/ Complete(w) \/ Mark(w) \/ Fail(w)
         \/ GiveUp(w)
  PROVE  Inductive'
<1>1. /\ pc[w] \in Place /\ mem[w] \in Memory /\ mandate \in MandateRecord /\ attempt \in Attempt
      /\ changes \in 0 .. 1 /\ receipt \in BOOLEAN
      /\ Knows(pc[w], mem[w], mandate.status, changes, receipt) /\ crashes \in 0 .. MaxCrashes
  BY WorkerTyped
<1>2. UNCHANGED <<mandate, changes, receipt, source, fresh, approver, crashes>>
      /\ source \in {"approved", "revised", "replaced"} /\ fresh \in BOOLEAN
  BY DEF Claim, NotTaken, Start, AwaitReceipt, Complete, Mark, Fail, GiveUp, others, Inductive, TypeOK
<1>3. ASSUME NEW p \in Place, NEW m \in Memory, Go(w, p, m), attempt' \in Attempt,
             attempt'.final => attempt.final \/ mandate.status = "EXECUTED",
             attempt'.status = "EXECUTING" => attempt.status = "EXECUTING" \/ mandate.status \in Used,
             attempt'.status \in {"COMMITTED", "RECEIPT_PENDING", "COMPLETED"} =>
               attempt.status \in {"COMMITTED", "RECEIPT_PENDING", "COMPLETED"} \/ changes = 1,
             p # "idle" => Knows(p, m, mandate.status, changes, receipt)
      PROVE  Inductive'
  <2>1. Later /\ Books' /\ StoreTyped'
    BY <1>1, <1>2, <1>3 DEF Inductive, Books, Later, StoreTyped
  <2>. QED
    BY <1>1, <1>2, <1>3, <2>1, WorkerStep
<1>12. NothingSeen \in Glimpse
  BY DEF NothingSeen, Glimpse, AttemptStatus
<1>13. attempt.gen + 1 \in Nat /\ attempt.retries + 1 \in Nat
  BY <1>1 DEF Attempt
<1>4. CASE Claim(w)
  <2>1. CASE Claimable(w)
    <3>. DEFINE m == [mem[w] EXCEPT !.gen = attempt.gen + 1, !.seen = NothingSeen]
    <3>1. m \in Memory /\ m.status = mem[w].status
      BY <1>1, <1>12, <1>13 DEF Memory
    <3>2. attempt' \in Attempt /\ attempt'.final = attempt.final /\ attempt'.status = "CLAIMED"
      <4>1. PICK k \in Nat : attempt' = [attempt EXCEPT !.status = "CLAIMED", !.lease = "live",
                                                        !.gen = attempt.gen + 1, !.retries = k]
        BY <1>4, <1>13, <2>1 DEF Claim
      <4>. QED
        BY <1>1, <1>13, <4>1 DEF Attempt, AttemptStatus
    <3>3. Go(w, "take", m)
      BY <1>4, <2>1 DEF Claim
    <3>. HIDE DEF m
    <3>4. Knows("take", m, mandate.status, changes, receipt)
      BY <1>1, <3>1 DEF Knows
    <3>. QED
      BY <1>3, <3>1, <3>2, <3>3, <3>4 DEF Place
  <2>2. CASE ~ Claimable(w)
    BY <1>1, <1>3, <1>4, <2>2 DEF Claim, Place
  <2>. QED
    BY <2>1, <2>2
<1>5. CASE NotTaken(w)
  <2>1. attempt' \in Attempt /\ attempt'.final = attempt.final
        /\ (attempt' = attempt \/ attempt'.status = "FAILED_RETRYABLE")
    BY <1>1, <1>5 DEF NotTaken, Attempt, AttemptStatus
  <2>. QED
    BY <1>1, <1>3, <1>5, <2>1 DEF NotTaken, Place
<1>6. CASE Start(w)
  <2>1. CASE Mine(w) /\ attempt.status = "CLAIMED"
    <3>. DEFINE m == [NoMemory EXCEPT !.gen = mem[w].gen]
    <3>1. m \in Memory /\ m.status = "DRAFT"
      BY <1>1, FreshMemory DEF Memory, NoMemory
    <3>2. attempt' \in Attempt /\ attempt'.final = attempt.final /\ attempt'.status = "EXECUTING"
      BY <1>1, <1>6, <2>1 DEF Start, Attempt, AttemptStatus
    <3>3. Go(w, "work", m)
      BY <1>6, <2>1 DEF Start
    <3>. HIDE DEF m
    <3>4. Knows("work", m, mandate.status, changes, receipt) /\ mandate.status \in Used
      BY <1>1, <1>6, <3>1 DEF Knows, Used, Start
    <3>. QED
      BY <1>3, <3>1, <3>2, <3>3, <3>4 DEF Place
  <2>2. CASE ~ (Mine(w) /\ attempt.status = "CLAIMED")
    BY <1>1, <1>3, <1>6, <2>2 DEF Start, Place
  <2>. QED
    BY <2>1, <2>2
<1>7. CASE AwaitReceipt(w)
  <2>1. changes = 1
    BY <1>1, <1>7 DEF AwaitReceipt, Knows
  <2>2. PICK p \in {"receipt", "fail"} : Go(w, p, mem[w])
    BY <1>7 DEF AwaitReceipt
  <2>3. attempt' \in Attempt /\ attempt'.final = attempt.final
        /\ (attempt' = attempt \/ attempt'.status = "RECEIPT_PENDING")
    BY <1>1, <1>7 DEF AwaitReceipt, Attempt, AttemptStatus
  <2>4. Knows(p, mem[w], mandate.status, changes, receipt)
    BY <1>1, <2>1, <2>2 DEF Knows
  <2>. QED
    BY <1>1, <1>3, <2>1, <2>2, <2>3, <2>4 DEF Place
<1>8. CASE Complete(w)
  <2>1. changes = 1 /\ receipt
    BY <1>1, <1>8 DEF Complete, Knows
  <2>2. attempt' \in Attempt /\ attempt'.final = attempt.final
        /\ (attempt' = attempt \/ attempt'.status = "COMPLETED")
    BY <1>1, <1>8 DEF Complete, Attempt, AttemptStatus
  <2>3. Knows("finalize", mem[w], mandate.status, changes, receipt)
    BY <1>1, <2>1 DEF Knows
  <2>. QED
    BY <1>1, <1>3, <1>8, <2>1, <2>2, <2>3 DEF Complete, Place
<1>9. CASE Mark(w)
  <2>1. mandate.status = "EXECUTED"
    BY <1>1, <1>9 DEF Mark, Knows
  <2>2. attempt' \in Attempt /\ attempt'.status = attempt.status
    BY <1>1, <1>9 DEF Mark, Attempt
  <2>. QED
    BY <1>1, <1>3, <1>9, <2>1, <2>2 DEF Mark, Place
<1>10. CASE Fail(w)
  <2>1. attempt' \in Attempt /\ attempt'.final = attempt.final
        /\ (attempt' = attempt \/ attempt'.status \in {"REQUIRES_RECONCILIATION", "FAILED_RETRYABLE"})
    <3>1. CASE MayFail(w)
      <4>1. PICK s \in {"REQUIRES_RECONCILIATION", "FAILED_RETRYABLE"} :
              attempt' = [attempt EXCEPT !.status = s, !.lease = "none", !.retries = attempt.retries + 1]
        BY <1>10, <3>1 DEF Fail
      <4>. QED
        BY <1>1, <1>13, <4>1 DEF Attempt, AttemptStatus
    <3>2. CASE ~ MayFail(w)
      BY <1>1, <1>10, <3>2 DEF Fail
    <3>. QED
      BY <3>1, <3>2
  <2>. QED
    BY <1>1, <1>3, <1>10, <2>1 DEF Fail, Place
<1>11. CASE GiveUp(w)
  <2>1. attempt' \in Attempt /\ attempt'.final = attempt.final
        /\ (attempt' = attempt \/ attempt'.status = "FAILED_TERMINAL")
    BY <1>1, <1>11 DEF GiveUp, Attempt, AttemptStatus
  <2>. QED
    BY <1>1, <1>3, <1>11, <2>1 DEF GiveUp, Place
<1>. QED
  BY <1>4, <1>5, <1>6, <1>7, <1>8, <1>9, <1>10, <1>11

\* The writes of the executor to the mandate, to the recommendation and to the receipt keep
\* the invariant.
LEMMA MandateStep ==
  ASSUME Inductive, NEW w \in Worker,
         FailStale(w) \/ TakeMandate(w) \/ Commit(w) \/ CreateReceipt(w) \/ Finalize(w)
  PROVE  Inductive'
<1>1. /\ pc[w] \in Place /\ mem[w] \in Memory /\ mandate \in MandateRecord /\ attempt \in Attempt
      /\ changes \in 0 .. 1 /\ receipt \in BOOLEAN
      /\ Knows(pc[w], mem[w], mandate.status, changes, receipt) /\ crashes \in 0 .. MaxCrashes /\ Books
  BY WorkerTyped DEF Inductive
<1>2. /\ UNCHANGED <<approver, crashes>>
      /\ source' \in {"approved", "revised", "replaced"} /\ fresh' \in BOOLEAN
      /\ TakeMandate(w) \/ Finalize(w) => UNCHANGED <<source, fresh>>
  <2>1. source \in {"approved", "revised", "replaced"} /\ fresh \in BOOLEAN
    BY DEF Inductive, TypeOK
  <2>2. CASE FailStale(w) \/ TakeMandate(w) \/ CreateReceipt(w) \/ Finalize(w)
    BY <2>1, <2>2 DEF FailStale, TakeMandate, CreateReceipt, Finalize, others
  <2>3. CASE Commit(w)
    <3>1. UNCHANGED <<approver, crashes>>
      BY <2>3 DEF Commit
    <3>2. (fresh' = TRUE /\ source' = "replaced") \/ UNCHANGED <<fresh, source>>
      BY <2>3 DEF Commit
    <3>3. fresh' \in BOOLEAN /\ source' \in {"approved", "revised", "replaced"}
      BY <2>1, <3>2, Zenon
    <3>4. pc[w] = "commit"
      BY <2>3 DEF Commit
    <3>. QED
      BY <3>1, <3>3, <3>4 DEF TakeMandate, Finalize
  <2>. QED
    BY <2>2, <2>3
<1>3. CASE FailStale(w)
  <2>1. mandate' \in MandateRecord /\ UNCHANGED <<attempt, changes, receipt>> /\ Go(w, "idle", mem[w])
        /\ mandate'.challenge = mandate.challenge /\ mandate'.receipt = mandate.receipt
        /\ (mandate' = mandate \/ (mandate.status = "AUTHORIZED" /\ mandate'.status = "FAILED"))
    <3>1. CASE mandate.status = "AUTHORIZED"
      BY <1>1, <1>3, <3>1 DEF FailStale, MandateRecord, MandateStatus
    <3>2. CASE mandate.status # "AUTHORIZED"
      BY <1>1, <1>3, <3>2 DEF FailStale
    <3>. QED
      BY <3>1, <3>2
  <2>2. Later /\ Books' /\ StoreTyped'
    BY <1>1, <2>1 DEF Books, Later, StoreTyped, Used
  <2>. QED
    BY <1>1, <1>2, <2>1, <2>2, WorkerStep DEF Place
<1>4. CASE TakeMandate(w)
  <2>1. CASE mandate' = mandate /\ Go(w, "start", mem[w]) /\ mem[w].status = "EXECUTING"
    <3>1. mandate.status \in Used
      BY <1>1, <2>1 DEF Knows, Used
    <3>2. UNCHANGED store
      BY <1>4, <2>1 DEF TakeMandate, store
    <3>3. Knows("start", mem[w], mandate.status, changes, receipt)
      BY <1>1, <3>1 DEF Knows
    <3>. QED
      BY <1>1, <1>2, <1>4, <2>1, <3>2, <3>3, QuietStep DEF Place
  <2>2. CASE mandate' = mandate /\ Go(w, "not_taken", mem[w])
    <3>1. UNCHANGED store
      BY <1>4, <2>2 DEF TakeMandate, store
    <3>2. Knows("not_taken", mem[w], mandate.status, changes, receipt)
      BY <1>1 DEF Knows
    <3>. QED
      BY <1>1, <1>2, <1>4, <2>2, <3>1, <3>2, QuietStep DEF Place
  <2>3. CASE mandate.status = "AUTHORIZED" /\ mandate' = [mandate EXCEPT !.status = "EXECUTING"]
             /\ Go(w, "start", mem[w])
    <3>1. /\ mandate' \in MandateRecord /\ mandate'.status = "EXECUTING"
          /\ mandate'.challenge = mandate.challenge /\ UNCHANGED <<attempt, changes, receipt>>
      BY <1>1, <1>4, <2>3 DEF TakeMandate, MandateRecord, MandateStatus
    <3>2. Later /\ Books' /\ StoreTyped'
      BY <1>1, <2>3, <3>1 DEF Books, Later, StoreTyped, Used
    <3>3. Knows("start", mem[w], mandate'.status, changes', receipt')
      BY <1>1, <2>3, <3>1 DEF Knows, Used
    <3>. QED
      BY <1>1, <1>2, <2>3, <3>2, <3>3, WorkerStep DEF Place
  <2>. QED
    BY <1>4, <2>1, <2>2, <2>3 DEF TakeMandate
<1>5. CASE Commit(w)
  <2>1. CASE /\ changes = 0 /\ MayCommit(w)
             /\ attempt' = [attempt EXCEPT !.status = "COMMITTED", !.result = TRUE, !.lease = "live"]
             /\ changes' = 1
             /\ \E place \in {"verify", "fail"} : Go(w, place, mem[w])
    <3>1. UNCHANGED <<mandate, receipt>>
      BY <1>5 DEF Commit
    <3>2. attempt' \in Attempt /\ attempt'.status = "COMMITTED" /\ attempt'.final = attempt.final
      BY <1>1, <2>1 DEF Attempt, AttemptStatus
    <3>3. mandate.status \in Used
      BY <1>1, <2>1 DEF MayCommit, Books
    <3>4. Later /\ Books' /\ StoreTyped'
      BY <1>1, <2>1, <3>1, <3>2, <3>3 DEF Books, Later, StoreTyped
    <3>5. PICK p \in {"verify", "fail"} : Go(w, p, mem[w])
      BY <2>1
    <3>6. Knows(p, mem[w], mandate'.status, changes', receipt')
      BY <1>1, <2>1, <3>1, <3>5 DEF Knows
    <3>. QED
      BY <1>1, <1>2, <3>4, <3>5, <3>6, WorkerStep DEF Place
  <2>2. CASE /\ UNCHANGED <<changes, fresh, source, attempt>>
             /\ \E place \in IF changes = 1 THEN {"verify", "fail"} ELSE {"fail"} : Go(w, place, mem[w])
    <3>1. UNCHANGED <<store, source, fresh, approver>>
      BY <1>2, <1>5, <2>2 DEF Commit, store
    <3>2. PICK p \in {"verify", "fail"} : Go(w, p, mem[w])
      BY <2>2
    <3>3. Knows(p, mem[w], mandate.status, changes, receipt)
      BY <1>1, <3>2 DEF Knows
    <3>. QED
      BY <1>1, <1>2, <3>1, <3>2, <3>3, QuietStep DEF Place
  <2>. QED
    BY <1>5, <2>1, <2>2 DEF Commit
<1>6. CASE CreateReceipt(w)
  <2>1. changes = 1 /\ receipt' = TRUE /\ UNCHANGED <<mandate, attempt, changes>> /\ Go(w, "complete", mem[w])
    BY <1>1, <1>6 DEF CreateReceipt, Knows
  <2>2. Later /\ Books' /\ StoreTyped'
    BY <1>1, <2>1 DEF Books, Later, StoreTyped
  <2>3. Knows("complete", mem[w], mandate'.status, changes', receipt')
    BY <1>1, <2>1 DEF Knows
  <2>. QED
    BY <1>1, <1>2, <2>1, <2>2, <2>3, WorkerStep DEF Place
<1>7. CASE Finalize(w)
  <2>0. changes = 1 /\ receipt /\ UNCHANGED <<attempt, changes, receipt>>
    BY <1>1, <1>7 DEF Finalize, Knows
  <2>1. CASE mandate.status = "EXECUTING" /\ mandate' = Executed /\ Go(w, "mark", mem[w])
    <3>1. /\ mandate' \in MandateRecord /\ mandate'.status = "EXECUTED" /\ mandate'.receipt
          /\ mandate'.challenge = mandate.challenge
      BY <1>1, <2>1 DEF Executed, MandateRecord, MandateStatus
    <3>2. Later /\ Books' /\ StoreTyped'
      BY <1>1, <2>0, <2>1, <3>1 DEF Books, Later, StoreTyped, Used
    <3>3. Knows("mark", mem[w], mandate'.status, changes', receipt')
      BY <1>1, <2>0, <3>1 DEF Knows, Used
    <3>. QED
      BY <1>1, <1>2, <2>1, <3>2, <3>3, WorkerStep DEF Place
  <2>2. CASE mandate.status = "EXECUTED" /\ mandate' = mandate /\ Go(w, "mark", mem[w])
    <3>1. UNCHANGED store
      BY <2>0, <2>2 DEF store
    <3>2. Knows("mark", mem[w], mandate.status, changes, receipt)
      BY <1>1, <2>0, <2>2 DEF Knows, Used
    <3>. QED
      BY <1>1, <1>2, <1>7, <2>2, <3>1, <3>2, QuietStep DEF Place
  <2>3. CASE mandate' = mandate /\ Go(w, "fail", [mem[w] EXCEPT !.code = "reconcile"])
    <3>. DEFINE m == [mem[w] EXCEPT !.code = "reconcile"]
    <3>1. m \in Memory /\ m.status = mem[w].status
      BY <1>1 DEF Memory
    <3>2. UNCHANGED store /\ Go(w, "fail", m)
      BY <2>0, <2>3 DEF store
    <3>. HIDE DEF m
    <3>3. Knows("fail", m, mandate.status, changes, receipt)
      BY <1>1, <3>1 DEF Knows
    <3>. QED
      BY <1>1, <1>2, <1>7, <3>1, <3>2, <3>3, QuietStep DEF Place
  <2>. QED
    BY <1>7, <2>1, <2>2, <2>3 DEF Finalize
<1>. QED
  BY <1>3, <1>4, <1>5, <1>6, <1>7

\* Where a reconciliation returns to.
LEMMA Returned ==
  ASSUME Inductive, NEW w \in Worker, NEW outcome, Return(w, outcome)
  PROVE  \E p \in Place, m \in Memory : Go(w, p, m) /\ \A s, c, r : Knows(pc[w], mem[w], s, c, r) => Knows(p, m, s, c, r)
<1>. DEFINE p == AfterReconciling(w, outcome)
            m == IF p = "read" THEN [NoMemory EXCEPT !.kind = "recover"] ELSE mem[w]
<1>1. p \in {"read", "give_up", "rc_read", "idle"}
  BY DEF AfterReconciling
<1>2. Go(w, p, m)
  BY DEF Return
<1>3. [NoMemory EXCEPT !.kind = "recover"] \in Memory
  BY FreshMemory DEF Memory
<1>4. m \in Memory /\ (m.status = mem[w].status \/ m.status = "DRAFT")
  BY <1>3, WorkerTyped DEF NoMemory
<1>. HIDE DEF p, m
<1>5. ASSUME NEW s, NEW c, NEW r, Knows(pc[w], mem[w], s, c, r) PROVE Knows(p, m, s, c, r)
  BY <1>1, <1>4, <1>5 DEF Knows, Used
<1>. QED
  BY <1>1, <1>2, <1>4, <1>5 DEF Place

\* The recovery's reads keep the invariant.
LEMMA RecoveryReadStep ==
  ASSUME Inductive, NEW w \in Worker,
         \/ Sweep(w) \/ RecReadAttempt(w) \/ RecReadMandate(w) \/ RecReadReceipt(w) \/ RebuildRead(w)
  PROVE  Inductive'
<1>1. /\ pc[w] \in Place /\ mem[w] \in Memory /\ Seen \in Glimpse /\ attempt \in Attempt
      /\ mandate.status \in MandateStatus /\ receipt \in BOOLEAN
      /\ Knows(pc[w], mem[w], mandate.status, changes, receipt) /\ crashes \in 0 .. MaxCrashes /\ Books
  BY WorkerTyped DEF Inductive, MandateRecord
<1>2. ASSUME NEW p \in Place, NEW m \in Memory, Go(w, p, m), UNCHANGED <<store, others>>,
             Knows(p, m, mandate.status, changes, receipt)
      PROVE  Inductive'
  BY <1>1, <1>2, QuietStep DEF others
<1>3. CASE Sweep(w)
  <2>. DEFINE m == [NoMemory EXCEPT !.back = "sweep", !.found = [gen |-> attempt.gen, retries |-> attempt.retries]]
  <2>1. m \in Memory /\ m.status = "DRAFT"
    BY <1>1, FreshMemory DEF Memory, NoMemory, Attempt
  <2>2. Go(w, "rec_attempt", m) /\ UNCHANGED <<store, others>>
    BY <1>3 DEF Sweep, Step
  <2>. HIDE DEF m
  <2>3. Knows("rec_attempt", m, mandate.status, changes, receipt)
    BY <2>1 DEF Knows, Used
  <2>. QED
    BY <1>2, <2>1, <2>2, <2>3 DEF Place
<1>4. CASE RecReadAttempt(w)
  <2>. DEFINE m == [mem[w] EXCEPT !.met = Seen]
  <2>1. m \in Memory /\ m.status = mem[w].status
    BY <1>1 DEF Memory
  <2>2. Go(w, "rec_mandate", m) /\ UNCHANGED <<store, others>>
    BY <1>4 DEF RecReadAttempt, Step
  <2>. HIDE DEF m
  <2>3. Knows("rec_mandate", m, mandate.status, changes, receipt)
    BY <1>1, <2>1 DEF Knows
  <2>. QED
    BY <1>2, <2>1, <2>2, <2>3 DEF Place
<1>5. CASE RecReadMandate(w)
  <2>. DEFINE m == [mem[w] EXCEPT !.status = mandate.status]
  <2>1. m \in Memory /\ m.status = mandate.status
    BY <1>1 DEF Memory
  <2>2. Go(w, "rec_receipt", m) /\ UNCHANGED <<store, others>>
    BY <1>5 DEF RecReadMandate, Step
  <2>. HIDE DEF m
  <2>3. Knows("rec_receipt", m, mandate.status, changes, receipt)
    BY <2>1 DEF Knows, Used
  <2>. QED
    BY <1>2, <2>1, <2>2, <2>3 DEF Place
<1>6. CASE RecReadReceipt(w)
  <2>0. UNCHANGED <<store, others>>
    BY <1>6 DEF RecReadReceipt
  <2>1. CASE receipt /\ mem[w].status = "EXECUTED" /\ Go(w, "rec_complete", mem[w])
    <3>1. Knows("rec_complete", mem[w], mandate.status, changes, receipt)
      BY <1>1, <2>1 DEF Knows
    <3>. QED
      BY <1>1, <1>2, <2>0, <2>1, <3>1 DEF Place
  <2>2. CASE receipt /\ Go(w, "rec_finalize", mem[w])
    <3>1. Knows("rec_finalize", mem[w], mandate.status, changes, receipt)
      BY <1>1, <2>2 DEF Knows
    <3>. QED
      BY <1>1, <1>2, <2>0, <2>2, <3>1 DEF Place
  <2>3. CASE Go(w, "rec_flag", mem[w])
    <3>1. Knows("rec_flag", mem[w], mandate.status, changes, receipt)
      BY <1>1 DEF Knows
    <3>. QED
      BY <1>1, <1>2, <2>0, <2>3, <3>1 DEF Place
  <2>4. CASE \E outcome : Return(w, outcome)
    BY <1>1, <1>2, <2>0, <2>4, Returned
  <2>. QED
    BY <1>6, <2>1, <2>2, <2>3, <2>4 DEF RecReadReceipt
<1>7. CASE RebuildRead(w)
  <2>1. UNCHANGED <<store, others>>
    BY <1>7 DEF RebuildRead, Step
  <2>2. PICK p \in {"rc_receipt", "idle"} : Go(w, p, mem[w]) /\ (p = "rc_receipt" => changes = 1)
    BY <1>7 DEF RebuildRead, Step
  <2>3. Knows(p, mem[w], mandate.status, changes, receipt)
    BY <1>1, <2>2 DEF Knows
  <2>. QED
    BY <1>1, <1>2, <2>1, <2>2, <2>3 DEF Place
<1>. QED
  BY <1>3, <1>4, <1>5, <1>6, <1>7

\* The recovery's writes keep the invariant.
LEMMA RecoveryWriteStep ==
  ASSUME Inductive, NEW w \in Worker,
         \/ RecFinalize(w) \/ RecComplete(w) \/ RecFlag(w)
         \/ RebuildReceipt(w) \/ RebuildFinalize(w) \/ RebuildComplete(w)
  PROVE  Inductive'
<1>1. /\ pc[w] \in Place /\ mem[w] \in Memory /\ mandate \in MandateRecord /\ attempt \in Attempt
      /\ changes \in 0 .. 1 /\ receipt \in BOOLEAN
      /\ Knows(pc[w], mem[w], mandate.status, changes, receipt) /\ crashes \in 0 .. MaxCrashes /\ Books
  BY WorkerTyped DEF Inductive
<1>2. /\ UNCHANGED <<source, fresh, approver, crashes>>
      /\ source \in {"approved", "revised", "replaced"} /\ fresh \in BOOLEAN
  BY DEF RecFinalize, RecComplete, RecFlag, RebuildReceipt, RebuildFinalize, RebuildComplete, others,
         Inductive, TypeOK
<1>3. ASSUME NEW p \in Place, NEW m \in Memory, Go(w, p, m), Later, Books', StoreTyped',
             Knows(p, m, mandate'.status, changes', receipt')
      PROVE  Inductive'
  BY <1>1, <1>2, <1>3, WorkerStep
\* A mandate whose receipt exists is finalised.
<1>4. ASSUME receipt, UNCHANGED <<attempt, changes, receipt>>,
             mandate' = IF mandate.status \in {"AUTHORIZED", "EXECUTING"} THEN Executed ELSE mandate
      PROVE  Later /\ Books' /\ StoreTyped'
  <2>1. CASE mandate' = Executed
    <3>1. /\ mandate' \in MandateRecord /\ mandate'.status = "EXECUTED" /\ mandate'.receipt
          /\ mandate'.challenge = mandate.challenge
      BY <1>1, <2>1 DEF Executed, MandateRecord, MandateStatus
    <3>2. mandate.status \in {"AUTHORIZED"} \cup Used
      BY <1>1, <1>4 DEF Books
    <3>. QED
      BY <1>1, <1>4, <3>1, <3>2 DEF Books, Later, StoreTyped, Used
  <2>2. CASE mandate' = mandate
    BY <1>1, <1>4, <2>2 DEF Books, Later, StoreTyped
  <2>. QED
    BY <1>4, <2>1, <2>2
\* An attempt is completed whose mandate is executed.
<1>5. ASSUME mandate.status = "EXECUTED", UNCHANGED <<mandate, changes, receipt>>,
             attempt' = attempt \/ attempt' = Completed
      PROVE  Later /\ Books' /\ StoreTyped'
  <2>1. attempt' \in Attempt /\ (attempt' = attempt \/ attempt'.status = "COMPLETED")
    BY <1>1, <1>5 DEF Completed, Attempt, AttemptStatus
  <2>2. changes = 1
    BY <1>1, <1>5 DEF Books
  <2>. QED
    BY <1>1, <1>5, <2>1, <2>2 DEF Books, Later, StoreTyped
<1>6. CASE RecFinalize(w)
  <2>1. receipt /\ UNCHANGED <<attempt, changes, receipt>>
        /\ mandate' = IF mandate.status \in {"AUTHORIZED", "EXECUTING"} THEN Executed ELSE mandate
    BY <1>1, <1>6 DEF RecFinalize, Knows
  <2>2. Later /\ Books' /\ StoreTyped'
    BY <1>4, <2>1
  <2>3. Knows(pc[w], mem[w], mandate'.status, changes', receipt')
    BY <1>1, <2>2, KnowsLater
  <2>4. CASE mandate'.status = "EXECUTED" /\ Go(w, "rec_complete", mem[w])
    <3>1. Knows("rec_complete", mem[w], mandate'.status, changes', receipt')
      BY <2>1, <2>3, <2>4 DEF Knows
    <3>. QED
      BY <1>1, <1>3, <2>2, <2>4, <3>1 DEF Place
  <2>5. CASE Return(w, "REQUIRES")
    <3>1. PICK p \in Place, m \in Memory :
            Go(w, p, m) /\ \A s, c, r : Knows(pc[w], mem[w], s, c, r) => Knows(p, m, s, c, r)
      BY <2>5, Returned
    <3>2. Knows(p, m, mandate'.status, changes', receipt')
      BY <2>3, <3>1
    <3>. QED
      BY <1>3, <2>2, <3>1, <3>2
  <2>. QED
    BY <1>6, <2>4, <2>5 DEF RecFinalize
<1>7. CASE RecComplete(w)
  <2>1. mandate.status = "EXECUTED" /\ UNCHANGED <<mandate, changes, receipt>>
        /\ (attempt' = attempt \/ attempt' = Completed)
    BY <1>1, <1>7 DEF RecComplete, Knows
  <2>2. Later /\ Books' /\ StoreTyped'
    BY <1>5, <2>1
  <2>3. PICK p \in Place, m \in Memory :
          Go(w, p, m) /\ \A s, c, r : Knows(pc[w], mem[w], s, c, r) => Knows(p, m, s, c, r)
    BY <1>7, Returned DEF RecComplete
  <2>4. Knows(p, m, mandate'.status, changes', receipt')
    BY <1>1, <2>1, <2>3
  <2>. QED
    BY <1>3, <2>2, <2>3, <2>4
<1>8. CASE RecFlag(w)
  <2>1. attempt' \in Attempt /\ attempt'.final = attempt.final
        /\ (attempt' = attempt \/ attempt'.status = "REQUIRES_RECONCILIATION")
    BY <1>1, <1>8 DEF RecFlag, Attempt, AttemptStatus
  <2>2. UNCHANGED <<mandate, changes, receipt>>
    BY <1>8 DEF RecFlag
  <2>3. Later /\ Books' /\ StoreTyped'
    BY <1>1, <2>1, <2>2 DEF Books, Later, StoreTyped
  <2>4. PICK p \in Place, m \in Memory :
          Go(w, p, m) /\ \A s, c, r : Knows(pc[w], mem[w], s, c, r) => Knows(p, m, s, c, r)
    BY <1>8, Returned DEF RecFlag
  <2>5. Knows(p, m, mandate'.status, changes', receipt')
    BY <1>1, <2>2, <2>4
  <2>. QED
    BY <1>3, <2>3, <2>4, <2>5
<1>9. CASE RebuildReceipt(w)
  <2>1. changes = 1 /\ receipt' = TRUE /\ UNCHANGED <<mandate, attempt, changes>> /\ Go(w, "rc_finalize", mem[w])
    BY <1>1, <1>9 DEF RebuildReceipt, Knows
  <2>2. Later /\ Books' /\ StoreTyped'
    BY <1>1, <2>1 DEF Books, Later, StoreTyped
  <2>3. Knows("rc_finalize", mem[w], mandate'.status, changes', receipt')
    BY <1>1, <2>1 DEF Knows
  <2>. QED
    BY <1>1, <1>3, <2>1, <2>2, <2>3 DEF Place
<1>10. CASE RebuildFinalize(w)
  <2>1. receipt /\ UNCHANGED <<attempt, changes, receipt>>
        /\ mandate' = IF mandate.status \in {"AUTHORIZED", "EXECUTING"} THEN Executed ELSE mandate
    BY <1>1, <1>10 DEF RebuildFinalize, Knows
  <2>2. Later /\ Books' /\ StoreTyped'
    BY <1>4, <2>1
  <2>3. Knows(pc[w], mem[w], mandate'.status, changes', receipt')
    BY <1>1, <2>2, KnowsLater
  <2>4. PICK p \in {"rc_complete", "idle"} : Go(w, p, mem[w]) /\ (p = "rc_complete" => mandate'.status = "EXECUTED")
    BY <1>10 DEF RebuildFinalize
  <2>5. pc[w] = "rc_finalize"
    BY <1>10 DEF RebuildFinalize
  <2>6. Knows(p, mem[w], mandate'.status, changes', receipt')
    BY <2>3, <2>4, <2>5 DEF Knows
  <2>. QED
    BY <1>1, <1>3, <2>2, <2>4, <2>6 DEF Place
<1>11. CASE RebuildComplete(w)
  <2>1. mandate.status = "EXECUTED" /\ UNCHANGED <<mandate, changes, receipt>>
        /\ (attempt' = attempt \/ attempt' = Completed)
    BY <1>1, <1>11 DEF RebuildComplete, Knows
  <2>2. Later /\ Books' /\ StoreTyped'
    BY <1>5, <2>1
  <2>3. Go(w, "idle", mem[w]) /\ Knows("idle", mem[w], mandate'.status, changes', receipt')
    BY <1>1, <1>11, <2>1 DEF RebuildComplete, Knows
  <2>. QED
    BY <1>1, <1>3, <2>2, <2>3 DEF Place
<1>. QED
  BY <1>6, <1>7, <1>8, <1>9, <1>10, <1>11

-----------------------------------------------------------------------------
(* The theorems.                                                           *)

LEMMA InductiveInit == Init => Inductive
<1>. SUFFICES ASSUME Init PROVE Inductive
  OBVIOUS
<1>1. TypeOK
  <2>1. attempt \in Attempt
    BY DEF Init, NoAttempt, Attempt, AttemptStatus
  <2>2. pc \in [Worker -> Place] /\ mem \in [Worker -> Memory]
    BY FreshMemory DEF Init, Place
  <2>3. 0 \in 0 .. MaxCrashes
    BY LimitAssumption
  <2>4. mandate \in MandateRecord
    BY DEF Init, MandateRecord, MandateStatus
  <2>5. /\ changes \in 0 .. 1 /\ receipt \in BOOLEAN /\ source = "approved" /\ fresh \in BOOLEAN
        /\ approver = "idle"
        /\ crashes \in 0 .. MaxCrashes
    <3>1. changes = 0 /\ receipt = FALSE /\ source = "approved" /\ approver = "idle" /\ crashes = 0
      BY DEF Init
    <3>2. changes \in 0 .. 1
      BY <3>1
    <3>3. crashes \in 0 .. MaxCrashes
      BY <2>3, <3>1
    <3>4. receipt \in BOOLEAN
      BY <3>1, Zenon
    <3>5. fresh = FALSE
      BY DEF Init
    <3>6. fresh \in BOOLEAN
      BY <3>5, Zenon
    <3>. QED
      BY <3>1, <3>2, <3>3, <3>4, <3>6
  <2>. QED
    BY <2>1, <2>2, <2>4, <2>5 DEF TypeOK, MandateRecord
<1>2. Books
  BY DEF Init, Books, NoAttempt, Used
<1>3. \A w \in Worker : Knows(pc[w], mem[w], mandate.status, changes, receipt)
  BY FreshMemory DEF Init
<1>. QED
  BY <1>1, <1>2, <1>3 DEF Inductive

LEMMA InductiveStep == Inductive /\ [Next]_vars => Inductive'
<1>. SUFFICES ASSUME Inductive, [Next]_vars PROVE Inductive'
  OBVIOUS
<1>1. CASE Approval \/ Environment
  BY <1>1, ApprovalStep
<1>2. ASSUME NEW w \in Worker, Continue(w) \/ Execute(w) \/ Sweep(w) \/ CallFails(w) \/ Crash(w)
      PROVE  Inductive'
  BY <1>2, ReadStep, FailureStep, AttemptStep, MandateStep, RecoveryReadStep, RecoveryWriteStep DEF Continue
<1>3. CASE UNCHANGED vars
  BY <1>3 DEF vars, Inductive, TypeOK, Books
<1>. QED
  BY <1>1, <1>2, <1>3 DEF Next

LEMMA InductiveHolds == Spec => []Inductive
  BY InductiveInit, InductiveStep, PTL DEF Spec

\* Every variable keeps its type in every reachable state.
THEOREM MandateTypeCorrect == Spec => []TypeOK
<1>1. Inductive => TypeOK
  BY DEF Inductive
<1>. QED
  BY <1>1, InductiveHolds, PTL

\* A completed and finalised attempt means an executed mandate that names the receipt of a
\* change that was made: the executor and the recoveries write the three documents in orders
\* of their own.
THEOREM FinalIsExecuted == Spec => []FinalMeansExecuted
<1>1. Inductive => FinalMeansExecuted
  BY DEF Inductive, Books, FinalMeansExecuted
<1>. QED
  BY <1>1, InductiveHolds, PTL

\* The user's finances change under a mandate only after the challenge of a passkey was
\* consumed for it, whichever of executor and recovery makes the change.
THEOREM ChangeIsApproved == Spec => [](changes = 1 => mandate.challenge = "consumed")
<1>1. Inductive => (changes = 1 => mandate.challenge = "consumed")
  BY DEF Inductive, Books
<1>. QED
  BY <1>1, InductiveHolds, PTL

\* A step that moves worker w is a step of w.
LEMMA MoverMoves ==
  ASSUME TypeOK, [Next]_vars, NEW w \in Worker, pc'[w] # pc[w]
  PROVE  Continue(w) \/ Execute(w) \/ Sweep(w) \/ CallFails(w) \/ Crash(w)
<1>1. pc \in [Worker -> Place]
  BY DEF TypeOK
<1>2. pc' # pc
  OBVIOUS
<1>3. ~ UNCHANGED vars /\ ~ Approval /\ ~ Environment
  BY <1>2 DEF vars, others, Approval, Environment, Revoke, CreateChallenge, AwaitVerification, CheckAssertion,
              Authorize, ExpireMandate, TimePasses, LeaseExpires, ProfileChanges, Rebalance,
              PolicyChanges
<1>4. PICK v \in Worker : Continue(v) \/ Execute(v) \/ Sweep(v) \/ CallFails(v) \/ Crash(v)
  BY <1>3 DEF Next
<1>5. \E p, m : Go(v, p, m)
  <2>1. CASE ReadMandate(v) \/ ReadAttempt(v) \/ CheckSource(v) \/ ReadForClaim(v) \/ Work(v)
             \/ VerifyCommitted(v) \/ Execute(v) \/ Sweep(v) \/ RecReadAttempt(v) \/ RecReadMandate(v)
             \/ RebuildRead(v)
    BY <2>1 DEF ReadMandate, ReadAttempt, CheckSource, ReadForClaim, Work, VerifyCommitted, Execute,
                Sweep, RecReadAttempt, RecReadMandate, RebuildRead, Step
  <2>2. CASE FailStale(v) \/ Claim(v) \/ TakeMandate(v) \/ NotTaken(v) \/ Start(v) \/ Commit(v)
             \/ AwaitReceipt(v) \/ CreateReceipt(v) \/ Complete(v) \/ Finalize(v) \/ Mark(v) \/ Fail(v)
             \/ CallFails(v) \/ Crash(v)
    BY <2>2 DEF FailStale, Claim, TakeMandate, NotTaken, Start, Commit, AwaitReceipt, CreateReceipt,
                Complete, Finalize, Mark, Fail, CallFails, Crash
  <2>3. CASE RecReadReceipt(v) \/ RecFinalize(v) \/ RecComplete(v) \/ RecFlag(v) \/ RebuildReceipt(v)
             \/ RebuildFinalize(v) \/ RebuildComplete(v) \/ GiveUp(v)
    BY <2>3 DEF RecReadReceipt, RecFinalize, RecComplete, RecFlag, RebuildReceipt, RebuildFinalize,
                RebuildComplete, GiveUp, Return
  <2>. QED
    BY <1>4, <2>1, <2>2, <2>3 DEF Continue
<1>6. v = w
  BY <1>1, <1>5 DEF Go
<1>. QED
  BY <1>4, <1>6

\* A worker whose generation was taken over writes neither the attempt nor the user's
\* finances: each of its writes carries its generation.
THEOREM FencedStaysOut == Spec => FencedWritesNothing
<1>. DEFINE Fenced(w) == pc[w] \in Claimed /\ pc'[w] # pc[w] /\ mem[w].gen < attempt.gen
<1>1. ASSUME Inductive, [Next]_vars, NEW w \in Worker, Fenced(w)
      PROVE  attempt' = attempt /\ changes' = changes
  <2>1. Continue(w) \/ Execute(w) \/ Sweep(w) \/ CallFails(w) \/ Crash(w)
    BY <1>1, MoverMoves DEF Inductive
  <2>2. mem[w].gen \in Nat /\ attempt.gen \in Nat
    BY <1>1, WorkerTyped DEF Memory, Attempt
  <2>3. ~ Mine(w)
    BY <1>1, <2>2 DEF Mine
  <2>4. pc[w] \in {"take", "not_taken", "start", "fail", "work", "commit", "verify", "pending", "receipt",
                   "complete", "finalize", "mark"}
    BY <1>1 DEF Claimed, Trying
  <2>5. CASE CallFails(w) \/ Crash(w)
    BY <2>5 DEF CallFails, Crash, store
  <2>6. CASE TakeMandate(w) \/ CreateReceipt(w) \/ Finalize(w) \/ Work(w) \/ VerifyCommitted(w)
    BY <2>6 DEF TakeMandate, CreateReceipt, Finalize, Work, VerifyCommitted, Step, store
  <2>7. CASE NotTaken(w) \/ Start(w) \/ Commit(w) \/ AwaitReceipt(w) \/ Complete(w) \/ Mark(w) \/ Fail(w)
    BY <2>3, <2>7 DEF NotTaken, Start, Commit, MayCommit, AwaitReceipt, Complete, Mark, Fail, MayFail
  <2>8. ~ (Execute(w) \/ Sweep(w) \/ ReadMandate(w) \/ ReadAttempt(w) \/ CheckSource(w) \/ FailStale(w)
           \/ ReadForClaim(w) \/ Claim(w))
    BY <2>4 DEF Execute, Sweep, ReadMandate, ReadAttempt, CheckSource, FailStale, ReadForClaim, Claim, Step
  <2>9. ~ (RecReadAttempt(w) \/ RecReadMandate(w) \/ RecReadReceipt(w) \/ RecFinalize(w) \/ RecComplete(w)
           \/ RecFlag(w) \/ RebuildRead(w) \/ RebuildReceipt(w) \/ RebuildFinalize(w) \/ RebuildComplete(w)
           \/ GiveUp(w))
    BY <2>4 DEF RecReadAttempt, RecReadMandate, RecReadReceipt, RecFinalize, RecComplete, RecFlag,
                RebuildRead, RebuildReceipt, RebuildFinalize, RebuildComplete, GiveUp, Step
  <2>. QED
    BY <2>1, <2>5, <2>6, <2>7, <2>8, <2>9 DEF Continue
<1>2. Inductive /\ [Next]_vars => [\A w \in Worker : Fenced(w) => attempt' = attempt /\ changes' = changes]_vars
  BY <1>1
<1>. QED
  BY <1>2, InductiveHolds, PTL DEF Spec, FencedWritesNothing

\* The standing of a mandate, by its status.
LEMMA StandingIs ==
  ASSUME mandate.status \in MandateStatus
  PROVE  /\ Standing = "open" <=> mandate.status \in Revocable
         /\ Standing = "spent" <=> mandate.status \in Used
         /\ Standing = "void" <=> mandate.status \in {"REVOKED", "EXPIRED", "FAILED"}
  BY DEF Standing, Revocable, Used, MandateStatus

\* What a step can do to the mandate, to the changes under it and to the receipt.
Stays ==
  /\ UNCHANGED <<changes, receipt>>
  /\ \/ mandate'.status = mandate.status
     \/ {mandate.status, mandate'.status} \subseteq Revocable
     \/ {mandate.status, mandate'.status} \subseteq Used
Voids ==
  /\ UNCHANGED <<changes, receipt>>
  /\ mandate.status \in Revocable /\ mandate'.status \in {"REVOKED", "EXPIRED", "FAILED"}
Takes ==
  /\ UNCHANGED <<changes, receipt>>
  /\ mandate.status \in Revocable /\ mandate'.status \in Used
ChangesFinances ==
  mandate.status \in Used /\ changes = 0 /\ changes' = 1 /\ UNCHANGED <<mandate, receipt>>
IssuesReceipt == changes = 1 /\ receipt' = TRUE /\ UNCHANGED <<mandate, changes>>

\* Every step is of one of these kinds.
LEMMA StepKinds ==
  ASSUME Inductive, [Next]_vars
  PROVE  Stays \/ Voids \/ Takes \/ ChangesFinances \/ IssuesReceipt
<1>. DEFINE Goal == Stays \/ Voids \/ Takes \/ ChangesFinances \/ IssuesReceipt
<1>0. mandate \in MandateRecord /\ changes \in 0 .. 1
  BY DEF Inductive, TypeOK, MandateRecord
<1>1. CASE Approval
  BY <1>0, <1>1 DEF Approval, Revoke, CreateChallenge, AwaitVerification, CheckAssertion, Authorize,
                    ExpireMandate, store, MandateRecord, Stays, Voids, Revocable
<1>2. CASE Environment \/ UNCHANGED vars
  BY <1>0, <1>2 DEF Environment, TimePasses, LeaseExpires, ProfileChanges, Rebalance, PolicyChanges, store, vars,
                    MandateRecord, Stays
<1>3. ASSUME NEW w \in Worker,
             \/ ReadMandate(w) \/ ReadAttempt(w) \/ CheckSource(w) \/ ReadForClaim(w) \/ Work(w)
             \/ VerifyCommitted(w) \/ Execute(w) \/ Sweep(w) \/ RecReadAttempt(w) \/ RecReadMandate(w)
             \/ RebuildRead(w) \/ RecReadReceipt(w) \/ CallFails(w) \/ Crash(w)
      PROVE  Goal
  <2>1. UNCHANGED store
    BY <1>3 DEF ReadMandate, ReadAttempt, CheckSource, ReadForClaim, Work, VerifyCommitted, Execute, Sweep,
                RecReadAttempt, RecReadMandate, RebuildRead, RecReadReceipt, CallFails, Crash, Step, store
  <2>. QED
    BY <2>1 DEF store, Stays
<1>4. ASSUME NEW w \in Worker,
             \/ Claim(w) \/ NotTaken(w) \/ Start(w) \/ AwaitReceipt(w) \/ Complete(w) \/ Mark(w) \/ Fail(w)
             \/ GiveUp(w) \/ RecComplete(w) \/ RecFlag(w) \/ RebuildComplete(w)
      PROVE  Goal
  <2>1. UNCHANGED <<mandate, changes, receipt>>
    BY <1>4 DEF Claim, NotTaken, Start, AwaitReceipt, Complete, Mark, Fail, GiveUp, RecComplete, RecFlag,
                RebuildComplete
  <2>. QED
    BY <2>1 DEF Stays
<1>5. ASSUME NEW w \in Worker, FailStale(w) PROVE Goal
  BY <1>0, <1>5 DEF FailStale, MandateRecord, Stays, Voids, Revocable
<1>6. ASSUME NEW w \in Worker, TakeMandate(w) PROVE Goal
  BY <1>0, <1>6 DEF TakeMandate, MandateRecord, Stays, Takes, Revocable, Used
<1>7. ASSUME NEW w \in Worker, Commit(w) PROVE Goal
  <2>1. MayCommit(w) => mandate.status \in Used
    BY DEF MayCommit, Inductive, Books
  <2>. QED
    BY <1>7, <2>1 DEF Commit, Stays, ChangesFinances
<1>8. ASSUME NEW w \in Worker, CreateReceipt(w) \/ RebuildReceipt(w) PROVE Goal
  <2>1. changes = 1
    BY <1>8, WorkerTyped DEF CreateReceipt, RebuildReceipt, Knows
  <2>. QED
    BY <1>8, <2>1 DEF CreateReceipt, RebuildReceipt, IssuesReceipt
<1>9. ASSUME NEW w \in Worker, Finalize(w) \/ RecFinalize(w) \/ RebuildFinalize(w) PROVE Goal
  <2>1. /\ UNCHANGED <<changes, receipt>>
        /\ mandate' = mandate \/ (mandate.status \in {"AUTHORIZED", "EXECUTING"} /\ mandate' = Executed)
    BY <1>9 DEF Finalize, RecFinalize, RebuildFinalize
  <2>2. mandate' = Executed => mandate'.status = "EXECUTED"
    BY <1>0 DEF Executed, MandateRecord
  <2>. QED
    BY <2>1, <2>2 DEF Stays, Takes, Revocable, Used
<1>. QED
  BY <1>1, <1>2, <1>3, <1>4, <1>5, <1>6, <1>7, <1>8, <1>9 DEF Next, Continue

\* The mandate of executor, recovery, user and timers implements a single-use mandate.
THEOREM ExecutionIsSingleUse == Spec => ImplementsSingleUse
<1>1. Init => Abstract!SInit
  BY DEF Init, Abstract!SInit, Standing, Revocable
<1>2. Inductive /\ Inductive' /\ [Next]_vars => [Abstract!SNext]_(Abstract!ledger)
  <2>. SUFFICES ASSUME Inductive, Inductive', [Next]_vars
                PROVE  [Abstract!SNext]_(Abstract!ledger)
    OBVIOUS
  <2>1. mandate.status \in MandateStatus /\ mandate'.status \in MandateStatus /\ receipt \in BOOLEAN
    BY DEF Inductive, TypeOK
  <2>2. /\ Standing = "open" <=> mandate.status \in Revocable
        /\ Standing = "spent" <=> mandate.status \in Used
        /\ Standing = "void" <=> mandate.status \in {"REVOKED", "EXPIRED", "FAILED"}
    BY <2>1, StandingIs
  <2>3. /\ Standing' = "open" <=> mandate'.status \in Revocable
        /\ Standing' = "spent" <=> mandate'.status \in Used
        /\ Standing' = "void" <=> mandate'.status \in {"REVOKED", "EXPIRED", "FAILED"}
    BY <2>1 DEF Standing, Revocable, Used, MandateStatus
  <2>4. CASE Stays
    <3>1. Standing' = Standing
      BY <2>1, <2>4 DEF Stays, Standing, Revocable, Used, MandateStatus
    <3>. QED
      BY <2>4, <3>1 DEF Stays, Abstract!ledger
  <2>5. CASE Voids
    BY <2>2, <2>3, <2>5 DEF Voids, Abstract!SNext, Abstract!Void
  <2>6. CASE Takes
    BY <2>2, <2>3, <2>6 DEF Takes, Abstract!SNext, Abstract!Spend
  <2>7. CASE ChangesFinances
    <3>1. Standing' = Standing
      BY <2>7 DEF ChangesFinances, Standing
    <3>. QED
      BY <2>2, <2>7, <3>1 DEF ChangesFinances, Abstract!SNext, Abstract!Change
  <2>8. CASE IssuesReceipt
    <3>1. Standing' = Standing
      BY <2>8 DEF IssuesReceipt, Standing
    <3>2. CASE receipt
      BY <2>1, <2>8, <3>1, <3>2 DEF IssuesReceipt, Abstract!ledger
    <3>3. CASE ~ receipt
      BY <2>8, <3>1, <3>3 DEF IssuesReceipt, Abstract!SNext, Abstract!IssueReceipt
    <3>. QED
      BY <3>2, <3>3
  <2>. QED
    BY <2>4, <2>5, <2>6, <2>7, <2>8, StepKinds
<1>. QED
  BY <1>1, <1>2, InductiveHolds, PTL DEF Spec, ImplementsSingleUse, Abstract!SSpec
=============================================================================
