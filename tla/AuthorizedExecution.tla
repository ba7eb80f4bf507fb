------------------------ MODULE AuthorizedExecution ------------------------
(***************************************************************************)
(* The life of one mandate: its approval by passkey, its execution by the  *)
(* authorized-action executor, the recovery sweep that runs every 30 s in  *)
(* every server.                                                           *)
(*                                                                         *)
(* One action per database call.  A worker is one run of execute(), either *)
(* a user's request ("execute") or one the sweep starts ("recover").       *)
(***************************************************************************)
EXTENDS Naturals

CONSTANTS
  Worker,       \* concurrent runs of the executor and of the sweep
  RetryLimit,   \* recoveries before the sweep gives up (3 in the code)
  MaxCrashes    \* bound: workers that stop, or calls that fail, half way

ASSUME LimitAssumption == RetryLimit \in Nat /\ MaxCrashes \in Nat

VARIABLES
  mandate,   \* the UserIntentMandate and its passkey challenge
  attempt,   \* the AuthorizedExecutionAttempt (unique per mandate)
  changes,   \* recommendations committed under the mandate's operation id
  receipt,   \* whether the ExecutionReceipt exists (unique per mandate)
  source,    \* the user's financial state, against what was approved
  fresh,     \* something is committed and requireFreshRecommendationState accepts what is current
  approver,  \* where the approval request is
  pc, mem,   \* where each worker is and what it has read
  crashes

vars == <<mandate, attempt, changes, receipt, source, fresh, approver, pc, mem, crashes>>
store == <<mandate, attempt, changes, receipt>>
others == <<source, fresh, approver, crashes>>

MandateStatus == {"DRAFT", "PENDING", "AUTHORIZED", "EXECUTING", "EXECUTED", "REVOKED", "EXPIRED", "FAILED"}
Revocable == {"DRAFT", "PENDING", "AUTHORIZED"}
AttemptStatus == {"NONE", "CLAIMED", "EXECUTING", "COMMITTED", "RECEIPT_PENDING", "COMPLETED",
                  "FAILED_RETRYABLE", "FAILED_TERMINAL", "REQUIRES_RECONCILIATION"}
Active == {"CLAIMED", "EXECUTING", "COMMITTED", "RECEIPT_PENDING"}
AfterCommit == {"COMMITTED", "RECEIPT_PENDING", "COMPLETED", "REQUIRES_RECONCILIATION"}

Attempt ==
  [status : AttemptStatus, gen : Nat, lease : {"none", "live", "expired"},
   retries : Nat, result : BOOLEAN, receipt : BOOLEAN, final : BOOLEAN]
NoAttempt ==
  [status |-> "NONE", gen |-> 0, lease |-> "none", retries |-> 0,
   result |-> FALSE, receipt |-> FALSE, final |-> FALSE]

Place ==
  {"idle", "read", "attempt", "check", "stale", "claim_read", "claim", "take", "not_taken", "start",
   "work", "commit", "verify", "pending", "receipt", "complete", "finalize", "mark", "fail",
   "rec_attempt", "rec_mandate", "rec_receipt", "rec_finalize", "rec_flag", "rec_complete",
   "rc_read", "rc_receipt", "rc_finalize", "rc_complete", "give_up"}
\* Inside the try block of execute().
Trying == {"work", "commit", "verify", "pending", "receipt", "complete", "finalize", "mark"}

\* What a worker remembers of an attempt.
Glimpse == [status : AttemptStatus, gen : Nat, lease : {"none", "live", "expired"}, result : BOOLEAN]
Seen == [status |-> attempt.status, gen |-> attempt.gen, lease |-> attempt.lease, result |-> attempt.result]
NothingSeen == [status |-> "NONE", gen |-> 0, lease |-> "none", result |-> FALSE]

\* kind: who started it; status: the mandate read; seen: the attempt read; met: the
\* attempt the reconciliation read; found: the one the sweep found; gen: the generation
\* claimed; timely: the mandate had not expired when the claim was made; back: who
\* called the reconciliation; code: the error to record.
Memory ==
  [kind : {"execute", "recover"}, status : MandateStatus, seen : Glimpse, met : Glimpse,
   found : [gen : Nat, retries : Nat], gen : Nat, timely : BOOLEAN,
   back : {"sweep", "execute", "replay"}, code : {"reconcile", "other"}]
NoMemory ==
  [kind |-> "execute", status |-> "DRAFT", seen |-> NothingSeen, met |-> NothingSeen,
   found |-> [gen |-> 0, retries |-> 0], gen |-> 0, timely |-> FALSE, back |-> "execute", code |-> "other"]

TypeOK ==
  /\ mandate \in [status : MandateStatus, live : BOOLEAN, challenge : {"none", "open", "consumed"},
                  receipt : BOOLEAN]
  /\ attempt \in Attempt
  /\ changes \in 0 .. 1
  /\ receipt \in BOOLEAN
  /\ source \in {"approved", "revised", "replaced"}
  /\ fresh \in BOOLEAN
  /\ approver \in {"idle", "challenged", "asserted"}
  /\ pc \in [Worker -> Place]
  /\ mem \in [Worker -> Memory]
  /\ crashes \in 0 .. MaxCrashes

Init ==
  /\ mandate = [status |-> "DRAFT", live |-> TRUE, challenge |-> "none",
                receipt |-> FALSE]
  /\ attempt = NoAttempt
  /\ changes = 0 /\ receipt = FALSE
  /\ source = "approved"
  /\ fresh = FALSE
  /\ approver = "idle"
  /\ pc = [w \in Worker |-> "idle"]
  /\ mem = [w \in Worker |-> NoMemory]
  /\ crashes = 0

-----------------------------------------------------------------------------
(* The approval *)

Revoke ==
  /\ mandate.status \in Revocable
  /\ mandate' = [mandate EXCEPT !.status = "REVOKED"]
  /\ UNCHANGED <<attempt, changes, receipt, others, pc, mem>>

CreateChallenge ==
  /\ approver = "idle" /\ mandate.status \in {"DRAFT", "PENDING"} /\ mandate.live
  /\ mandate' = [mandate EXCEPT !.challenge = "open"]
  /\ approver' = "challenged"
  /\ UNCHANGED <<attempt, changes, receipt, source, fresh, pc, mem, crashes>>

AwaitVerification ==
  /\ approver = "challenged"
  /\ mandate' = IF mandate.status \in {"DRAFT", "PENDING"} /\ mandate.live
                THEN [mandate EXCEPT !.status = "PENDING"] ELSE mandate
  /\ approver' = "idle"
  /\ UNCHANGED <<attempt, changes, receipt, source, fresh, pc, mem, crashes>>

\* The assertion is checked against what was read; the transaction below commits it.
CheckAssertion ==
  /\ approver = "idle" /\ mandate.status = "PENDING" /\ mandate.live /\ mandate.challenge = "open"
  /\ approver' = "asserted"
  /\ UNCHANGED <<store, source, fresh, pc, mem, crashes>>

\* One transaction consumes the challenge and authorizes the mandate, or neither.
Authorize ==
  /\ approver = "asserted"
  /\ mandate' = IF mandate.challenge = "open" /\ mandate.status = "PENDING" /\ mandate.live
                THEN [mandate EXCEPT !.status = "AUTHORIZED", !.challenge = "consumed"] ELSE mandate
  /\ approver' = "idle"
  /\ UNCHANGED <<attempt, changes, receipt, source, fresh, pc, mem, crashes>>

\* The time to live of the mandate ends.
TimePasses ==
  /\ mandate.live
  /\ mandate' = [mandate EXCEPT !.live = FALSE]
  /\ UNCHANGED <<attempt, changes, receipt, others, pc, mem>>

\* A lease that its holder does not renew in time.
LeaseExpires ==
  /\ attempt.lease = "live"
  /\ attempt' = [attempt EXCEPT !.lease = "expired"]
  /\ UNCHANGED <<mandate, changes, receipt, others, pc, mem>>

\* reconcileTerminalPlanReviewMandates: the mandates of which nothing came.
ExpireMandate ==
  /\ mandate.status \in Revocable /\ ~mandate.live
  /\ mandate' = [mandate EXCEPT !.status = "EXPIRED"]
  /\ UNCHANGED <<attempt, changes, receipt, others, pc, mem>>

\* The user rebalances: the profile and its revision stay.
Rebalance ==
  /\ source = "approved"
  /\ source' = "revised"
  /\ UNCHANGED <<store, fresh, approver, pc, mem, crashes>>

\* The regulatory rules change, or cannot be read: what was recommended is no longer fresh.
PolicyChanges ==
  /\ source = "approved" \/ fresh
  /\ source' = IF source = "approved" THEN "revised" ELSE source
  /\ fresh' = FALSE
  /\ UNCHANGED <<store, approver, pc, mem, crashes>>

\* The user completes or updates a profile, or has its recommendation computed again.
ProfileChanges ==
  /\ source # "replaced" \/ (changes = 1 /\ ~fresh)
  /\ source' = "replaced" /\ fresh' \in {fresh, changes = 1}
  /\ UNCHANGED <<store, approver, pc, mem, crashes>>

-----------------------------------------------------------------------------
(* The executor *)

Go(w, place, m) ==
  /\ pc' = [pc EXCEPT ![w] = place]
  /\ mem' = [mem EXCEPT ![w] = IF place = "idle" THEN NoMemory ELSE m]

\* One step of worker w that writes none of the shared documents.
Step(w, from, place, m) == pc[w] = from /\ Go(w, place, m) /\ UNCHANGED <<store, others>>

\* A user posts to /mandates/:mandateId/execute, which reads the mandate first.
Execute(w) == Step(w, "idle", "attempt", [NoMemory EXCEPT !.status = mandate.status])

ReadMandate(w) == Step(w, "read", "attempt", [mem[w] EXCEPT !.status = mandate.status])

\* Where the attempt found sends the execution.
AfterReads(w) ==
  LET user == mem[w].kind = "execute" IN
  CASE user /\ attempt.status = "COMPLETED"                          -> "rec_attempt"
    [] user /\ ~(mem[w].status = "AUTHORIZED" /\ mandate.live)        -> "idle"
    [] ~user /\ mem[w].status \notin {"AUTHORIZED", "EXECUTING"}      -> "idle"
    [] attempt.receipt                                               -> "idle"
    [] ~user /\ attempt.status \in AfterCommit                        -> "rec_attempt"
    [] OTHER                                                         -> "check"

ReadAttempt(w) ==
  Step(w, "attempt", AfterReads(w),
       [mem[w] EXCEPT !.seen = Seen, !.back = IF mem[w].kind = "recover" THEN "execute" ELSE "replay"])

\* The profile, the plan review snapshot and the fingerprints, against the mandate.
CheckSource(w) == Step(w, "check", IF source = "approved" THEN "claim_read" ELSE "stale", mem[w])

FailStale(w) ==
  /\ pc[w] = "stale"
  /\ mandate' = IF mandate.status = "AUTHORIZED" THEN [mandate EXCEPT !.status = "FAILED"] ELSE mandate
  /\ Go(w, "idle", mem[w])
  /\ UNCHANGED <<attempt, changes, receipt, others>>

\* claimExecutionAttempt reads the attempt again and refuses one that is active.
ReadForClaim(w) ==
  LET refused == \/ attempt.status = "COMPLETED"
                 \/ attempt.status \in Active /\ (mem[w].kind = "execute" \/ attempt.lease = "live")
  IN Step(w, "claim_read", IF refused THEN "idle" ELSE "claim",
          [mem[w] EXCEPT !.seen = Seen, !.timely = mandate.live])

Claimable(w) ==
  IF mem[w].seen.status = "NONE" THEN attempt.status = "NONE"
  ELSE /\ attempt.status = mem[w].seen.status
       /\ attempt.status \in {"FAILED_RETRYABLE", "REQUIRES_RECONCILIATION"} \/ attempt.lease = "expired"

Claim(w) ==
  /\ pc[w] = "claim"
  /\ IF Claimable(w)
     THEN /\ attempt' = [attempt EXCEPT
                 !.status = "CLAIMED", !.lease = "live", !.gen = @ + 1,
                 !.retries = IF attempt.status = "NONE" THEN 0 ELSE @ + 1]
          /\ Go(w, "take", [mem[w] EXCEPT !.gen = attempt.gen + 1, !.seen = NothingSeen])
     ELSE attempt' = attempt /\ Go(w, "idle", mem[w])
  /\ UNCHANGED <<mandate, changes, receipt, others>>

\* Mutant of TakeMandate: the status read at the start stands for the one stored.
TakeAsRead(w) ==
  /\ pc[w] = "take"
  /\ mandate' = [mandate EXCEPT !.status = "EXECUTING"]
  /\ Go(w, "start", mem[w])
  /\ UNCHANGED <<attempt, changes, receipt, others>>

\* The mandate is consumed; a recovery that found it EXECUTING does not take it again.
TakeMandate(w) ==
  /\ pc[w] = "take"
  /\ \/ /\ mem[w].kind = "recover" /\ mem[w].status = "EXECUTING"
        /\ mandate' = mandate /\ Go(w, "start", mem[w])
     \/ /\ ~(mem[w].kind = "recover" /\ mem[w].status = "EXECUTING")
        /\ IF mandate.status = "AUTHORIZED" /\ mem[w].timely
           THEN mandate' = [mandate EXCEPT !.status = "EXECUTING"] /\ Go(w, "start", mem[w])
           ELSE mandate' = mandate /\ Go(w, "not_taken", mem[w])
  /\ UNCHANGED <<attempt, changes, receipt, others>>

Mine(w) == attempt.gen = mem[w].gen

NotTaken(w) ==
  /\ pc[w] = "not_taken"
  /\ attempt' = IF Mine(w) THEN [attempt EXCEPT !.status = "FAILED_RETRYABLE", !.lease = "none"] ELSE attempt
  /\ Go(w, "idle", mem[w])
  /\ UNCHANGED <<mandate, changes, receipt, others>>

Start(w) ==
  /\ pc[w] = "start"
  /\ IF Mine(w) /\ attempt.status = "CLAIMED"
     THEN /\ attempt' = [attempt EXCEPT !.status = "EXECUTING", !.lease = "live"]
          /\ Go(w, "work", [NoMemory EXCEPT !.gen = mem[w].gen])
     ELSE attempt' = attempt /\ Go(w, "idle", mem[w])
  /\ UNCHANGED <<mandate, changes, receipt, others>>

\* committedAdvisory rebuilds the answer to what was committed, from fresh state only.
Work(w) ==
  Step(w, "work", IF changes = 0 THEN "commit" ELSE IF fresh THEN "verify" ELSE "fail", mem[w])

MayCommit(w) == source # "replaced" /\ Mine(w) /\ attempt.status = "EXECUTING"

\* persistAdvisoryAtomically: the recommendation, the pointers and the attempt in one
\* transaction.  Its answer may be lost; a policy that moved since the computation refuses
\* it; a replay finds what was committed before and rebuilds the answer, or fails to.
Commit(w) ==
  /\ pc[w] = "commit"
  /\ \/ /\ changes = 0 /\ MayCommit(w)
        /\ changes' = 1 /\ fresh' = TRUE /\ source' = "replaced"
        /\ attempt' = [attempt EXCEPT !.status = "COMMITTED", !.result = TRUE, !.lease = "live"]
        /\ \E place \in {"verify", "fail"} : Go(w, place, mem[w])
     \/ /\ UNCHANGED <<changes, fresh, source, attempt>>
        /\ \E place \in IF changes = 1 THEN {"verify", "fail"} ELSE {"fail"} : Go(w, place, mem[w])
  /\ UNCHANGED <<mandate, receipt, approver, crashes>>

VerifyCommitted(w) ==
  IF Mine(w) /\ attempt.status = "COMMITTED"
  THEN Step(w, "verify", "pending", mem[w])
  ELSE Step(w, "verify", "fail", [mem[w] EXCEPT !.code = "reconcile"])

AwaitReceipt(w) ==
  /\ pc[w] = "pending"
  /\ IF Mine(w) /\ attempt.status = "COMMITTED"
     THEN attempt' = [attempt EXCEPT !.status = "RECEIPT_PENDING", !.lease = "live"] /\ Go(w, "receipt", mem[w])
     ELSE attempt' = attempt /\ Go(w, "fail", mem[w])
  /\ UNCHANGED <<mandate, changes, receipt, others>>

CreateReceipt(w) ==
  /\ pc[w] = "receipt"
  /\ receipt' = TRUE
  /\ Go(w, "complete", mem[w])
  /\ UNCHANGED <<mandate, attempt, changes, others>>

Complete(w) ==
  /\ pc[w] = "complete"
  /\ attempt' = IF Mine(w) /\ attempt.status = "RECEIPT_PENDING"
                THEN [attempt EXCEPT !.status = "COMPLETED", !.receipt = TRUE, !.lease = "none"] ELSE attempt
  /\ Go(w, "finalize", mem[w])
  /\ UNCHANGED <<mandate, changes, receipt, others>>

Executed == [mandate EXCEPT !.status = "EXECUTED", !.receipt = TRUE]

Finalize(w) ==
  /\ pc[w] = "finalize"
  /\ \/ mandate.status = "EXECUTING" /\ mandate' = Executed /\ Go(w, "mark", mem[w])
     \/ mandate.status = "EXECUTED" /\ mandate' = mandate /\ Go(w, "mark", mem[w])
     \/ /\ mandate.status \notin {"EXECUTING", "EXECUTED"} /\ mandate' = mandate
        /\ Go(w, "fail", [mem[w] EXCEPT !.code = "reconcile"])
  /\ UNCHANGED <<attempt, changes, receipt, others>>

Mark(w) ==
  /\ pc[w] = "mark"
  /\ attempt' = IF Mine(w) /\ attempt.status = "COMPLETED" THEN [attempt EXCEPT !.final = TRUE] ELSE attempt
  /\ Go(w, "idle", mem[w])
  /\ UNCHANGED <<mandate, changes, receipt, others>>

\* Mutant of MayFail: without the generation.
MayFailAnyGeneration(w) == attempt.status \in {"CLAIMED", "EXECUTING"}

MayFail(w) == Mine(w) /\ attempt.status \in {"CLAIMED", "EXECUTING"}

Fail(w) ==
  /\ pc[w] = "fail"
  /\ attempt' = IF MayFail(w)
                THEN [attempt EXCEPT
                        !.status = IF mem[w].code = "reconcile" THEN "REQUIRES_RECONCILIATION" ELSE "FAILED_RETRYABLE",
                        !.lease = "none", !.retries = @ + 1]
                ELSE attempt
  /\ Go(w, "idle", mem[w])
  /\ UNCHANGED <<mandate, changes, receipt, others>>

\* A call of the try block fails, after or before it took effect.
CallFails(w) ==
  /\ pc[w] \in Trying /\ crashes < MaxCrashes
  /\ crashes' = crashes + 1
  /\ Go(w, "fail", mem[w])
  /\ UNCHANGED <<store, source, fresh, approver>>

\* The server dies; or a call outside the try block throws.
Crash(w) ==
  /\ pc[w] # "idle" /\ crashes < MaxCrashes
  /\ crashes' = crashes + 1
  /\ Go(w, "idle", mem[w])
  /\ UNCHANGED <<store, source, fresh, approver>>

-----------------------------------------------------------------------------
(* Recovery *)

\* Mutant of Sweep: only leases count.
SweepExpired(w) ==
  /\ attempt.status \in Active \cup {"COMPLETED", "REQUIRES_RECONCILIATION"} /\ attempt.lease = "expired"
  /\ Step(w, "idle", "rec_attempt",
          [NoMemory EXCEPT !.back = "sweep", !.found = [gen |-> attempt.gen, retries |-> attempt.retries]])

\* reconcileAuthorizedExecutions finds an attempt that nobody finishes.
Sweep(w) ==
  /\ attempt.status \in Active \cup {"COMPLETED", "REQUIRES_RECONCILIATION"}
  /\ \/ attempt.lease = "expired" \/ attempt.status = "REQUIRES_RECONCILIATION"
     \/ attempt.status = "COMPLETED" /\ ~attempt.final
  /\ Step(w, "idle", "rec_attempt",
          [NoMemory EXCEPT !.back = "sweep", !.found = [gen |-> attempt.gen, retries |-> attempt.retries]])

\* Where the caller of reconcileAuthorizedExecution goes on.
AfterReconciling(w, outcome) ==
  LET sweep == mem[w].back = "sweep" IN
  CASE sweep /\ outcome \in {"STALE", "REQUIRES"} /\ mem[w].found.retries < RetryLimit -> "read"
    [] sweep /\ outcome = "STALE"                                -> "give_up"
    [] mem[w].back = "execute" /\ outcome # "COMPLETED"          -> "rc_read"
    [] OTHER                                                     -> "idle"

Return(w, outcome) ==
  LET place == AfterReconciling(w, outcome)
  IN Go(w, place, IF place = "read" THEN [NoMemory EXCEPT !.kind = "recover"] ELSE mem[w])

RecReadAttempt(w) == Step(w, "rec_attempt", "rec_mandate", [mem[w] EXCEPT !.met = Seen])

RecReadMandate(w) == Step(w, "rec_mandate", "rec_receipt", [mem[w] EXCEPT !.status = mandate.status])

\* Mutant of RecReadReceipt: the attempt is completed before its mandate.
RecReadReceiptOnly(w) ==
  /\ pc[w] = "rec_receipt"
  /\ \/ receipt /\ Go(w, "rec_complete", mem[w])
     \/ ~receipt /\ Return(w, "STALE")
  /\ UNCHANGED <<store, others>>

RecReadReceipt(w) ==
  LET met == mem[w].met IN
  /\ pc[w] = "rec_receipt"
  /\ \/ receipt /\ mem[w].status = "EXECUTED" /\ Go(w, "rec_complete", mem[w])
     \/ receipt /\ mem[w].status \in {"AUTHORIZED", "EXECUTING"} /\ Go(w, "rec_finalize", mem[w])
     \/ receipt /\ mem[w].status \notin {"AUTHORIZED", "EXECUTING", "EXECUTED"} /\ Return(w, "REQUIRES")
     \/ ~receipt /\ met.status = "COMPLETED" /\ Return(w, "REQUIRES")
     \/ ~receipt /\ met.status \in {"COMMITTED", "RECEIPT_PENDING"} /\ Go(w, "rec_flag", mem[w])
     \/ /\ ~receipt /\ met.status \notin {"COMPLETED", "COMMITTED", "RECEIPT_PENDING"}
        /\ Return(w, IF met.lease = "live" THEN "LEASED" ELSE "STALE")
  /\ UNCHANGED <<store, others>>

RecFinalize(w) ==
  /\ pc[w] = "rec_finalize"
  /\ mandate' = IF mandate.status \in {"AUTHORIZED", "EXECUTING"} THEN Executed ELSE mandate
  /\ IF mandate'.status = "EXECUTED" THEN Go(w, "rec_complete", mem[w]) ELSE Return(w, "REQUIRES")
  /\ UNCHANGED <<attempt, changes, receipt, others>>

Completed == [attempt EXCEPT !.status = "COMPLETED", !.receipt = TRUE, !.final = TRUE, !.lease = "none"]

RecComplete(w) ==
  /\ pc[w] = "rec_complete"
  /\ attempt' = IF attempt.gen = mem[w].met.gen THEN Completed ELSE attempt
  /\ Return(w, "COMPLETED")
  /\ UNCHANGED <<mandate, changes, receipt, others>>

\* The commit is known and its receipt is missing.
RecFlag(w) ==
  /\ pc[w] = "rec_flag"
  /\ attempt' = IF attempt.gen = mem[w].met.gen
                THEN [attempt EXCEPT !.status = "REQUIRES_RECONCILIATION", !.lease = "none"] ELSE attempt
  /\ Return(w, "REQUIRES")
  /\ UNCHANGED <<mandate, changes, receipt, others>>

\* committedAdvisory finds what was committed and rebuilds its answer, from fresh state
\* only; reconcileCommittedExecution binds it to the result reference.
RebuildRead(w) ==
  Step(w, "rc_read", IF changes = 1 /\ fresh /\ mem[w].seen.result THEN "rc_receipt" ELSE "idle", mem[w])

RebuildReceipt(w) ==
  /\ pc[w] = "rc_receipt"
  /\ receipt' = TRUE
  /\ Go(w, "rc_finalize", mem[w])
  /\ UNCHANGED <<mandate, attempt, changes, others>>

RebuildFinalize(w) ==
  /\ pc[w] = "rc_finalize"
  /\ mandate' = IF mandate.status \in {"AUTHORIZED", "EXECUTING"} THEN Executed ELSE mandate
  /\ Go(w, IF mandate'.status = "EXECUTED" THEN "rc_complete" ELSE "idle", mem[w])
  /\ UNCHANGED <<attempt, changes, receipt, others>>

RebuildComplete(w) ==
  /\ pc[w] = "rc_complete"
  /\ attempt' = IF attempt.gen = mem[w].seen.gen /\ attempt.status \in AfterCommit THEN Completed ELSE attempt
  /\ Go(w, "idle", mem[w])
  /\ UNCHANGED <<mandate, changes, receipt, others>>

GiveUp(w) ==
  /\ pc[w] = "give_up"
  /\ attempt' = IF attempt.gen = mem[w].found.gen
                THEN [attempt EXCEPT !.status = "FAILED_TERMINAL", !.lease = "none"] ELSE attempt
  /\ Go(w, "idle", mem[w])
  /\ UNCHANGED <<mandate, changes, receipt, others>>

-----------------------------------------------------------------------------

Approval ==
  \/ Revoke \/ CreateChallenge \/ AwaitVerification \/ CheckAssertion \/ Authorize
  \/ ExpireMandate

Environment == TimePasses \/ LeaseExpires \/ ProfileChanges \/ Rebalance \/ PolicyChanges

\* What worker w does once it has started.
Continue(w) ==
  \/ ReadMandate(w) \/ ReadAttempt(w) \/ CheckSource(w) \/ FailStale(w) \/ ReadForClaim(w) \/ Claim(w)
  \/ TakeMandate(w) \/ NotTaken(w) \/ Start(w) \/ Work(w) \/ Commit(w) \/ VerifyCommitted(w)
  \/ AwaitReceipt(w) \/ CreateReceipt(w) \/ Complete(w) \/ Finalize(w) \/ Mark(w) \/ Fail(w)
  \/ RecReadAttempt(w) \/ RecReadMandate(w) \/ RecReadReceipt(w) \/ RecFinalize(w) \/ RecComplete(w)
  \/ RecFlag(w) \/ RebuildRead(w) \/ RebuildReceipt(w) \/ RebuildFinalize(w) \/ RebuildComplete(w)
  \/ GiveUp(w)

Next ==
  \/ Approval \/ Environment
  \/ \E w \in Worker : Continue(w) \/ Execute(w) \/ Sweep(w) \/ CallFails(w) \/ Crash(w)

Spec == Init /\ [][Next]_vars

\* A started worker goes on, the sweep runs again and again, time passes.
FairSpec ==
  /\ Spec
  /\ \A w \in Worker : WF_vars(Continue(w)) /\ SF_vars(Sweep(w))
  /\ WF_vars(LeaseExpires) /\ WF_vars(TimePasses) /\ WF_vars(ExpireMandate)

-----------------------------------------------------------------------------

\* A completed and finalised attempt means an executed mandate that names the receipt of a
\* change that was made, in whatever order two recoveries and the executor wrote them.
FinalMeansExecuted ==
  attempt.status = "COMPLETED" /\ attempt.final =>
    mandate.status = "EXECUTED" /\ mandate.receipt /\ receipt /\ changes = 1

\* A worker whose generation was taken over no longer writes the attempt, nor the user's finances.
Claimed == {"take", "not_taken", "start", "fail"} \cup Trying
FencedWritesNothing ==
  [][\A w \in Worker : pc[w] \in Claimed /\ pc'[w] # pc[w] /\ mem[w].gen < attempt.gen
       => attempt' = attempt /\ changes' = changes]_vars

Standing ==
  CASE mandate.status \in Revocable -> "open"
    [] mandate.status \in {"EXECUTING", "EXECUTED"} -> "spent"
    [] OTHER -> "void"

Abstract == INSTANCE SingleUseMandate WITH standing <- Standing, changed <- changes, receipted <- receipt

\* A mandate is spent or voided, never both; only a spent one changes the user's finances,
\* once, and the receipt is for that change.
ImplementsSingleUse == Abstract!SSpec

Settled == receipt /\ mandate.status = "EXECUTED"

Recoverable == attempt.result /\ attempt.status \in AfterCommit /\ attempt.retries < RetryLimit

\* A change that was committed gets its receipt and its mandate is finalised, whatever
\* crashed after the commit, as long as the attempt keeps saying that it committed, the
\* sweep has retries left and the user's recommendation is fresh.
SettledWhileRecoverable == <>[](Recoverable /\ fresh) => <>Settled

\* The same whatever became of the attempt: "transactionally committed authorized
\* execution recovers its receipt" (authorizedExecutionRecovery.test.js).
CommittedIsSettled == <>[](changes = 1 /\ attempt.retries < RetryLimit /\ fresh) => <>Settled
=============================================================================
