# WealthGenie: a TLA+ verification project

WealthGenie is a financial advisory platform: a Node/Express server on MongoDB
and Redis (`src/server`), a Python service for models and retrieval
(`src/ml-service`) and a React client (`src/reactapp`). This directory holds
TLA+ models of the parts where concurrent requests, crashes and lost answers
decide whether a user's financial state is right, the TLC runs that check them
on small instances, and proofs, checked by TLAPS, of what must hold on every
instance.

1. [The system](#1-the-system)
2. [The modules](#2-the-modules)
3. [The runs](#3-the-runs)
4. [Fairness](#4-fairness)
5. [The proofs](#5-the-proofs)
6. [What the runs found](#6-what-the-runs-found)
7. [Abstractions](#7-abstractions)
8. [Not modelled](#8-not-modelled)
9. [The plan](#9-the-plan)

Tools: `tlc -config X.cfg M` checks a run, `tlapm M.tla` checks the proofs of a
module. `PROJECT.json` lists the runs with their properties, the lines of the
source behind every definition (`map`), a mutant of the code for every property,
and the hazards the properties are for.

## 1. The system

Paths are relative to `src/server` unless they begin with `ml-service`.

| Part | State it keeps | Operations | What is hard | Correct when | Module |
|---|---|---|---|---|---|
| Idempotency of create mutations (`middleware/idempotency.js`, `routes/goals.js`, `routes/profile.js`) | `IdempotencyKey`: status, hash, owner, lease; heartbeat timers | find, create, poll, take over, heartbeat, complete, reconcile, release | workers paused past their lease, lost answers, late releases, clocks, hang-ups, crashes | one resource per key, truthful answers, every request answered, no lock for good | `MutationIdempotency` |
| Idempotency of advisory operations | the same document; the operation id of a `Recommendation` | lookup, create, inspect, wait, take over, complete in the persistence transaction, release | as above; two barriers to a double commit | as above | `AdvisoryIdempotency` |
| Financial state (`services/advisoryPersistence.js`, `recommendationState.js`, ...) | current profile, pointers, recommendations, allocation revisions, audit chain | complete, update, generate, rebalance, view | stale computations, write skew between snapshots, answers rebuilt after the commit | documents agree, the audit chain has no fork, nothing stale commits, serial behaviour | `FinancialState` |
| Authorized execution (`agents/authorization`) | mandate, attempt, receipt | approve by passkey, execute, recover, revoke | crash between commit and receipt, two recoveries, expiring leases | a mandate is spent once, a late worker writes nothing, a change gets its receipt | `AuthorizedExecution` |
| Plan review (`agents/planReview`, `routes/agentRoutes.js`) | `AgentRun`, its events, mandates of approvals | admit, claim, publish, fail, retry, recover, supersede, cancel, approve, settle | takeover while the old worker writes, budgets over attempts, two stores at approval | events whole, budget kept, one active review, every review ends | `PlanReviewRun` |
| Research tasks (`researchTaskStore.js`, `researchTaskCapacity.js`) | task documents, one capacity document, each with leases | submit, claim, renew, save, release, cancel | two leases that expire apart, stale holders | capacity is never exceeded | `ResearchTasks` |
| Plan Health (`planHealthScheduler.js`, `planHealthMonitor.js`) | lease of a period with cursor, inspections, events | claim, inspect, publish, progress, complete | slow scans, deadlines, replicas taking over | a completed scan looked at every user | `PlanHealthScan` |
| Advisory text (`routes/recommend.js`) | `advisoryText` and its metadata | claim, generate, store, fail, show | the portfolio changes while a model writes | what is shown describes what is current | `AdvisoryText` |
| Goals (`routes/goals.js`) | goal with `version`; the fence of its source | edit target or priority, refresh advice, delete | edits race each other and the plan's source | no edit is lost, no plan saved against a replaced state | `GoalEdits` |
| Chat (`chatSessionStore.js`) | session with lease, reservation, counters | settle, claim, reserve, call, complete, release, close | reservations outlive their lease, lost answers | the token cap holds for what was really spent | `ChatSession` |
| Provider circuit (`providerAbstraction.js`) | circuit state, generation, probe | permit, success, failure, release | results of earlier generations | one call at a time probes | `ProviderCircuit` |
| Income tax (`taxEngine.js`) | none | tax of two regimes, break-even deduction | thresholds, two marginal reliefs, bisection | earning more never leaves less; the break-even is the least | `TaxEngine` |
| Document store and queries (`ml-service/rag`) | revisions, generations, pointer; each replica's index | ingest, delete, change metadata, reload, query | reads before transactions, reload in many steps, threads | removed text stays removed; evidence is of one generation | `CorpusGenerations`, `CorpusQueries` |

The parts that are not modelled, with the reasons, are in
[section 8](#8-not-modelled).

### How the parts interact

A request with an `Idempotency-Key` first runs the claim protocol; its handler
then runs the financial protocol, whose transaction also completes the claim. The
two are modelled apart and meet in that one step: `Commit` of
`AdvisoryIdempotency` is the same transaction as `Commit` of `FinancialState`,
seen from the claim. An idempotency key never changes what the financial state
checks, and the financial state refuses a commit only by failing it, which the
claim models see as `WorkFails`.

Everything else reads the financial state and binds its work to what it read:

* a plan review is about one snapshot (`source` of `PlanReviewRun`) and is
  superseded when that changes; its approval creates a mandate;
* the executor of a mandate compares the state with the approved one and calls
  the rebalance of the financial state with the mandate's operation id, which is
  `Commit` of `AuthorizedExecution`; its outcome settles the waiting review
  (`MandateEnds` and `SweepMandate` of `PlanReviewRun`);
* goals hold the pointer document with a fence (`source` of `GoalEdits`), Plan
  Health publishes behind the revision of the state document (`revision` of
  `PlanHealthScan`), the advisory text is stored behind the allocation revision
  (`portfolio` of `AdvisoryText`).

In each of these modules the rest of the financial state is a counter that other
requests move at any time, which is all that the bound work can see of it.
Research tasks, chat, the provider circuit and the corpus share no state with it.

## 2. The modules

| Module | What it is |
|---|---|
| `IdempotencyRecord` | the `IdempotencyKey` document, its lease and clocks |
| `ExactlyOnce` | abstract: what a key promises |
| `MutationIdempotency`, `AdvisoryIdempotency` | the two claim protocols |
| `FinancialLedger` | abstract: four serial operations on a user's books |
| `FinancialState` | documents, requests, snapshot transactions, reconciliation |
| `SingleUseMandate` | abstract: void or spent, changed once, receipted |
| `AuthorizedExecution` | mandate, attempt and receipt, call by call |
| `ReviewLifecycle` | abstract: what a plan review promises |
| `PlanReviewRun` | the queue of plan reviews, workers, retirement, approval |
| `ResearchTasks`, `PlanHealthScan`, `AdvisoryText`, `GoalEdits`, `ChatSession`, `ProviderCircuit`, `TaxEngine` | one service each |
| `CorpusGenerations`, `CorpusQueries` | the document store, and queries over it (the second extends the first) |
| `Services` | the smaller services side by side, each an instance |
| other `MC...` | the module of a run, with what only the run needs |
| `MutationIdempotencyProofs` | theorems about `MutationIdempotency` |
| `AdvisoryIdempotencyProofs` | theorems about `AdvisoryIdempotency` |
| `CorpusProofs` | theorems about `CorpusGenerations` and `CorpusQueries` |
| `AuthorizedExecutionProofs` | theorems about `AuthorizedExecution` |
| `PlanReviewProofs` | theorems about `PlanReviewRun` |
| `FinancialStateProofs` | theorems about `FinancialState` |
| `TaxProofs` | theorems about `TaxEngine` |
| `ServicesProofs` | theorems about `Services` |

Operators whose comment begins "Mutant of" are not part of a specification: each
is a plausible bug of the code, put in the place of the definition it names to
see that a property notices.

### MutationIdempotency

One action per database call of the code. `pc[r]` follows a request through the
functions:

| `pc` | Where the code is |
|---|---|
| `find`, `create`, `takeover` | the `for(;;)` of `claimMutation` (92-147) |
| `poll` | the loop of `pollForMutationCompletion` (76-85) |
| `work` | the handler up to its transaction (`goals.js` 567-650) |
| `commit` | inside `withTransaction`, `claim.lost` already checked |
| `reconcile` | `resolveCommittedMutationForClaim` in the catch block |
| `committed` | building the response of a durable operation |
| `failed`, `release` | error answer; `releaseMutationIdempotency` on `finish` |

`rec` is the document, `resources` the goals (or profiles) created, each named by
the request that created it. `ClaimCallFails`, `CommitAborts`, `ReconcileFails`
and `ReleaseFails` are calls that fail, with or without having taken effect;
`Commit` can end in `reconcile` because the answer of a commit may be lost.
`Crash` stops a request and its timer anywhere. `Tick` lets a lease and the
polling deadlines run; `ahead[r]` is how far the clock of r's server is ahead.

### AdvisoryIdempotency

The same document under `claimAdvisoryIdempotency`: `lookup` and `waitLookup` are
`findCompletedAdvisory`, `inspect` the read after a duplicate key, `waitRead` the
read in the loop of `waitForAdvisory`. It differs from the mutation protocol in
four ways that matter: it gives up instead of starting over after a missed
takeover; nothing reads `claim.lost`; the release is in the handler's catch block;
and the unique operation id of the Recommendation is a second barrier to a double
commit. `Completing` selects `profile.complete`, whose state capture precedes its
try block.

### FinancialState

`db` is what is committed, documents numbered in the order of creation. A request
`w` has a `job` (what the client sent and what it has read) and, in a
transaction, a snapshot `snap[w]`.

| Actions | Code |
|---|---|
| `CaptureState`, `Initialise`, `InitialiseRefused` | `captureProfileStateForCompletion` |
| `ReadState` .. `ReadNewerProfile` | `resolveCurrentFinancialProfile` and the version check of `PUT /profile/:id` |
| `ReadPointer`, `ReadLatest`, `AnswerFromReads` | `resolveCurrentRecommendationState` without a session |
| `Compute` | `computeCoreRecommendation` |
| `Begin`, `Refused`, `Retry`, `Commit` | the transaction of `persistAdvisoryAtomically` or `createManualAllocationRevision` |
| `Preflight` .. `Reconcile` | `resolveStablePostCommitCurrentState` and the checks of `buildPostCommit...Response` |

A transaction is three steps: take a snapshot; look at it (`Accept` or `Refused`: what
the code finds in it is `Holds`, and `InForce` is the comparison with the regulatory
policy, which is not in the database and is read only here, before the writes:
`advisoryPersistence.js:306-307`, `recommendationState.js:717-720`); then commit the
writes, unless a document they overwrite has changed since (`Conflicts`), which makes
the driver start again. A policy that changes between look and commit stops nobody. `NewState`, `NewProfile`, `NewPointer`, `NewRecs`, `NewAlloc`,
`NewAudit` and `NewHead` are the documents the transaction writes, computed from
the snapshot as in the code and not from the database at the time of the commit:
that difference is what the properties are about.

### AuthorizedExecution

One mandate with its passkey challenge, the attempt that is unique for it, and
the receipt. A worker is one run of `execute()`, begun by a request or by the
sweep that every server starts every 30 s (`server.js:150`).

| `pc` | Code |
|---|---|
| `read`, `attempt`, `check`, `stale` | the reads at the beginning of `executeAuthorizedAction`, the comparison with the approved source, `FAILED` for a stale one |
| `claim_read`, `claim`, `take`, `not_taken`, `start` | `claimExecutionAttempt`: create or take over the attempt, then the mandate, then `EXECUTING` |
| `work`, `commit`, `verify` | the rebalance with the mandate's operation id and the execution fence |
| `pending` .. `mark` | receipt, completion of the attempt, the mandate, `mandateFinalized` |
| `fail` | the catch block (485-500) |
| `rec_...` | `reconcileCompletedExecution` |
| `rc_...`, `give_up` | recovery of a committed attempt, which rebuilds its answer first, and the retry limit |

`gen` is the fencing generation (`executionGeneration`): each claim raises it and
each write of a worker filters on it. `source` is the user's state compared with
what was approved: the same, rebalanced, or another profile. `fresh` says whether the
current recommendation is one that `requireFreshRecommendationState` accepts:
`PolicyChanges` ends that, a new recommendation (`ProfileChanges`) may restore it.
The recovery of a committed change (`RebuildRead`) gets no further while it is stale.

### PlanReviewRun

The `AgentRun` documents of one profile, their events, the provider calls made
(`spent`, a history variable), the mandates created for them, and the workers.
`Admit` is `admitPlanReviewRun` in its transaction: it supersedes what is stale,
answers with an active review of the same snapshot, or creates one. `Claim` is
`claimNextRun` (due, or with an expired lease, and an attempt left), `LoadContext`
to `AppendEvent` are the fenced writes of a run, `Reserve` and `Call` the durable
budget before the call to the provider, `Publish` the transaction that stores the
result while the snapshot is still current, `FailRun` the failure path with its
retry. `Recover` is the sweep for runs with no attempt left. `Decide`,
`CreateMandate`, `Bind` are the approval, whose mandate is created and bound to
the run in two calls; `MandateEnds`, `MandateExpires`, `SweepMandate` and
`SweepMark` bring the outcome of a mandate back to the run. The authorization handlers
write to the same stream of events: `NumberNote` takes the run's next number without
looking at its status, and `CreateNote` creates the event in a second write that may
never come. A number without its event is a member of `events` of type `TAKEN`. They
run beside the writes of the handlers, which go on whether or not they succeed, and
`MaxNotes` bounds them.

### The services

| Module | State | Actions and the code they translate |
|---|---|---|
| `ResearchTasks` | task documents; `activeLeases` of the capacity document; each worker's claim | `Acquire`, `Take`, `GiveBack`: the slot first, then the task, where each call may throw after it took effect; `Undo` returns a lease that was taken in vain; `RenewSlot`, `RenewTask`; `Save`; `Release`; `Cancel` and the release of slots that follows it; leases that run out, the task's before the slot's |
| `PlanHealthScan` | the lease of a period; per generation and user an inspection with its fence | `Claim`, `Inspect`, `Progress`, `Complete` and `Abort` of the holder; `Read`, `Publish`, `PublishRefused`, `Settle`, `Deadline` of an inspection, which goes on when its scan has given up waiting |
| `AdvisoryText` | text and metadata of one recommendation; the writers | `Load`, `ReadState`, `Claim`, `Generate`, `Persist`, `Respond`, `Fail` of POST /recommend/:id/advisory |
| `GoalEdits` | a goal, the state it is bound to with `promotionFence` | `Arrive`, `Plan`, `CheckFreshness`, `Recheck`, `Advise`, `Save`, `Delete`, then `Snapshot` and `Confirm` of the answer after the commit |
| `ChatSession` | the session document; turns; tokens really used | `Settle`, `Claim`, `Reserve`, `Call`, `Charge`, `Complete`, `Release`, `Renew`, `Close` of `chatSessionStore.js` and the chat service |
| `ProviderCircuit` | the adapter's circuit; permits | `Ask`, `Answered`, `Failed`, `Released` |
| `TaxEngine` | a taxpayer | `Tax`, `Crossover` as operators; the one action lets income rise |
| `CorpusGenerations` | revisions of documents, generations, the pointer; what editors have read | `Ingest`, `SoftDelete`, `HardDelete`, `UpdateMetadata`, each one transaction that publishes a generation; `Look` is the read before |
| `CorpusQueries` | a replica's index; its requests | `Clear` to `Verify` are `_reload_in_memory` read by read; `Note`, `Search`, `Keyword`, `Compare` the query of `pipeline.py` |

`Services` puts these side by side: its variable `part` chooses one service for
a whole behaviour and the others keep their initial state. It adds two instances
that need no run of their own: reviews admitted by two clients, and the document
store with two documents and two editors.

## 3. The runs

Times are with two TLC workers.

| Run | Bounds | What it shows |
|---|---|---|
| `mutation` | 2 requests, 2 payloads, lease 2, wait 1, skew 1, one client may hang up; or 3 requests from when the first is at work, the last with another payload; fair | one resource, written with the claim that names it; truthful success answers; refinement of `ExactlyOnce`; a fenced worker never commits; every request answered unless its server dies or finding 1 holds its key; the lock of a request whose client waits does not block the key for good |
| `mutation_hang_up` | the 2 requests | *violation*, finding 1 |
| `advisory` | 3 requests, 2 payloads, lease 2, wait 1, fair; update and generation | refinement; answered; locks given back; fencing |
| `advisory_completion_leak` | 2 requests, wait 3; completion | *violation*, finding 2 |
| `financial` | 2 requests of any kind, up to 4 changes, 2 attempts, 2 policies, fair | state graphs; audit chain; binding of the current profile; no committed change reported as corrupt; no stale commit; refinement of `FinancialLedger`; every request answered |
| `financial_torn_read` | 2 requests, symmetry | *violation*, finding 3 |
| `authorized` | 2 workers, 1 recovery, 1 crash or failed call, fair | refinement of `SingleUseMandate`; a final attempt means an executed mandate with its receipt; a worker that lost its generation writes nothing; a committed change is settled while the sweep may look for it and the recommendation is fresh |
| `authorized_unsettled` | 2 recoveries | *violation*, finding 4 |
| `plan_review_workers` | 1 review, 2 workers, 2 attempts, 1 provider call, 1 change, 1 mandate, 1 authorization event at a first attempt, fair | events numbered once and ending with the outcome; the budget of calls over all attempts; fencing; refinement of `ReviewLifecycle`; a review ends or waits for its user, and ends with its mandate |
| `services` | see below | types and the properties of the services |
| `advisory_text_shown` | 2 servers, 2 portfolios, 1 failure | *violation*, finding 5 |
| `corpus_threads` | 2 threads of a replica, 2 generations | *violation*, finding 6 |

`services` in detail:

| Part | Bounds | Property |
|---|---|---|
| research | 2 tasks, 2 workers, capacity 1, 1 trouble | `CapacityHolds`: the tasks that workers run under a live lease never exceed the capacity |
| scan | 2 replicas, 2 users, 2 claims, 2 revisions, 1 trouble | `CompletedMeansInspected`: a scan that says COMPLETED looked at every user, and none of its inspections failed |
| text | 2 servers, 2 portfolios, 1 trouble | `OneWrites`: one request at a time writes the text; `ClaimComesToAnEnd`: every failing path of a server that lives gives its claim back |
| goals | 2 requests of any kinds, 2 states, fence 3, 2 attempts | `NoLostEdit`: what a request was told is saved was saved over nothing it had not seen, and a plan is of the state it is stored with |
| chat | 2 turns, cap 5, 2 tokens a call, 1 trouble | `BudgetHolds`: what providers were really asked for stays within the cap |
| circuit | 3 calls, threshold 2 | `ProbeIsTheOneCall`: a circuit that is half open has one probe, and no older call closes or opens it |
| tax | incomes around every threshold, two amounts of deductions, 3 ages | `MoreIsKept`: a higher income never leaves less; `CrossoverIsLeast`: the break-even deduction is the least that makes the old regime better |
| store | 2 documents, 2 editors, 3 generations | `RemovedStaysRemoved`: only ingestion makes text active |
| corpus | 1 document, 1 editor, 1 request of the replica at a time, 3 generations, 1 failed call | `EvidenceIsOfItsGeneration` |
| review | 2 clients, 1 worker, 2 reviews, 1 change, 1 authorization event of a review, no mandates | `OneActiveReview`: two admissions never leave two active reviews; `EventsTellTheEnd`: whoever writes to a stream, each number is allocated once, only authorization events follow the terminal event, which names the status, and a review without one was ended by its user |

Why the bounds are enough. *Requests and workers:* the stories these protocols
must survive have an owner that stalls, a successor, and sometimes a third that
finds what they left; two suffice where a property is about one lock and its
owner. The third request matters where another payload meets a poller, as in
`mutation` and `advisory`. *Payloads:* two, to be equal or different. *Lease 2, skew 1:* a
lease that is running, that has expired on one clock only, and that has expired
on all. *Financial changes:* a writing request may arrive while fewer than
`MaxChanges` have committed, so up to `MaxChanges + requests - 1` commit:
completion, then an update, generation or rebalance, then the one that meets
them. *Attempts 2* instead of 3: the loop has a first, a last and a repeated
attempt. *One trouble:* each of these services repairs one fault at a time; a
second adds length, not a new state of the documents, except for the executor,
where `authorized_unsettled` takes two recoveries. *Generations 3:* created,
replaced, and what comes after a removal. *Authorization events 1:* its number is
taken before or after the end of the review and its event created in any later
moment; what two of them do to each other is in the theorem. `NotedAtFirstAttempt` of
`MCPlanReviewRun` keeps them to reviews that took one attempt: a number is allocated in
one write whatever the attempt, and the event is nobody else's. No fair action
is cut by it. *One request of a replica at a time,* in the part
`corpus`: other replicas publish between its steps; what threads of one replica do to
each other is only in `corpus_threads`. *Incomes:* the functions are linear
between thresholds, and the incomes lie on them, beside them and in the bands of
the marginal reliefs.

The theorems of section 5 say which of these hold whatever the bounds.

`CHECK_DEADLOCK FALSE` stands in the four runs whose system really stops within
its bounds: reviews, portfolios, generations and turns are used up and nobody
asks for more. In the other runs a client may always come again (or a view
arrive), and deadlock is checked.

## 4. Fairness

*Claim protocols.* Weak fairness of each request's own next step
(`ClaimStep \/ HandlerStep`) and of `Tick`. A Node event loop runs every pending
continuation, and time passes. Not assumed fair: arrivals, failures, hang-ups,
crashes, and the **heartbeat**, since a stalled event loop misses its timers; a
property that held only because heartbeats were regular would be worth nothing.

*FinancialState.* Weak fairness of the handler of each request. Transaction
conflicts cannot starve a request in the model because every conflict is caused
by another commit and commits are bounded by `MaxChanges`; the code bounds them
by the 120 s limit of `withTransaction`, which the model's `TransactionFails`
stands for.

*AuthorizedExecution.* Weak fairness of a worker that has begun (`Continue`), of
time (`LeaseExpires`, `TimePasses`, `ExpireMandate`), and strong fairness of
`Sweep`: its timer of 30 s is independent of the requests, and it finds an attempt
again and again as long as nothing else takes it.

*PlanReviewRun.* Weak fairness of a worker's steps, of leases and retry times, of
the recovery sweep; strong fairness of `Claim` and `SweepMandate`, which are
polled by timers while others may take the run or the mandate away in between.

*AdvisoryText.* Weak fairness of `Serve`, the steps of a server that lives.

No fairness is assumed in the other services; their properties are safety.

## 5. The proofs

All proofs are for arbitrary constants: any set of requests, any payloads, lease,
wait and skew; any number of attempts, changes and policies; any number of
documents, editors and generations; any executors, crashes and failed calls; any
clients, workers, reviews, mandates and budgets of calls; any servers, tasks,
users, turns, thresholds and incomes. They use only the named assumptions
(`LeaseAssumption`, `NoneAssumption`, `WaitAssumption`, `ImpatientAssumption`,
`AttemptsAssumption`, `BoundAssumption`, ...), which TLC evaluates in the runs; the
theorems of `CorpusProofs` state theirs. Those of `Services` say that bounds, incomes
and deductions are natural numbers, that there are a server and a document, and that `None` and
`Gone`, the null of the code and the id of a process that died, are no server, no
request, no task and no number.

### MutationIdempotencyProofs

`Inductive` is `TypeOK`, the two safety properties, and two facts that make them
inductive: `PlaceIsKept` (what the place of a request says of it: it has created
nothing while it still works, and has an answer only once it is over) and
`ClaimIsBound` (a lock carries the payload of its owner, and what a poller has
read as DONE is still the document, because DONE is final). Without the second a
poller could answer from a document that is gone; without the first a request
could be answered twice.

* `TypeCorrect`, `AtMostOneResource`, `AnswersAreTrue`: the conjuncts.
* `FencedNeverCommits`: that a worker owns a claim in its handler is established
  once, when it claims; a fenced worker in `work` or `commit` never owns it
  again, because an owner token is written by `Create`, `Takeover` and the lost
  call of `ClaimCallFails` only, and these need a request that is still claiming.
* `ImplementsExactlyOnce`: each action maps to `Apply`, `Succeed`, `Refuse` or a
  stutter under `applied <- rec.resource`.

### AdvisoryIdempotencyProofs

The argument is the same, with three differences. An answer may also come from an
advisory found by its operation id, so `Inductive` ties the advisories to the DONE
claim and not to the answers alone. The worker does not look at a lost heartbeat:
`FencedAdvisoryNeverCommits` rests on the owner token in the filter of the
completion only (`CanCommit`), through `ShutOut`, a request that is past its claim,
has committed nothing and does not hold the key, which no step ends. And the
exactly-once refinement (`AdvisoryImplementsExactlyOnce`) maps the commit to
`Apply` although the answer may still fail, since a lost answer is given again by
the lookup.

* `AdvisoryTypeCorrect`, `AtMostOneAdvisory`: conjuncts of `Inductive`. The second
  is checked by TLC through the refinement, not as an invariant of its own.

Both hold with either value of `Completing`, the leak of finding 2 included: a
leaked claim keeps others from the key, and lets nothing act twice.

### CorpusProofs

* `RemovedIsNotRevived` rests on `Published`: the members of the pointer's
  generation are the active revisions. A deletion or a change of metadata only
  takes revisions that are active in its transaction, so no text becomes active but
  that of an ingestion, whose number is the new pointer.
* `RemovedForGood` follows: text that is not active although its generation was
  published is never active again, in the whole rest of the run.
* `CorpusTypeCorrect` needs `Numbered`: the versions of a document are counted by
  the publications, so that the next one is within the bound.
* `EvidenceIsBound`: `Sound` says what each thing a request has read is worth now.
  The revision was read before the generation, so if it is still the pointer when
  the load verifies it, the index is of that generation (`q.revision <=
  q.generation <= pointer`); what was searched is of the generation noted, as long
  as that is still the active one (`q.noted = p`), which `Compare` establishes
  last. `Grows` (generations that were published never change) makes all of it
  survive the changes of other replicas. The theorem assumes that the replica
  serves one request at a time; finding 6 is that two are enough to break it.

### AuthorizedExecutionProofs

`Inductive` is `TypeOK`, `Books` and what workers know. `Books` is what mandate,
attempt and receipt say of each other: an attempt that executes belongs to a mandate
that was taken, one that has committed to a change, a change to a mandate whose
challenge was consumed, a receipt to a change.
`Knows` is what a worker at a place may rely on without reading again: one that is
about to write a receipt or to complete the attempt has seen the change, and a
change is never undone. Neither depends on who wrote, so executor, recovery and
sweep need no order among themselves, and a worker that has lost its lease may
still hold true knowledge.

* `MandateTypeCorrect`, `FinalIsExecuted`, `ChangeIsApproved`: from `Inductive`.
* `FencedStaysOut`: a worker whose generation is not that of the attempt finds
  none of its filters true (`Mine`), and the writes that carry no generation
  (`TakeMandate`, `CreateReceipt`, `Finalize`) touch neither the attempt nor the
  finances.
* `ExecutionIsSingleUse`: `StepKinds` sorts all steps into five kinds (the standing
  of the mandate stays, is voided or taken; the finances change; a receipt is
  issued), and each kind is a step of `SingleUseMandate` or a stutter. That a change
  is made under a mandate already taken is in `Books`.

### PlanReviewProofs

Every step but an admission changes at most one run, and `Move` lists the ten
ways in which it can: touched, progressed, paid for a call, started, queued
again, put to wait, ended, closed, noted (a number is taken for an authorization event)
and filled in (the event is created). What holds of a run and its events is proved for
a move once (`MovesSound`), and each action is then shown to be one.

* `RunsSound` has the stream of events (`StreamIsTold`: as many events as numbers, a
  terminal one followed by authorization events only) and `OneActiveReview`. No move makes a run
  active, so only `Admit` could break the second, and it retires the stale ones in
  the transaction that creates the new one.
* `WorkersSound`: `GenerationsDiffer`, because a claim takes a generation above all
  that workers hold; and `Knows`, that as long as the run is RUNNING under its
  generation the attempt and the count of calls are the worker's own. Only the
  worker itself pays (`Pay`), hence the knowledge of the others outlives every move.
* `CallsReserved`: calls made, and those that workers are about to make
  (`Pending`), were all counted in the run. A call counted by a worker that died is
  never made and stays counted, so the budget can be undershot but not exceeded.
* `ReviewTypeCorrect`, `OneReviewIsActive`, `StreamTellsTheEnd`, `BudgetIsKept`
  follow; `FencedReviewerStaysOut` because each write asks `Holds`.
* `ReviewFollowsLifecycle`: each kind of move is a step of `ReviewLifecycle` or a
  stutter, and an admission is `Ask`, `Retire` or `Replace`, since by
  `OneActiveReview` it retires one review at most.

### FinancialStateProofs

The key lemma is `NothingLost`: if a transaction commits, each document it
changes is the same in its snapshot and in the database (or it is not changed).
With the fences, which make every transaction change the state document and the
chain head, this means that **what a commit computed from its snapshot is true of
the database**.

* `TypeCorrect` and `AuditChainUnbroken`: only `Commit` appends to the chain, and
  `CommitAudits` shows that it appends to the head that exists.
* `GraphsStaySound` strengthens the graph property with `Newest` (the revisions
  of a recommendation up to the pointer's are the only ones), `Owned` (a
  recommendation belongs to one profile's pointer) and `Bound` (`Consistent` is
  their conjunction). A graph of another profile is undisturbed because new
  documents have new numbers; the graph of the subject is rebuilt whole.
* `CurrentStaysBound`: from `Consistent`, since an update moves version and
  recommendation together and a generation binds to the version it checked.
* `NothingStaleCommits`: `Informed` says what a request's reads are worth later:
  versions and revisions only grow, equality of the revision means that
  nothing changed in between, and what `Accept` found in the snapshot still holds
  there at the commit. Of the policy the code promises less, since it is read before the
  writes: the theorem says that nothing commits that rests on an older policy than what
  is committed already. `Ordered` is why: policies only grow, a request was accepted
  under a policy no older than any recommendation in its snapshot, and `NothingLost`
  says that no recommendation came since.
* `AnswersVerify`: `Made` says what a request that has committed may rely on: its
  recommendation is stored, and the pointer of its profile is at it or at one of a
  later generation. Generations only grow under commits (`SubjectMoves`), so
  `Made` survives the commits of others (`MadeStays`), and `Reconcile` finds the
  pointer ahead of what it looks for, never behind or torn (`ReconcileAnswers`).
  `Accounts` adds that the answers of disorder were not given.
* `LedgerIsImplemented`: a `Book` is what `FinancialLedger` sees of a profile.
  A commit changes the one book of its subject (`CommitBooks`) the way its kind says
  (`CommitPosts`), which with `NothingStaleCommits` makes it one of the four serial
  operations on the current profile (`CommitIsEntered`); every other step stutters.
  The proof is about safety: the ledger has no fairness.

### ServicesProofs

A behaviour is of one part, which never changes (`PartStays`), so each service has
an inductive invariant of its own, preserved by its `Next` and by rest.

* `OneWriterOfText`: a request that asks the model or is about to store has the claim,
  with its token. A request that fails late gives back only a claim with its own token,
  and a new claim needs one that is not GENERATING.
* `OneProbe`: cardinality one is not inductive by itself. `Counting` says it call by
  call: a call whose permit still counts is of the breaker's present state, and
  while that is half open any two of them are the same call.
* `ChatBudgetHolds`: what was used so far says nothing of calls under way. `Owed`
  adds an upper bound for each of them, and is what the session must cover. `Owner`
  is what the turn that owns the session knows: between reservation and
  completion its own figures are those of the document, and an unsettled remainder
  is released only to the amount that it did not spend. A turn whose owner is gone,
  or was replaced, changes nothing any more.
* `NoEditIsLost`: `CopyOf`. A copy whose version is still the goal's agrees with it
  in all that this kind of edit does not compute, and its plan and advice are of the
  source that was held; the conditional save does the rest.
* `CapacityIsKept`: the tasks that are run are counted through the slots. `Placed`: a worker
  that runs a task under a live lease has the slot of its claim, with time left, because a
  slot is taken before and freed after, and its lease ends later; slots have different
  tasks and are at most `Capacity`. A late release frees only slots of older claims
  (`freeing`). Leases themselves are *not* bounded by the capacity: a claim whose update
  throws after it took effect gives its slot back while the lease lives on for its 30 s
  (`researchTaskStore.js:466-469`), so the theorem is about workers, as nobody runs that
  task.
* `CompletedIsInspected`: `Scanning` ties a scan to the lease: whoever has the
  generation of the lease has its cursor, and up to a cursor without failure
  everybody was inspected, in some generation. `Untouched` says that inspections
  ahead of every cursor have not begun; without it a late inspection of the same
  generation could count for another.
* `OneReview`, `StreamIsKept`, `EvidenceIsKept`, `NothingIsRevived` carry the theorems of
  `PlanReviewProofs` and `CorpusProofs` over: these modules are instantiated as the
  services are (`RP`, `CP`), the two instances are shown to have the same
  initial states and steps, and their lemmas about one step are cited. In
  `NothingIsRevived` the steps are those of the whole composition.
* `EarningPays` and `BisectionIsRight` carry over `TaxProofs` (`XP`), operator by
  operator.
* `ServicesTypeCorrect` puts the invariants of all parts together.

Where a record is changed within a function, the modules write `![w].cursor = @ + 1`,
or the new value outright, rather than an EXCEPT within an EXCEPT: in the latter
tlapm 1.4.5 takes an inner `@` for the outer one and cannot prove what is true.

### TaxProofs

The runs look at incomes around the thresholds. The theorems are about every income
and deduction that is a natural number of thousands, which `TaxAssumption` of
`Services` states.

* The loop over the slabs is unfolded once for each number of slabs there is
  (`ThreeSlabs`, `FourSlabs`, `SevenSlabs`: the function of the loop is chosen by its
  equation, so a witness must be given first), and its sum is 100 `Units`, which is
  linear between thresholds.
* `Left` is what rebate and section 87A leave. `UnitsGrow` (at most six units for
  each 1000 rupees) bounds it; the step of the old regime at 500 is the one exception.
* Above 50 lakh all slabs are passed and the tax is `Due`, the lesser of the full
  tax with surcharge and what the marginal relief allows; the relief is rounded up to
  a rupee, so the tax may be half a rupee less (`HighTax`). `DueGrows` compares it
  across all surcharges.
* `MoreTax` puts the three together; 50 lakh itself is the link between an income
  below and one above. `MoreIsKeptOfAStep` follows, as what is taxable grows with the
  income (`TaxableGrows`).
* `BetterGrows`: more deduction never makes the old regime dearer, from `MoreTax` and
  because the cess keeps the order (`TaxAmountGrows`). This is what the bisection of
  `analyzeTaxOptimization` relies on without saying so.
* `BisectIs`: the search is a recursive function of its two bounds. `Found` is what
  it must return; it satisfies the equation (`SearchExists`), and every function
  that does is `Found`, or there would be two bounds of least distance at which they
  differ (`SearchFinds`, by the well-foundedness of < on Nat). `CrossoverFound`
  adds the two cases without a search.

### What stays with TLC

* Liveness: `EveryRequestAnswered`, `PatientLockCanBeTaken`,
  `OrphanedLockCanBeTaken`, `SettledWhileRecoverable`, `ReviewComesToAnEnd`,
  `ClaimComesToAnEnd`. TLAPS has no reasoning with fairness and ENABLED.

All safety properties of the passing runs are stated by a theorem. No module
declares a RECURSIVE operator: the loops of `TaxEngine` are recursive functions.

## 6. What the runs found

1. **A client that hangs up leaves its claim locked** (`mutation_hang_up`,
   `middleware/idempotency.js:246`). Only `finish` stops the heartbeat and
   releases. A response whose client disconnected emits `close` only, so a failed
   mutation keeps renewing its lock until the process ends. The same leak is why
   `EveryRequestAnswered` excepts it: a heartbeat that outlives its request may
   renew the lock just before each takeover, and the claim loop of another request,
   which starts over after a missed takeover, then has no bound.
2. **A failed state capture leaks the claim of a completion**
   (`advisory_completion_leak`, `routes/profile.js:165`): it happens between the
   claim and the try block whose catch releases it. The run `advisory` shows the
   two other handlers free of it.
3. **A sound state reported as an integrity error** (`financial_torn_read`,
   `recommendationState.js:332`): pointer and newest revision are read without a
   session, and a rebalance commits in between.
4. **A committed change that never gets its receipt** (`authorized_unsettled`,
   `authorizedActionExecutor.js:159`): a recovery claims an attempt by what it read
   before the attempt committed, fails to take the mandate, and leaves it in a
   status the sweep does not look for.
5. **Text about the old portfolio shown as current** (`advisory_text_shown`,
   `routes/recommend.js:345`): a claim of the text binds the metadata to the new
   revision and leaves the old text in place.
6. **An index cleared under a query** (`corpus_threads`,
   `ml-service/rag/vector_store/mongo_vector_store.py:491`): threads of one replica
   reload a shared index that nothing locks, and an answer may name a generation
   and have none of its evidence.

None of them lets a key, a mandate or a review act twice. 1, 2 and 4 leave something
locked or unfinished, 3 answers 503 where a retry succeeds, 5 and 6 show a user
something that is not of the state it claims to be of.

Seen while modelling, without a run of its own. Two against what the tests say:

* the recovery of a committed execution rebuilds its answer first
  (`authorizedActionExecutor.js:248`), which throws while the user's recommendation is
  stale. Each sweep fails alike and counts no retry, and the mandate stays EXECUTING,
  although the check of the result reads only what was stored with it and
  `authorizedExecutionRecovery.test.js:117` says 'committed receipt recovery must not
  require current profile state'. `SettledWhileRecoverable` asks for a fresh
  recommendation because of this;
* a decision or a mandate ends a review without a terminal event
  (`planReviewApproval.js:82`, `98-145`), and authorization events take further numbers,
  while the evaluator's gate `durableEventSequence` (`productionEvaluator.js:188-207`)
  wants the event of the last number to name the status.

And where no document promises otherwise:

* after a release, the waiting request of the advisory protocol answers "in
  progress" where the mutation protocol starts over (`idempotency.js:462`);
* of two first completions that race, one is told to migrate its account and
  succeeds when retried (`currentFinancialProfile.js:91-107`);
* a `generate` in flight may supersede a rebalance committed after its capture,
  because a rebalance does not raise the state's `revision`; the rebalance stays
  in the audit chain;
* `promotionFence` of a goal's source is compared for equality, so two saves, or
  a save and a publication of Plan Health, that overlap make one of them fail with
  409 though neither changes what the other depends on;
* the table `MANDATE_TRANSITIONS` (`authorizationConstants.js:20-30`) lacks
  AUTHORIZED to FAILED, AUTHORIZED to EXECUTED, and DRAFT or PENDING to REVOKED,
  which the code writes with its own filters; `PLAN_REVIEW_TRANSITIONS` lacks
  RUNNING to QUEUED and WAITING to FAILED;
* an admission whose snapshot is old can supersede a newer review; a mandate that
  ends before it is bound is marked BINDING_MISMATCH, and a bind that comes later
  leaves the review waiting;
* a chat reservation whose answer is lost keeps its tokens until a later lease
  expires or the session closes;
* `claimedAt` of the advisory text is written and never read: the claim of a
  server that died stays GENERATING until the portfolio changes. `ClaimComesToAnEnd`
  excepts this crash, since nothing says that it is handled;
* a research task whose claim failed after it took effect keeps its lease without a
  slot until the lease ends, and another task may be run meanwhile.

## 7. Abstractions

*Everywhere.* A payload stands for its SHA-256 hash, an owner token for the
request that generated it, a resource for the request that created it. A call to
the database is one step, a transaction is its snapshot and one step for its
writes, and retries of the driver are explicit. A lease is the ticks that remain
on the slowest clock where clocks are modelled, and otherwise may run out at any
time after which the code lets it be taken.

*Claim protocols.* The answer of a commit may be lost. The mutation handler is
that of POST /goals/create, which POST /profile/build follows. Left out: the
compatibility of old update keys bound to method POST.

*FinancialState.* The version of a profile stands for its inputs, so comparisons of
`profileInputHash` and fingerprints add nothing to those of versions and ids. Of
the policies, the regulatory one changes, to a later one and for all servers at once;
the others are constants of a build. The
post-commit snapshot read is one step. `Initialise` merges the two existence
checks of a first completion with the upsert that follows. In
`POST /recommend/weights` the profile is read twice; the read the checks use is
the one modelled. A stale client is one that arrived earlier. Left out:
`LEGACY_AMBIGUOUS` and documents older than the pointers, drafts of
`POST /profile/build`, the cache, the supersession of Plan Health events in the
transaction. The `executionCommit` branch is `Commit` of `AuthorizedExecution`.

*AuthorizedExecution.* One mandate approved on one device; signatures and passkeys
are correct. A rebalance after the check of the source is not detected by the
binding of the commit to the revision, as in the code. That the policy cannot be read is
the same as that it changed. The sweep begins a worker
for this mandate whenever its filter finds it.

*PlanReviewRun.* The reviews of one profile. The nodes of the review graph between
two database calls are one step; checkpoints and token counts beside the call count are left out. An authorization event
is written to a review that was put to its user; which of the handlers writes it is not told
apart. `cancellationRequested` is written together
with CANCELLED only. The limits on admission cannot be reached with one profile.

*GoalEdits.* One goal; the arithmetic of a plan is the state it was computed from.
Two attempts stand for the three of the code, and two rechecks that follow each
other without a write are one.

*ResearchTasks.* The content of a task, semantic deduplication, and the revision
that makes a claim or a save read the task again are left out.

*PlanHealthScan.* The statuses and the deduplication of events, malformed rows,
and checks that an edit triggers outside a scan are left out.

*AdvisoryText.* The explanation is the portfolio it was generated from. Text and
metadata are written in one update (`Persist`), but a claim writes the metadata alone.

*ChatSession.* One session; messages, their limit and the hourly rate are left
out. What providers were asked for is a history variable.

*ProviderCircuit.* One adapter; the time-out of an open circuit may pass whenever
it is open.

*TaxEngine.* Whole thousands of rupees. Family pension, HRA, 80D, 80TTA, 80TTB,
80EEA, home loans, employer NPS, capital gains and floating point are left out.

*CorpusGenerations and CorpusQueries.* Identities and digests of content are equal
exactly when the content is; a document has one scope. The dense search is one
read of the index. Left out: the response cache, ranking, the store on a local
disk.

## 8. Not modelled

| Part | Why |
|---|---|
| MCP capacity (`mcp/mcpCapacity.js`) | every step is one Lua script, which Redis runs atomically; a model would restate the scripts |
| Profile candidate and its Redis lease | a cache: a lease that runs out costs a second computation, and the consumed marker and the unique index are single calls |
| Market data refresh | two refreshes at once write the same observations twice, which unique keys absorb |
| Agent evolution, reliability, evaluation | offline pipelines run by an operator |
| ML model registry and serving | every change is one transaction that compares version and activation generation, with the gate, baseline id and generation checked again in it; a model with these transactions as steps would only restate its filters |
| Floating-point engines (portfolio, projection, Monte Carlo, health, XIRR) | TLC has no floating point, and a model in whole numbers would not be faithful to rounding |
| Circuit of the language model in the ML service | the same three states as the provider circuit, in one process under a lock |
| Local-disk document store | one process under a lock; its hazard is in a failed save (below) |
| Web client | presentation of what the modelled handlers answer, with races of its own (below) |
| Authentication, sessions, rate limits, operations | filters around the modelled handlers; they change none of the modelled state |
| Deployment | configuration, no behaviour of its own |

Noticed in these parts while reading, and not checked by any run: after a
promotion, the TreeSHAP explainer and the confidence threshold
(`ml-service/main.py:100`, `382-397`) stay those of the model loaded at start; a
VALIDATED candidate whose baseline has changed can never be activated or validated
again; in the local-disk store, a deletion repeated after a failed save is
acknowledged without saving (`memory_vector_store.py:307-335`,
`manager.py:139-143`, `189-205`); in the web client, the answer of a PUT that
arrives late may replace a newer profile.

## 9. The plan

Done: the claim protocols, the financial state, authorized execution, plan
reviews, the services of section 2, abstract specifications of all but the
services, and the proofs of section 5, which cover every safety property of the
passing runs.

Next, in this order:

1. The composition of `GoalEdits` with `FinancialState` itself in place of a
   counter.
2. Abstract specifications of research tasks and chat sessions, which
   `ResearchInv` and `ChatInv` are nearly strong enough to show implemented.
