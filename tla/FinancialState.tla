--------------------------- MODULE FinancialState ---------------------------
(***************************************************************************)
(* The financial state of one user: the pointer to the current profile,    *)
(* the profiles, their recommendations and allocation revisions, and the   *)
(* audit chain, changed by concurrent requests.                            *)
(*                                                                         *)
(* Models persistAdvisoryAtomically (POST /profile/complete, PUT           *)
(* /profile/:id, POST /recommend), createManualAllocationRevision (POST    *)
(* /recommend/weights), the reads of GET /recommend/current and the        *)
(* post-commit reconciliation of server/services/advisoryResponse.js.      *)
(*                                                                         *)
(* A request first reads documents one by one, outside any transaction.    *)
(* Its transaction then works on a snapshot of the database: it is refused *)
(* by what the snapshot says and by the regulatory policy in force at that *)
(* moment.  Its writes follow, and it is started again when a document it  *)
(* overwrites has changed since the snapshot was taken.  The policy is not *)
(* looked at again: it may change before the commit.                       *)
(*                                                                         *)
(* Documents are numbered in the order they are created; the number stands *)
(* for the ObjectId.  The inputs of a profile are identified by its        *)
(* version, an allocation by its revision document, an audit record's hash *)
(* by its number: the content hashes the code compares on top of these     *)
(* tell no more states apart.                                              *)
(***************************************************************************)
EXTENDS Naturals, Sequences, FiniteSets

CONSTANTS
  Worker,      \* concurrent requests of the user
  Attempts,    \* POST_COMMIT_RECONCILIATION_ATTEMPTS
  MaxChanges,  \* bound: of the committed changes and the policy together, when a writing request arrives
  MaxPolicy    \* bound: the regulatory policy is version 1 .. MaxPolicy

ASSUME AttemptsAssumption == Attempts \in Nat \ {0}
ASSUME BoundAssumption == MaxChanges \in Nat /\ MaxPolicy \in Nat \ {0}

VARIABLES
  db,      \* the committed documents of the user
  policy,  \* getCurrentRegulatoryRuleVersion()
  pc,      \* where each request is
  job,     \* what each request knows
  snap     \* the snapshot of each request's transaction

vars == <<db, policy, pc, job, snap>>

Kind == {"complete", "update", "generate", "rebalance", "view"}
Reading == {"state", "initialise", "profile", "pointer", "latest"}
Place == {"idle", "compute", "begin", "txn", "write", "preflight", "preflight_profile", "reconcile"} \cup Reading

-----------------------------------------------------------------------------
(* The documents *)

NoState == [status |-> "ABSENT", current |-> 0, revision |-> 0, fence |-> 0]
NoDocs ==
  [state |-> NoState, profile |-> <<>>, pointer |-> <<>>, rec |-> <<>>, alloc |-> <<>>,
   audit |-> <<>>, head |-> [sequence |-> 0, last |-> 0]]

StateDoc   == [status : {"ABSENT", "NO_CURRENT", "CURRENT"}, current : Nat, revision : Nat, fence : Nat]
ProfileDoc == [version : Nat, fence : Nat]
PointerDoc == [rec : Nat, alloc : Nat, revision : Nat, generation : Nat, version : Nat]
RecDoc     == [profile : Nat, version : Nat, generation : Nat, policy : Nat]
AllocDoc   == [rec : Nat, revision : Nat, previous : Nat, version : Nat, audit : Nat]
AuditDoc   == [sequence : Nat, previous : Nat, rec : Nat, alloc : Nat]

Docs ==
  [state : StateDoc, profile : Seq(ProfileDoc), pointer : Seq(PointerDoc), rec : Seq(RecDoc),
   alloc : Seq(AllocDoc), audit : Seq(AuditDoc), head : [sequence : Nat, last : Nat]]

\* The revisions of recommendation r, and the newest of them.
Revisions(d, r) == {a \in DOMAIN d.alloc : d.alloc[a].rec = r}
Latest(d, r) == CHOOSE a \in Revisions(d, r) :
  \A b \in Revisions(d, r) : d.alloc[b].revision <= d.alloc[a].revision

\* verifyAllocationAuditBinding: a rebalanced revision follows the one it names, and its audit record says so.
AuditBinds(d, a) ==
  LET rev == d.alloc[a] IN
  rev.audit # 0 =>
    /\ rev.previous \in DOMAIN d.alloc /\ rev.audit \in DOMAIN d.audit
    /\ d.alloc[rev.previous].rec = rev.rec
    /\ rev.revision = d.alloc[rev.previous].revision + 1
    /\ d.audit[rev.audit].rec = rev.rec /\ d.audit[rev.audit].alloc = a

\* verifyPersistedStateGraph for the pointer of profile p.
GraphSound(d, p) ==
  LET ptr == d.pointer[p] IN
  /\ ptr.rec \in DOMAIN d.rec /\ ptr.alloc \in DOMAIN d.alloc
  /\ d.rec[ptr.rec].profile = p
  /\ d.alloc[ptr.alloc].rec = ptr.rec
  /\ d.alloc[ptr.alloc].revision = ptr.revision
  /\ Latest(d, ptr.rec) = ptr.alloc
  /\ ptr.version = d.rec[ptr.rec].version
  /\ d.alloc[ptr.alloc].version = ptr.version
  /\ ptr.generation = d.rec[ptr.rec].generation
  /\ AuditBinds(d, ptr.alloc)

\* assessRecommendationFreshness: the recommendation is bound to the profile's version and to the policy.
Fresh(d, r, version) == d.rec[r].version = version /\ d.rec[r].policy = policy

-----------------------------------------------------------------------------
(* The requests *)

NoPointer == [rec |-> 0, alloc |-> 0, revision |-> 0, generation |-> 0, version |-> 0]
NoProfile == [version |-> 0, fence |-> 0]
NoChange  == [profile |-> 0, rec |-> 0, alloc |-> 0]
NoJob ==
  [kind |-> "view", target |-> 0, expected |-> 0, shown |-> NoPointer,
   state |-> NoState, profile |-> NoProfile, pointer |-> NoPointer, policy |-> 0,
   made |-> NoChange, tries |-> 0, answer |-> "none"]

Answer ==
  {"none", "done", "superseded", "shown", "conflict", "stale", "integrity", "migrate", "unavailable",
   "unverified", "broken", "order_invalid", "crashed"}

\* What the client sent (target, expected version, the pointer it was shown), what was read
\* (state, profile, pointer), the policy computed under, the change committed, the answer.
Job ==
  [kind : Kind, target : Nat, expected : Nat, shown : PointerDoc,
   state : StateDoc, profile : ProfileDoc, pointer : PointerDoc, policy : 0 .. MaxPolicy,
   made : [profile : Nat, rec : Nat, alloc : Nat], tries : 0 .. Attempts, answer : Answer]

TypeOK ==
  /\ db \in Docs
  /\ policy \in 1 .. MaxPolicy
  /\ pc \in [Worker -> Place]
  /\ job \in [Worker -> Job]
  /\ snap \in [Worker -> Docs]

Init ==
  /\ db = NoDocs
  /\ policy = 1
  /\ pc = [w \in Worker |-> "idle"]
  /\ job = [w \in Worker |-> NoJob]
  /\ snap = [w \in Worker |-> NoDocs]

Goto(w, place) == pc' = [pc EXCEPT ![w] = place]

\* Only the kind and the answer of a request outlive it.
Reply(w, answer) ==
  /\ Goto(w, "idle")
  /\ job' = [job EXCEPT ![w] = [NoJob EXCEPT !.kind = job[w].kind, !.answer = answer]]
  /\ snap' = [snap EXCEPT ![w] = NoDocs]
  /\ UNCHANGED <<db, policy>>

\* A client sends what it was shown last: a stale client is one that arrived earlier.
Arrive(w, k) ==
  /\ pc[w] = "idle"
  /\ k # "view" => Len(db.audit) + policy <= MaxChanges
  /\ IF k = "complete"
     THEN job' = [job EXCEPT ![w] = [NoJob EXCEPT !.kind = k]]
     ELSE LET p == db.state.current IN
          /\ p # 0
          /\ job' = [job EXCEPT ![w] =
               [NoJob EXCEPT !.kind = k, !.target = p, !.expected = db.profile[p].version,
                             !.shown = db.pointer[p]]]
  /\ Goto(w, "state")
  /\ UNCHANGED <<db, policy, snap>>

\* captureProfileStateForCompletion finds the user's state document.
CaptureState(w) ==
  /\ pc[w] = "state" /\ job[w].kind = "complete"
  /\ IF db.state.status = "ABSENT"
     THEN Goto(w, "initialise") /\ UNCHANGED job
     ELSE Goto(w, "compute") /\ job' = [job EXCEPT ![w].state = db.state]
  /\ UNCHANGED <<db, policy, snap>>

\* It found none: the document is created, unless a profile was completed before.
Initialise(w) ==
  /\ pc[w] = "initialise" /\ db.profile = <<>>
  /\ db' = [db EXCEPT !.state = IF @.status = "ABSENT" THEN [@ EXCEPT !.status = "NO_CURRENT"] ELSE @]
  /\ job' = [job EXCEPT ![w].state = db'.state]
  /\ Goto(w, "compute")
  /\ UNCHANGED <<policy, snap>>

InitialiseRefused(w) ==
  /\ pc[w] = "initialise" /\ db.profile # <<>>
  /\ Reply(w, "migrate")

\* The other requests read the state, then the profile it names.
ReadState(w) ==
  /\ pc[w] = "state" /\ job[w].kind # "complete"
  /\ db.state.current = job[w].target
  /\ job' = [job EXCEPT ![w].state = db.state]
  /\ Goto(w, "profile")
  /\ UNCHANGED <<db, policy, snap>>

ReadOtherProfile(w) ==
  /\ pc[w] = "state" /\ job[w].kind # "complete"
  /\ db.state.current # job[w].target
  /\ Reply(w, "conflict")

ReadProfile(w) ==
  LET found == db.profile[job[w].target] IN
  /\ pc[w] = "profile"
  /\ job[w].kind = "update" => found.version = job[w].expected
  /\ job' = [job EXCEPT ![w].profile = found]
  /\ Goto(w, IF job[w].kind \in {"rebalance", "view"} THEN "pointer" ELSE "compute")
  /\ UNCHANGED <<db, policy, snap>>

ReadNewerProfile(w) ==
  /\ pc[w] = "profile" /\ job[w].kind = "update"
  /\ db.profile[job[w].target].version # job[w].expected
  /\ Reply(w, "conflict")

\* A rebalance and a view read the pointer, and then the revisions, without a session.
ReadPointer(w) ==
  /\ pc[w] = "pointer"
  /\ job' = [job EXCEPT ![w].pointer = db.pointer[job[w].target]]
  /\ Goto(w, "latest")
  /\ UNCHANGED <<db, policy, snap>>

\* The graph the request put together from its reads.
AsRead(w) == [db EXCEPT !.pointer[job[w].target] = job[w].pointer]
Verdict(w) ==
  IF ~GraphSound(AsRead(w), job[w].target) THEN "integrity"
  ELSE IF ~Fresh(db, job[w].pointer.rec, job[w].profile.version) THEN "stale"
  ELSE IF job[w].kind = "view" THEN "shown"
  ELSE IF job[w].pointer.rec # job[w].shown.rec THEN "conflict"
  ELSE "current"

ReadLatest(w) ==
  /\ pc[w] = "latest" /\ Verdict(w) = "current"
  /\ Goto(w, "begin")
  /\ UNCHANGED <<db, policy, job, snap>>

AnswerFromReads(w) ==
  /\ pc[w] = "latest" /\ Verdict(w) # "current"
  /\ Reply(w, Verdict(w))

\* computeCoreRecommendation: long, and bound to the policy it ran under.
Compute(w) ==
  /\ pc[w] = "compute"
  /\ job' = [job EXCEPT ![w].policy = policy]
  /\ Goto(w, "begin")
  /\ UNCHANGED <<db, policy, snap>>

ComputeFails(w) == pc[w] = "compute" /\ Reply(w, "unavailable")

-----------------------------------------------------------------------------
(* The transactions *)

Begin(w) ==
  /\ pc[w] = "begin"
  /\ snap' = [snap EXCEPT ![w] = db]
  /\ Goto(w, "txn")
  /\ UNCHANGED <<db, policy, job>>

\* What persistAdvisoryAtomically finds in its snapshot.
AdvisoryHolds(w) ==
  LET s == snap[w]  j == job[w]  IN
  /\ s.state.revision = j.state.revision /\ s.state.current = j.state.current
  /\ j.kind # "complete" => s.profile[j.target].version = j.profile.version
  /\ j.kind = "update" => s.profile[j.target].fence = j.profile.fence

\* Mutant of RebalanceHolds: what the client was shown is not compared.
RebalanceAnyRevision(w) ==
  LET s == snap[w]  j == job[w]  ptr == s.pointer[j.target]  IN
  /\ s.state.current = j.target
  /\ ptr.rec = j.shown.rec
  /\ GraphSound(s, j.target)

\* What createManualAllocationRevision finds in its snapshot.
RebalanceHolds(w) ==
  LET s == snap[w]  j == job[w]  ptr == s.pointer[j.target]  IN
  /\ s.state.current = j.target
  /\ ptr.rec = j.shown.rec
  /\ GraphSound(s, j.target)
  /\ ptr.alloc = j.shown.alloc /\ ptr.revision = j.shown.revision

Holds(w) == IF job[w].kind = "rebalance" THEN RebalanceHolds(w) ELSE AdvisoryHolds(w)

\* Mutant of InForce: a computed recommendation is not compared with the policy again.
InForceWhenComputed(w) ==
  LET s == snap[w]  j == job[w]  IN
  j.kind = "rebalance" => Fresh(s, s.pointer[j.target].rec, s.profile[j.target].version)

\* The comparison with getCurrentRegulatoryRuleVersion, and of a rebalance's profile version.
InForce(w) ==
  LET s == snap[w]  j == job[w]  IN
  IF j.kind = "rebalance" THEN Fresh(s, s.pointer[j.target].rec, s.profile[j.target].version)
  ELSE policy = j.policy

\* The documents a transaction overwrites, computed from its snapshot.
Subject(w) == IF job[w].kind = "complete" THEN Len(db.profile) + 1 ELSE job[w].target

\* Mutant of NewState: a completed profile only becomes current when there was none.
NewStateKept(w) ==
  LET s == snap[w].state IN
  IF job[w].kind = "update" \/ (job[w].kind = "complete" /\ s.current = 0)
  THEN [status |-> "CURRENT", current |-> Subject(w), revision |-> s.revision + 1, fence |-> s.fence + 1]
  ELSE [s EXCEPT !.fence = @ + 1]

NewState(w) ==
  LET s == snap[w].state IN
  IF job[w].kind \in {"complete", "update"}
  THEN [status |-> "CURRENT", current |-> Subject(w), revision |-> s.revision + 1, fence |-> s.fence + 1]
  ELSE [s EXCEPT !.fence = @ + 1]

\* Mutant of NewProfile: a fence is taken by raising the version.
NewProfileVersioned(w) ==
  LET p == snap[w].profile[job[w].target] IN
  CASE job[w].kind = "complete" -> [version |-> 1, fence |-> 0]
    [] OTHER                    -> [version |-> p.version + 1, fence |-> p.fence + 1]

NewProfile(w) ==
  LET p == snap[w].profile[job[w].target] IN
  CASE job[w].kind = "complete" -> [version |-> 1, fence |-> 0]
    [] job[w].kind = "update"   -> [version |-> p.version + 1, fence |-> p.fence + 1]
    [] OTHER                    -> [p EXCEPT !.fence = @ + 1]

\* The profile version a recommendation was computed for, or an allocation is bound to.
BoundVersion(w) ==
  CASE job[w].kind = "complete"  -> 1
    [] job[w].kind = "update"    -> job[w].profile.version + 1
    [] job[w].kind = "generate"  -> job[w].profile.version
    [] job[w].kind = "rebalance" -> snap[w].profile[job[w].target].version

NewHead(w) == [sequence |-> snap[w].head.sequence + 1, last |-> Len(db.audit) + 1]

\* existingState; a profile that is being created has none.
OldPointer(w) == IF job[w].kind = "complete" THEN NoPointer ELSE snap[w].pointer[job[w].target]

\* Mutant of NewPointer: a rebalance moves the revision number but not the revision id.
NewPointerHalfMoved(w) ==
  LET kept == job[w].kind = "rebalance"  old == OldPointer(w)  IN
  [rec        |-> IF kept THEN old.rec ELSE Len(db.rec) + 1,
   alloc      |-> IF kept THEN old.alloc ELSE Len(db.alloc) + 1,
   revision   |-> IF kept THEN old.revision + 1 ELSE 1,
   generation |-> IF kept THEN old.generation ELSE old.generation + 1,
   version    |-> BoundVersion(w)]

\* Mutant of NewPointer: the generation starts again with every recommendation.
NewPointerFirstGeneration(w) ==
  LET kept == job[w].kind = "rebalance"  old == OldPointer(w)  IN
  [rec        |-> IF kept THEN old.rec ELSE Len(db.rec) + 1,
   alloc      |-> Len(db.alloc) + 1,
   revision   |-> IF kept THEN old.revision + 1 ELSE 1,
   generation |-> IF kept THEN old.generation ELSE 1,
   version    |-> BoundVersion(w)]

NewPointer(w) ==
  LET kept == job[w].kind = "rebalance"  old == OldPointer(w)  IN
  [rec        |-> IF kept THEN old.rec ELSE Len(db.rec) + 1,
   alloc      |-> Len(db.alloc) + 1,
   revision   |-> IF kept THEN old.revision + 1 ELSE 1,
   generation |-> IF kept THEN old.generation ELSE old.generation + 1,
   version    |-> BoundVersion(w)]

\* The documents it inserts.
NewRecs(w) ==
  IF job[w].kind = "rebalance" THEN <<>>
  ELSE <<[profile |-> Subject(w), version |-> BoundVersion(w),
          generation |-> NewPointer(w).generation, policy |-> job[w].policy]>>

NewAlloc(w) ==
  LET kept == job[w].kind = "rebalance" IN
  [rec |-> NewPointer(w).rec, revision |-> NewPointer(w).revision, version |-> BoundVersion(w),
   previous |-> IF kept THEN OldPointer(w).alloc ELSE 0,
   audit |-> IF kept THEN Len(db.audit) + 1 ELSE 0]

NewAudit(w) ==
  [sequence |-> snap[w].head.sequence + 1, previous |-> snap[w].head.last,
   rec |-> NewPointer(w).rec, alloc |-> Len(db.alloc) + 1]

\* Mutant of Lost: the writes run outside the snapshot transaction.
LostUnnoticed(old, new, now) == FALSE

\* A write of the same value is no write: the fences are there to make it one.
Lost(old, new, now) == new # old /\ now # old
Conflicts(w) ==
  LET s == snap[w]  p == job[w].target  IN
  \/ Lost(s.state, NewState(w), db.state)
  \/ Lost(s.head, NewHead(w), db.head)
  \/ /\ job[w].kind # "complete"
     /\ \/ Lost(s.profile[p], NewProfile(w), db.profile[p])
        \/ Lost(s.pointer[p], NewPointer(w), db.pointer[p])

Put(docs, p, doc) == IF p \in DOMAIN docs THEN [docs EXCEPT ![p] = doc] ELSE Append(docs, doc)

Refused(w) ==
  /\ pc[w] = "txn" /\ ~(Holds(w) /\ InForce(w))
  /\ Reply(w, "conflict")

Accept(w) ==
  /\ pc[w] = "txn" /\ Holds(w) /\ InForce(w)
  /\ Goto(w, "write")
  /\ UNCHANGED <<db, policy, job, snap>>

Retry(w) ==
  /\ pc[w] = "write" /\ Conflicts(w)
  /\ snap' = [snap EXCEPT ![w] = NoDocs]
  /\ Goto(w, "begin")
  /\ UNCHANGED <<db, policy, job>>

\* The writes and the commit: the other requests see them at once.
Commit(w) ==
  /\ pc[w] = "write" /\ ~Conflicts(w)
  /\ db' =
       [state   |-> NewState(w),
        profile |-> Put(db.profile, Subject(w), NewProfile(w)),
        pointer |-> Put(db.pointer, Subject(w), NewPointer(w)),
        rec     |-> db.rec \o NewRecs(w),
        alloc   |-> Append(db.alloc, NewAlloc(w)),
        audit   |-> Append(db.audit, NewAudit(w)),
        head    |-> NewHead(w)]
  /\ job' = [job EXCEPT ![w].tries = 1,
        ![w].made = [profile |-> Subject(w), rec |-> NewPointer(w).rec, alloc |-> NewPointer(w).alloc]]
  /\ snap' = [snap EXCEPT ![w] = NoDocs]
  /\ Goto(w, "preflight")
  /\ UNCHANGED policy

\* The transaction fails for good before it commits.
TransactionFails(w) == pc[w] \in {"txn", "write"} /\ Reply(w, "unavailable")

-----------------------------------------------------------------------------
(* The response of a committed change *)

Preflight(w) ==
  /\ pc[w] = "preflight"
  /\ job' = [job EXCEPT ![w].state = db.state]
  /\ Goto(w, "preflight_profile")
  /\ UNCHANGED <<db, policy, snap>>

PreflightProfile(w) ==
  /\ pc[w] = "preflight_profile"
  /\ job' = [job EXCEPT ![w].profile = db.profile[job[w].state.current]]
  /\ Goto(w, "reconcile")
  /\ UNCHANGED <<db, policy, snap>>

\* sameCurrentProfileState between the preflight reads and the snapshot.
Unmoved(w) ==
  /\ db.state = job[w].state
  /\ db.profile[db.state.current].version = job[w].profile.version

\* Mutant of PreflightAgain: the state is read once, before the loop over the attempts.
PreflightSameState(w) ==
  /\ pc[w] = "reconcile" /\ ~Unmoved(w) /\ job[w].tries < Attempts
  /\ Goto(w, "preflight_profile")
  /\ UNCHANGED <<db, policy, job, snap>>

PreflightAgain(w) ==
  /\ pc[w] = "reconcile" /\ ~Unmoved(w) /\ job[w].tries < Attempts
  /\ job' = [job EXCEPT ![w].tries = @ + 1]
  /\ Goto(w, "preflight")
  /\ UNCHANGED <<db, policy, snap>>

GiveUp(w) ==
  /\ pc[w] = "reconcile" /\ ~Unmoved(w) /\ job[w].tries = Attempts
  /\ Reply(w, "unverified")

\* The generation check of buildPostCommitAdvisoryResponse and buildPostCommitProfileResponse.
OrderValid(w) ==
  LET made == job[w].made  now == db.pointer[db.state.current].rec  IN
  \/ job[w].kind = "rebalance"
  \/ db.state.current # made.profile
  \/ now = made.rec
  \/ db.rec[now].generation > db.rec[made.rec].generation

StillCurrent(w) ==
  LET made == job[w].made  now == db.pointer[db.state.current]  IN
  /\ now.rec = made.rec
  /\ job[w].kind = "rebalance" => now.alloc = made.alloc

Reconcile(w) ==
  LET p == db.state.current IN
  /\ pc[w] = "reconcile" /\ Unmoved(w)
  /\ Reply(w, IF ~GraphSound(db, p) THEN "broken"
              ELSE IF ~Fresh(db, db.pointer[p].rec, db.profile[p].version) THEN "unverified"
              ELSE IF ~OrderValid(w) THEN "order_invalid"
              ELSE IF StillCurrent(w) THEN "done" ELSE "superseded")

-----------------------------------------------------------------------------
\* The server that handles the request dies.
Crash(w) == pc[w] # "idle" /\ Reply(w, "crashed")

\* A new regulatory policy comes into force.
PolicyChange ==
  /\ policy < MaxPolicy /\ Len(db.audit) + policy < MaxChanges
  /\ policy' = policy + 1
  /\ UNCHANGED <<db, pc, job, snap>>

Handle(w) ==
  \/ CaptureState(w) \/ Initialise(w) \/ InitialiseRefused(w)
  \/ ReadState(w) \/ ReadOtherProfile(w) \/ ReadProfile(w) \/ ReadNewerProfile(w)
  \/ ReadPointer(w) \/ ReadLatest(w) \/ AnswerFromReads(w)
  \/ Compute(w) \/ Begin(w) \/ Refused(w) \/ Accept(w) \/ Retry(w) \/ Commit(w)
  \/ Preflight(w) \/ PreflightProfile(w) \/ PreflightAgain(w) \/ GiveUp(w) \/ Reconcile(w)

Next ==
  \/ \E w \in Worker :
       \/ \E k \in Kind : Arrive(w, k)
       \/ Handle(w)
       \/ ComputeFails(w) \/ TransactionFails(w) \/ Crash(w)
  \/ PolicyChange

Spec == Init /\ [][Next]_vars

\* The server runs the handlers it started; clients, failures and policies owe nothing.
FairSpec == Spec /\ \A w \in Worker : WF_vars(Handle(w))

-----------------------------------------------------------------------------
(* Properties *)

\* Every profile's pointer, recommendation, allocation revision and audit record
\* agree in every committed state: verifyPersistedStateGraph finds nothing.
GraphsAreSound == \A p \in DOMAIN db.pointer : GraphSound(db, p)

\* verifyAuditChain holds, and each allocation revision has exactly one audit
\* record, written by the transaction that created it.
AuditTrail ==
  /\ db.head = [sequence |-> Len(db.audit), last |-> Len(db.audit)]
  /\ Len(db.audit) = Len(db.alloc)
  /\ \A i \in DOMAIN db.audit :
       /\ db.audit[i].sequence = i /\ db.audit[i].previous = i - 1
       /\ db.audit[i].alloc = i /\ db.audit[i].rec = db.alloc[i].rec

\* A change that committed is never reported as corrupt or out of order, whatever
\* the other requests commit before its response is put together.
CommittedAnswersVerify == \A w \in Worker : job[w].answer \notin {"broken", "order_invalid"}

\* The current recommendation was computed from the current version of the
\* current profile, although the computation ran outside the transaction.
CurrentIsBound ==
  LET p == db.state.current IN
  p # 0 => /\ db.rec[db.pointer[p].rec].version = db.profile[p].version
           /\ db.pointer[p].version = db.profile[p].version

\* A request commits only against what its client and its computation saw: no
\* update is lost, and no rebalance lands on another allocation or on a profile
\* that was replaced.  The policy may change after the transaction looked at it,
\* yet nothing commits that rests on an older policy than what is committed already.
Committing(w) == pc[w] = "write" /\ pc'[w] = "preflight"
RestsOn(w) == IF job[w].kind = "rebalance" THEN db.rec[job[w].shown.rec].policy ELSE job[w].policy
SawCurrent(w) ==
  LET j == job[w]  p == db.state.current  IN
  /\ j.kind # "rebalance" => j.state.current = p /\ j.state.revision = db.state.revision
  /\ j.kind # "complete" => j.target = p
  /\ j.kind \in {"generate", "update"} => j.profile.version = db.profile[p].version
  /\ j.kind = "update" => j.expected = db.profile[p].version
  /\ j.kind = "rebalance" => j.shown.alloc = db.pointer[p].alloc
  /\ \A r \in DOMAIN db.rec : db.rec[r].policy <= RestsOn(w)
NoStaleCommit == [][\A w \in Worker : Committing(w) => SawCurrent(w)]_vars

\* Snapshot transactions with fences behave like the serial operations of the ledger.
Ledger == INSTANCE FinancialLedger WITH
  current <- db.state.current,
  books   <- [p \in DOMAIN db.profile |->
               [version |-> db.profile[p].version, generation |-> db.pointer[p].generation,
                revision |-> db.pointer[p].revision]],
  entries <- Len(db.audit)
ImplementsLedger == Ledger!LSpec

\* Every request is answered, however often its transaction conflicts and however
\* often the state moves under its reconciliation.
EveryRequestAnswered == \A w \in Worker : pc[w] # "idle" ~> pc[w] = "idle"

\* "The canonical allocation pointer does not reference the newest persisted revision."
\* is said of a graph only when it is so.
AccusedIsBroken == \A w \in Worker : job[w].answer = "integrity" => ~GraphsAreSound
=============================================================================
