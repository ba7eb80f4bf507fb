----------------------- MODULE FinancialStateProofs -----------------------
(***************************************************************************)
(* The types of FinancialState, that no transaction loses a write, that    *)
(* the state graph of a user is sound, and that nothing stale is           *)
(* committed: what a request read before its transaction and what its      *)
(* client was shown still hold when it commits, and it rests on no older   *)
(* policy than what is committed already.                                  *)
(* An answer names what is stored, and the commits implement the serial    *)
(* ledger.  All of it for every set of requests, every number of           *)
(* reconciliation attempts and every bound.                                *)
(***************************************************************************)
EXTENDS FinancialState, TLAPS

-----------------------------------------------------------------------------
(* Lemmas about the documents *)

\* A document put at an existing place replaces it, one put after the last is appended.
LEMMA PutSeq ==
  ASSUME NEW S, NEW q \in Seq(S), NEW d \in S, NEW p \in 1 .. Len(q) + 1
  PROVE  /\ Put(q, p, d) \in Seq(S)
         /\ Len(Put(q, p, d)) = IF p = Len(q) + 1 THEN Len(q) + 1 ELSE Len(q)
         /\ Put(q, p, d)[p] = d
         /\ \A k \in 1 .. Len(q) : k # p => Put(q, p, d)[k] = q[k]
<1>1. CASE p = Len(q) + 1
  BY <1>1 DEF Put
<1>2. CASE p # Len(q) + 1
  BY <1>2 DEF Put
<1>. QED
  BY <1>1, <1>2

\* The fields of the user's documents have their types.
LEMMA DocFields ==
  ASSUME NEW d \in Docs
  PROVE  /\ d.state \in StateDoc /\ d.profile \in Seq(ProfileDoc) /\ d.pointer \in Seq(PointerDoc)
         /\ d.rec \in Seq(RecDoc) /\ d.alloc \in Seq(AllocDoc) /\ d.audit \in Seq(AuditDoc)
         /\ d.head.sequence \in Nat /\ d.head.last \in Nat
         /\ d.state.current \in Nat /\ d.state.revision \in Nat /\ d.state.fence \in Nat
  BY DEF Docs, StateDoc

\* The empty database, and a request that knows nothing, have their types.
LEMMA Empties == NoDocs \in Docs /\ NoJob \in Job
<1>1. NoDocs \in Docs
  BY DEF NoDocs, NoState, Docs, StateDoc
<1>2. NoJob \in Job
  BY AttemptsAssumption, BoundAssumption
  DEF NoJob, NoState, NoProfile, NoPointer, NoChange, Job, Kind, Answer, StateDoc, ProfileDoc, PointerDoc
<1>. QED
  BY <1>1, <1>2

\* The fields of what a request knows have their types.
LEMMA JobTyped ==
  ASSUME NEW j \in Job
  PROVE  /\ j.kind \in Kind /\ j.target \in Nat /\ j.expected \in Nat /\ j.shown \in PointerDoc
         /\ j.state \in StateDoc /\ j.profile \in ProfileDoc /\ j.pointer \in PointerDoc
         /\ j.policy \in 0 .. MaxPolicy /\ j.tries \in 0 .. Attempts /\ j.answer \in Answer
  BY DEF Job

\* What a step may write into it leaves the type alone.
LEMMA JobWrites ==
  ASSUME NEW j \in Job
  PROVE  /\ \A s \in StateDoc : [j EXCEPT !.state = s] \in Job
         /\ \A s \in ProfileDoc : [j EXCEPT !.profile = s] \in Job
         /\ \A s \in PointerDoc : [j EXCEPT !.pointer = s] \in Job
         /\ \A n \in 0 .. MaxPolicy : [j EXCEPT !.policy = n] \in Job
         /\ \A n \in 0 .. Attempts : [j EXCEPT !.tries = n] \in Job
  BY DEF Job

\* What a commit writes into it leaves the type alone.
LEMMA JobCommits ==
  ASSUME NEW j \in Job, NEW n \in 0 .. Attempts, NEW m \in [profile : Nat, rec : Nat, alloc : Nat]
  PROVE  /\ [j EXCEPT !.tries = n, !.made = m] \in Job
         /\ [j EXCEPT !.tries = n, !.made = m].kind = j.kind
         /\ [j EXCEPT !.tries = n, !.made = m].target = j.target
  BY DEF Job

-----------------------------------------------------------------------------
(* Types *)

\* Every profile has its pointer, and one of them is current once there is one.
Linked(d) ==
  /\ Len(d.pointer) = Len(d.profile)
  /\ d.state.current \in 0 .. Len(d.profile)
  /\ d.state.current = 0 => Len(d.profile) = 0

Resolving == {"profile", "pointer", "latest"}
Writing   == {"compute", "begin", "txn", "write"}
Inside    == {"txn", "write"}
Replying  == {"preflight", "preflight_profile", "reconcile"}

\* The documents a request refers to exist, in the database and in its snapshot.
Situated(w) ==
  /\ pc[w] # "idle" /\ job[w].kind # "complete" => job[w].target \in 1 .. Len(db.profile)
  /\ pc[w] \in Inside => /\ Linked(snap[w])
                         /\ job[w].kind # "complete" => job[w].target \in 1 .. Len(snap[w].profile)
  /\ pc[w] = "write" /\ job[w].kind \in {"update", "generate"} =>
       snap[w].profile[job[w].target].version = job[w].profile.version
  /\ pc[w] \in Replying => db.state.current # 0
  /\ pc[w] \in Resolving => job[w].kind # "complete"
  /\ pc[w] = "initialise" => job[w].kind = "complete"
  /\ pc[w] \in Writing => job[w].kind # "view"
  /\ pc[w] = "preflight_profile" => job[w].state.current \in 1 .. Len(db.profile)

Typed == TypeOK /\ Linked(db) /\ \A w \in Worker : Situated(w)

\* A step that answers keeps the types.
LEMMA ReplyTyped ==
  ASSUME Typed, NEW w \in Worker, NEW a \in Answer, Reply(w, a)
  PROVE  Typed'
<1>1. [NoJob EXCEPT !.kind = job[w].kind, !.answer = a] \in Job
  BY Empties, JobTyped DEF Typed, TypeOK, Job
<1>2. TypeOK'
  BY <1>1, Empties DEF Typed, TypeOK, Reply, Goto, Place, Reading
<1>3. ASSUME NEW v \in Worker PROVE Situated(v)'
  <2>1. CASE v = w
    BY <2>1, <1>2 DEF Typed, TypeOK, Reply, Goto, Situated, Resolving, Writing, Replying, Inside
  <2>2. CASE v # w
    BY <2>2 DEF Typed, TypeOK, Reply, Goto, Situated, Linked, Inside
  <2>. QED
    BY <2>1, <2>2
<1>. QED
  BY <1>2, <1>3 DEF Typed, Reply, Linked

\* A step that leaves the documents and the snapshots alone keeps the types.
LEMMA QuietTyped ==
  ASSUME Typed, NEW w \in Worker, NEW place \in Place, NEW j \in Job,
         Goto(w, place), job' = [job EXCEPT ![w] = j], UNCHANGED <<db, policy, snap>>,
         place \notin Inside,
         place # "idle" /\ j.kind # "complete" => j.target \in 1 .. Len(db.profile),
         place \in Resolving => j.kind # "complete",
         place = "initialise" => j.kind = "complete",
         place \in Writing => j.kind # "view",
         place \in Replying => db.state.current # 0,
         place = "preflight_profile" => j.state.current \in 1 .. Len(db.profile)
  PROVE  Typed'
<1>1. TypeOK'
  BY DEF Typed, TypeOK, Goto
<1>2. ASSUME NEW v \in Worker PROVE Situated(v)'
  <2>1. CASE v = w
    BY <2>1 DEF Typed, TypeOK, Goto, Situated, Inside
  <2>2. CASE v # w
    BY <2>2, SMTT(30) DEF Typed, TypeOK, Goto, Situated, Linked, Inside
  <2>. QED
    BY <2>1, <2>2
<1>. QED
  BY <1>1, <1>2 DEF Typed, Linked

\* The steps that read and compute keep the types.
LEMMA ReadingTyped ==
  ASSUME Typed, NEW w \in Worker,
         \/ \E k \in Kind : Arrive(w, k)
         \/ CaptureState(w) \/ ReadState(w) \/ ReadProfile(w) \/ ReadPointer(w)
         \/ ReadLatest(w) \/ Compute(w)
  PROVE  Typed'
<1>. USE JobWrites, JobTyped, DocFields
<1>0. job[w] \in Job /\ db \in Docs /\ policy \in 1 .. MaxPolicy
  BY DEF Typed, TypeOK
<1>1. ASSUME NEW k \in Kind, Arrive(w, k) PROVE Typed'
  <2>1. CASE k = "complete"
    <3>1. [NoJob EXCEPT !.kind = k] \in Job /\ [NoJob EXCEPT !.kind = k].kind = k
      BY Empties DEF Job, NoJob
    <3>. QED
      BY <1>1, <2>1, <3>1, QuietTyped DEF Arrive, Place, Reading, Resolving, Writing, Replying, Inside
  <2>2. CASE k # "complete"
    <3>. DEFINE p == db.state.current
                j == [NoJob EXCEPT !.kind = k, !.target = p, !.expected = db.profile[p].version,
                                   !.shown = db.pointer[p]]
    <3>0. p # 0
      BY <1>1, <2>2 DEF Arrive
    <3>1. p \in 1 .. Len(db.profile) /\ p \in 1 .. Len(db.pointer)
      BY <1>0, <3>0 DEF Typed, Linked
    <3>2. db.profile[p] \in ProfileDoc /\ db.pointer[p] \in PointerDoc
      BY <1>0, <3>1
    <3>3. j \in Job /\ j.kind = k /\ j.target = p
      BY <1>0, <3>1, <3>2, Empties, ZenonT(30) DEF Job, NoJob, ProfileDoc
    <3>4. job' = [job EXCEPT ![w] = j] /\ Goto(w, "state") /\ UNCHANGED <<db, policy, snap>>
      BY <1>1, <2>2 DEF Arrive
    <3>. HIDE DEF j
    <3>. QED
      BY <3>1, <3>3, <3>4, QuietTyped DEF Place, Reading, Resolving, Writing, Replying, Inside
  <2>. QED
    BY <2>1, <2>2
<1>2. CASE CaptureState(w)
  <2>1. CASE db.state.status = "ABSENT"
    <3>1. job' = [job EXCEPT ![w] = job[w]]
      BY <1>2, <2>1 DEF CaptureState, Typed, TypeOK
    <3>. QED
      BY <1>0, <1>2, <2>1, <3>1, QuietTyped DEF CaptureState, Place, Reading, Resolving, Writing, Replying, Inside
  <2>2. CASE db.state.status # "ABSENT"
    <3>1. [job[w] EXCEPT !.state = db.state].kind = job[w].kind
      BY <1>0 DEF Job
    <3>. QED
      BY <1>0, <1>2, <2>2, <3>1, QuietTyped DEF CaptureState, Place, Reading, Resolving, Writing, Replying, Inside
  <2>. QED
    BY <2>1, <2>2
<1>3. CASE ReadState(w)
  <2>1. /\ [job[w] EXCEPT !.state = db.state].kind = job[w].kind
        /\ [job[w] EXCEPT !.state = db.state].target = job[w].target
    BY <1>0 DEF Job
  <2>2. job[w].target \in 1 .. Len(db.profile)
    BY <1>3 DEF ReadState, Typed, Situated
  <2>. QED
    BY <1>0, <1>3, <2>1, <2>2, QuietTyped DEF ReadState, Place, Reading, Resolving, Writing, Replying, Inside
<1>4. CASE ReadProfile(w)
  <2>. DEFINE found == db.profile[job[w].target]
  <2>1. job[w].kind # "complete" /\ job[w].target \in 1 .. Len(db.profile)
    BY <1>4 DEF ReadProfile, Typed, Situated, Resolving
  <2>2. found \in ProfileDoc
    BY <1>0, <2>1
  <2>3. /\ [job[w] EXCEPT !.profile = found].kind = job[w].kind
        /\ [job[w] EXCEPT !.profile = found].target = job[w].target
    BY <1>0 DEF Job
  <2>4. job' = [job EXCEPT ![w] = [job[w] EXCEPT !.profile = found]]
    BY <1>4 DEF ReadProfile
  <2>5. Goto(w, "pointer") \/ (Goto(w, "compute") /\ job[w].kind # "view")
    BY <1>4 DEF ReadProfile
  <2>6. UNCHANGED <<db, policy, snap>>
    BY <1>4 DEF ReadProfile
  <2>. HIDE DEF found
  <2>. QED
    BY <1>0, <2>1, <2>2, <2>3, <2>4, <2>5, <2>6, QuietTyped DEF Place, Reading, Resolving, Writing, Replying, Inside
<1>5. CASE ReadPointer(w)
  <2>. DEFINE found == db.pointer[job[w].target]
  <2>1. job[w].kind # "complete" /\ job[w].target \in 1 .. Len(db.profile)
    BY <1>5 DEF ReadPointer, Typed, Situated, Resolving
  <2>2. found \in PointerDoc
    BY <1>0, <2>1 DEF Typed, Linked
  <2>3. /\ [job[w] EXCEPT !.pointer = found].kind = job[w].kind
        /\ [job[w] EXCEPT !.pointer = found].target = job[w].target
    BY <1>0 DEF Job
  <2>4. job' = [job EXCEPT ![w] = [job[w] EXCEPT !.pointer = found]]
    BY <1>5 DEF ReadPointer
  <2>5. Goto(w, "latest") /\ UNCHANGED <<db, policy, snap>>
    BY <1>5 DEF ReadPointer
  <2>. HIDE DEF found
  <2>. QED
    BY <1>0, <2>1, <2>2, <2>3, <2>4, <2>5, QuietTyped DEF Place, Reading, Resolving, Writing, Replying, Inside
<1>6. CASE ReadLatest(w)
  <2>1. job' = [job EXCEPT ![w] = job[w]]
    BY <1>6 DEF ReadLatest, Typed, TypeOK
  <2>2. job[w].target \in 1 .. Len(db.profile) /\ job[w].kind # "complete"
    BY <1>6 DEF ReadLatest, Typed, Situated, Resolving
  <2>3. job[w].kind # "view"
    BY <1>6 DEF ReadLatest, Verdict
  <2>. QED
    BY <1>0, <1>6, <2>1, <2>2, <2>3, QuietTyped DEF ReadLatest, Place, Reading, Resolving, Writing, Replying, Inside
<1>7. CASE Compute(w)
  <2>1. /\ [job[w] EXCEPT !.policy = policy].kind = job[w].kind
        /\ [job[w] EXCEPT !.policy = policy].target = job[w].target
    BY <1>0 DEF Job
  <2>2. /\ job[w].kind # "complete" => job[w].target \in 1 .. Len(db.profile)
        /\ job[w].kind # "view"
    BY <1>7 DEF Compute, Typed, Situated, Writing
  <2>3. policy \in 0 .. MaxPolicy
    BY <1>0, BoundAssumption
  <2>. QED
    BY <1>0, <1>7, <2>1, <2>2, <2>3, QuietTyped DEF Compute, Place, Reading, Resolving, Writing, Replying, Inside
<1>. QED
  BY <1>1, <1>2, <1>3, <1>4, <1>5, <1>6, <1>7

\* The steps that put the response of a committed change together keep the types.
LEMMA ReplyingTyped ==
  ASSUME Typed, NEW w \in Worker, Preflight(w) \/ PreflightProfile(w) \/ PreflightAgain(w)
  PROVE  Typed'
<1>. USE JobWrites, JobTyped, DocFields
<1>0. job[w] \in Job /\ db \in Docs /\ policy \in 1 .. MaxPolicy
  BY DEF Typed, TypeOK
<1>1. /\ job[w].kind # "complete" => job[w].target \in 1 .. Len(db.profile)
      /\ db.state.current # 0 /\ db.state.current \in 1 .. Len(db.profile)
  BY <1>0 DEF Preflight, PreflightProfile, PreflightAgain, Typed, Linked, Situated, Replying
<1>2. CASE Preflight(w)
  <2>1. /\ [job[w] EXCEPT !.state = db.state].kind = job[w].kind
        /\ [job[w] EXCEPT !.state = db.state].target = job[w].target
        /\ [job[w] EXCEPT !.state = db.state].state = db.state
    BY <1>0 DEF Job
  <2>. QED
    BY <1>0, <1>1, <1>2, <2>1, QuietTyped DEF Preflight, Place, Reading, Resolving, Writing, Replying, Inside
<1>3. CASE PreflightProfile(w)
  <2>. DEFINE found == db.profile[job[w].state.current]
  <2>1. job[w].state.current \in 1 .. Len(db.profile)
    BY <1>3 DEF PreflightProfile, Typed, Situated
  <2>2. found \in ProfileDoc
    BY <1>0, <2>1
  <2>3. /\ [job[w] EXCEPT !.profile = found].kind = job[w].kind
        /\ [job[w] EXCEPT !.profile = found].target = job[w].target
    BY <1>0 DEF Job
  <2>4. job' = [job EXCEPT ![w] = [job[w] EXCEPT !.profile = found]]
    BY <1>3 DEF PreflightProfile
  <2>5. Goto(w, "reconcile") /\ UNCHANGED <<db, policy, snap>>
    BY <1>3 DEF PreflightProfile
  <2>. HIDE DEF found
  <2>. QED
    BY <1>0, <1>1, <2>2, <2>3, <2>4, <2>5, QuietTyped DEF Place, Reading, Resolving, Writing, Replying, Inside
<1>4. CASE PreflightAgain(w)
  <2>. DEFINE n == job[w].tries + 1
  <2>1. n \in 0 .. Attempts
    BY <1>0, <1>4, AttemptsAssumption DEF PreflightAgain
  <2>2. /\ [job[w] EXCEPT !.tries = n].kind = job[w].kind
        /\ [job[w] EXCEPT !.tries = n].target = job[w].target
    BY <1>0 DEF Job
  <2>3. job' = [job EXCEPT ![w] = [job[w] EXCEPT !.tries = n]]
    BY <1>4 DEF PreflightAgain
  <2>4. Goto(w, "preflight") /\ UNCHANGED <<db, policy, snap>>
    BY <1>4 DEF PreflightAgain
  <2>. HIDE DEF n
  <2>. QED
    BY <1>0, <1>1, <2>1, <2>2, <2>3, <2>4, QuietTyped DEF Place, Reading, Resolving, Writing, Replying, Inside
<1>. QED
  BY <1>2, <1>3, <1>4

\* A step that starts or restarts a transaction keeps the types.
LEMMA SnapshotTyped ==
  ASSUME Typed, NEW w \in Worker, Begin(w) \/ Retry(w)
  PROVE  Typed'
<1>1. TypeOK'
  BY Empties DEF Begin, Retry, Goto, Typed, TypeOK, Place
<1>2. ASSUME NEW v \in Worker PROVE Situated(v)'
  <2>1. CASE v = w
    BY <2>1 DEF Begin, Retry, Goto, Typed, TypeOK, Situated, Linked, Resolving, Writing, Replying, Inside
  <2>2. CASE v # w
    BY <2>2 DEF Begin, Retry, Goto, Typed, TypeOK, Situated, Linked, Inside
  <2>. QED
    BY <2>1, <2>2
<1>. QED
  BY <1>1, <1>2 DEF Begin, Retry, Typed, Linked

\* The checks of a transaction keep the types.
LEMMA AcceptTyped ==
  ASSUME Typed, NEW w \in Worker, Accept(w)
  PROVE  Typed'
<1>0. pc[w] = "txn" /\ Goto(w, "write") /\ UNCHANGED <<db, policy, job, snap>>
  BY DEF Accept
<1>1. TypeOK'
  BY <1>0 DEF Goto, Typed, TypeOK, Place
<1>2. job[w].kind \in {"update", "generate"} =>
        snap[w].profile[job[w].target].version = job[w].profile.version
  BY DEF Accept, Holds, AdvisoryHolds
<1>3. ASSUME NEW v \in Worker PROVE Situated(v)'
  <2>1. CASE v = w
    BY <2>1, <1>0, <1>2 DEF Goto, Typed, TypeOK, Situated, Linked, Resolving, Writing, Replying, Inside
  <2>2. CASE v # w
    BY <2>2, <1>0 DEF Goto, Typed, TypeOK, Situated, Linked, Inside
  <2>. QED
    BY <2>1, <2>2
<1>. QED
  BY <1>0, <1>1, <1>3 DEF Typed, Linked

\* Creating the state document keeps the types.
LEMMA InitialiseTyped ==
  ASSUME Typed, NEW w \in Worker, Initialise(w)
  PROVE  Typed'
<1>. DEFINE new == IF db.state.status = "ABSENT" THEN [db.state EXCEPT !.status = "NO_CURRENT"]
                   ELSE db.state
<1>0. job[w] \in Job /\ db \in Docs
  BY DEF Typed, TypeOK
<1>1. new \in StateDoc /\ new.current = db.state.current
  BY <1>0, DocFields DEF StateDoc
<1>2. db' = [db EXCEPT !.state = new] /\ job' = [job EXCEPT ![w] = [job[w] EXCEPT !.state = db'.state]]
  BY DEF Initialise
<1>3. /\ db' \in Docs /\ db'.state = new /\ db'.profile = db.profile /\ db'.pointer = db.pointer
  BY <1>0, <1>1, <1>2 DEF Docs
<1>. HIDE DEF new
<1>4. /\ [job[w] EXCEPT !.state = new] \in Job
      /\ [job[w] EXCEPT !.state = new].kind = job[w].kind
      /\ [job[w] EXCEPT !.state = new].target = job[w].target
  BY <1>0, <1>1 DEF Job
<1>5. TypeOK'
  BY <1>2, <1>3, <1>4 DEF Initialise, Goto, Typed, TypeOK, Place
<1>6. ASSUME NEW v \in Worker PROVE Situated(v)'
  <2>1. CASE v = w
    <3>1. job[w].kind = "complete"
      BY DEF Initialise, Typed, Situated
    <3>. QED
      BY <2>1, <3>1, <1>2, <1>3, <1>4
      DEF Initialise, Goto, Typed, TypeOK, Situated, Resolving, Writing, Replying, Inside
  <2>2. CASE v # w
    BY <2>2, <1>1, <1>2, <1>3 DEF Initialise, Goto, Typed, TypeOK, Situated, Linked, Inside
  <2>. QED
    BY <2>1, <2>2
<1>. QED
  BY <1>1, <1>3, <1>5, <1>6 DEF Typed, Linked

-----------------------------------------------------------------------------
(* The commit *)

\* What is known of a request whose transaction is under way.
LEMMA AtTransaction ==
  ASSUME Typed, NEW w \in Worker, pc[w] = "write"
  PROVE  /\ job[w] \in Job /\ snap[w] \in Docs /\ db \in Docs
         /\ Linked(snap[w]) /\ Linked(db)
         /\ job[w].kind \in {"complete", "update", "generate", "rebalance"}
         /\ job[w].kind # "complete" =>
              /\ job[w].target \in 1 .. Len(db.profile) /\ job[w].target \in 1 .. Len(db.pointer)
              /\ job[w].target \in 1 .. Len(snap[w].profile)
              /\ job[w].target \in 1 .. Len(snap[w].pointer)
<1>1. job[w] \in Job /\ snap[w] \in Docs /\ db \in Docs
  BY DEF Typed, TypeOK
<1>2. Linked(snap[w]) /\ Linked(db)
  BY DEF Typed, Situated, Inside
<1>3. job[w].kind \in Kind /\ job[w].kind # "view"
  BY <1>1, JobTyped DEF Typed, Situated, Writing
<1>4. ASSUME job[w].kind # "complete"
      PROVE  job[w].target \in 1 .. Len(db.profile) /\ job[w].target \in 1 .. Len(snap[w].profile)
  BY <1>4 DEF Typed, Situated, Inside
<1>. QED
  BY <1>1, <1>2, <1>3, <1>4 DEF Linked, Kind

\* The fences make every overwrite a write: a transaction that meets no conflict finds the
\* documents it overwrites as its snapshot shows them.
LEMMA NothingLost ==
  ASSUME Typed, NEW w \in Worker, pc[w] = "write", ~Conflicts(w)
  PROVE  /\ db.state = snap[w].state /\ db.head = snap[w].head
         /\ job[w].kind # "complete" =>
              /\ db.profile[job[w].target] = snap[w].profile[job[w].target]
              /\ db.pointer[job[w].target] = snap[w].pointer[job[w].target]
<1>. DEFINE s == snap[w]
            p == job[w].target
<1>0. job[w] \in Job /\ s \in Docs /\ db \in Docs
  BY AtTransaction
<1>1. NewState(w) # s.state
  <2>1. NewState(w).fence = s.state.fence + 1
    BY <1>0, DocFields DEF NewState, StateDoc
  <2>. QED
    BY <1>0, <2>1, DocFields
<1>2. NewHead(w) # s.head
  <2>1. NewHead(w).sequence = s.head.sequence + 1
    BY DEF NewHead
  <2>. QED
    BY <1>0, <2>1, DocFields
<1>3. ASSUME job[w].kind # "complete"
      PROVE  NewProfile(w) # s.profile[p] /\ NewPointer(w) # s.pointer[p]
  <2>1. s.profile[p] \in ProfileDoc /\ s.pointer[p] \in PointerDoc
    BY <1>0, <1>3, AtTransaction, DocFields
  <2>2. NewProfile(w).fence = s.profile[p].fence + 1
    BY <1>3, <2>1 DEF NewProfile, ProfileDoc
  <2>3. CASE job[w].kind = "rebalance"
    <3>1. NewPointer(w).revision = s.pointer[p].revision + 1
      BY <1>3, <2>1, <2>3 DEF NewPointer, OldPointer, PointerDoc
    <3>. QED
      BY <2>1, <2>2, <3>1 DEF PointerDoc, ProfileDoc
  <2>4. CASE job[w].kind # "rebalance"
    <3>1. NewPointer(w).generation = s.pointer[p].generation + 1
      BY <1>3, <2>1, <2>4 DEF NewPointer, OldPointer, PointerDoc
    <3>. QED
      BY <2>1, <2>2, <3>1 DEF PointerDoc, ProfileDoc
  <2>. QED
    BY <2>3, <2>4
<1>. QED
  BY <1>1, <1>2, <1>3 DEF Conflicts, Lost

\* The documents a transaction writes have their types.
LEMMA WritesTyped ==
  ASSUME Typed, NEW w \in Worker, pc[w] = "write"
  PROVE  /\ Subject(w) \in 1 .. Len(db.profile) + 1 /\ Subject(w) \in 1 .. Len(db.pointer) + 1
         /\ NewState(w) \in StateDoc /\ NewProfile(w) \in ProfileDoc
         /\ NewPointer(w) \in PointerDoc /\ NewRecs(w) \in Seq(RecDoc)
         /\ NewAlloc(w) \in AllocDoc /\ NewAudit(w) \in AuditDoc
         /\ NewHead(w) \in [sequence : Nat, last : Nat]
<1>. DEFINE s == snap[w]
            p == job[w].target
<1>0. job[w] \in Job /\ s \in Docs /\ db \in Docs
  BY AtTransaction
<1>1. job[w].kind # "complete" => s.profile[p] \in ProfileDoc /\ s.pointer[p] \in PointerDoc
  BY <1>0, AtTransaction, DocFields
<1>2. Subject(w) \in 1 .. Len(db.profile) + 1 /\ Subject(w) \in 1 .. Len(db.pointer) + 1
  BY <1>0, AtTransaction, DocFields DEF Subject, Linked
<1>3. NewState(w) \in StateDoc
  <2>1. s.state \in StateDoc /\ Subject(w) \in Nat
    BY <1>0, <1>2, DocFields
  <2>2. CASE job[w].kind \in {"complete", "update"}
    BY <2>1, <2>2 DEF NewState, StateDoc
  <2>3. CASE job[w].kind \notin {"complete", "update"}
    BY <2>1, <2>3 DEF NewState, StateDoc
  <2>. QED
    BY <2>2, <2>3
<1>4. NewProfile(w) \in ProfileDoc
  BY <1>1, AtTransaction, SMTT(30) DEF NewProfile, ProfileDoc
<1>5. BoundVersion(w) \in Nat
  BY <1>0, <1>1, AtTransaction, JobTyped DEF BoundVersion, ProfileDoc
<1>6. /\ Len(db.rec) \in Nat /\ Len(db.alloc) \in Nat /\ Len(db.audit) \in Nat
      /\ s.head.sequence \in Nat /\ s.head.last \in Nat
  BY <1>0, DocFields
<1>7. NewPointer(w) \in PointerDoc
  <2>1. OldPointer(w) \in PointerDoc
    BY <1>1 DEF OldPointer, NoPointer, PointerDoc
  <2>2. OldPointer(w).rec \in Nat /\ OldPointer(w).revision \in Nat /\ OldPointer(w).generation \in Nat
    BY <2>1 DEF PointerDoc
  <2>. QED
    BY <1>5, <1>6, <2>2 DEF NewPointer, PointerDoc
<1>8. NewRecs(w) \in Seq(RecDoc)
  <2>1. job[w].policy \in Nat
    BY <1>0, JobTyped, BoundAssumption
  <2>2. [profile |-> Subject(w), version |-> BoundVersion(w),
         generation |-> NewPointer(w).generation, policy |-> job[w].policy] \in RecDoc
    BY <1>2, <1>5, <1>7, <2>1 DEF RecDoc, PointerDoc
  <2>. QED
    BY <2>2 DEF NewRecs
<1>9. NewAlloc(w) \in AllocDoc
  <2>1. NewPointer(w).rec \in Nat /\ NewPointer(w).revision \in Nat
    BY <1>7 DEF PointerDoc
  <2>2. job[w].kind = "rebalance" => s.pointer[p].alloc \in Nat
    BY <1>1 DEF PointerDoc
  <2>. QED
    BY <1>5, <1>6, <2>1, <2>2 DEF NewAlloc, OldPointer, AllocDoc
<1>10. NewAudit(w) \in AuditDoc
  BY <1>6, <1>7, SMTT(30) DEF NewAudit, AuditDoc, PointerDoc
<1>11. NewHead(w) \in [sequence : Nat, last : Nat]
  BY <1>6 DEF NewHead
<1>. QED
  BY <1>2, <1>3, <1>4, <1>7, <1>8, <1>9, <1>10, <1>11

\* The database a commit leaves.
LEMMA Committed ==
  ASSUME Typed, NEW w \in Worker, Commit(w)
  PROVE  /\ db' \in Docs /\ Linked(db)' /\ db'.state = NewState(w) /\ db'.state.current # 0
         /\ Len(db'.profile) >= Len(db.profile)
<1>0. pc[w] = "write" /\ ~Conflicts(w) /\ db \in Docs /\ job[w] \in Job
  BY AtTransaction DEF Commit
<1>1. /\ db'.state = NewState(w) /\ db'.head = NewHead(w)
      /\ db'.profile = Put(db.profile, Subject(w), NewProfile(w))
      /\ db'.pointer = Put(db.pointer, Subject(w), NewPointer(w))
      /\ db'.rec = db.rec \o NewRecs(w) /\ db'.alloc = Append(db.alloc, NewAlloc(w))
      /\ db'.audit = Append(db.audit, NewAudit(w))
  BY DEF Commit
<1>2. /\ db'.profile \in Seq(ProfileDoc) /\ db'.pointer \in Seq(PointerDoc)
      /\ Len(db'.profile) = Len(db'.pointer) /\ Len(db'.profile) >= Len(db.profile)
      /\ Subject(w) \in 1 .. Len(db'.profile)
  <2>1. /\ db.profile \in Seq(ProfileDoc) /\ db.pointer \in Seq(PointerDoc)
        /\ Len(db.profile) = Len(db.pointer) /\ Len(db.profile) \in Nat
    BY <1>0, AtTransaction, DocFields DEF Linked
  <2>2. /\ NewProfile(w) \in ProfileDoc /\ NewPointer(w) \in PointerDoc
        /\ Subject(w) \in 1 .. Len(db.profile) + 1 /\ Subject(w) \in 1 .. Len(db.pointer) + 1
    BY <1>0, WritesTyped
  <2>3. /\ db'.profile \in Seq(ProfileDoc)
        /\ Len(db'.profile) = IF Subject(w) = Len(db.profile) + 1 THEN Len(db.profile) + 1
                                                                 ELSE Len(db.profile)
    BY <1>1, <2>1, <2>2, PutSeq
  <2>4. /\ db'.pointer \in Seq(PointerDoc)
        /\ Len(db'.pointer) = IF Subject(w) = Len(db.pointer) + 1 THEN Len(db.pointer) + 1
                                                                 ELSE Len(db.pointer)
    BY <1>1, <2>1, <2>2, PutSeq
  <2>. QED
    BY <2>1, <2>2, <2>3, <2>4
<1>3. db'.rec \in Seq(RecDoc) /\ db'.alloc \in Seq(AllocDoc) /\ db'.audit \in Seq(AuditDoc)
  <2>1. db.rec \in Seq(RecDoc) /\ db.alloc \in Seq(AllocDoc) /\ db.audit \in Seq(AuditDoc)
    BY <1>0, DocFields
  <2>2. NewRecs(w) \in Seq(RecDoc) /\ NewAlloc(w) \in AllocDoc /\ NewAudit(w) \in AuditDoc
    BY <1>0, WritesTyped
  <2>. QED
    BY <1>1, <2>1, <2>2
<1>4. db' \in Docs
  <2>1. db' = [state |-> db'.state, profile |-> db'.profile, pointer |-> db'.pointer, rec |-> db'.rec,
               alloc |-> db'.alloc, audit |-> db'.audit, head |-> db'.head]
    BY DEF Commit
  <2>2. db'.state \in StateDoc /\ db'.head \in [sequence : Nat, last : Nat]
    BY <1>0, <1>1, WritesTyped
  <2>. QED
    BY <1>2, <1>3, <2>1, <2>2 DEF Docs
<1>5. NewState(w).current \in 1 .. Len(db'.profile)
  <2>1. CASE job[w].kind \in {"complete", "update"}
    BY <1>2, <2>1 DEF NewState
  <2>2. CASE job[w].kind \notin {"complete", "update"}
    <3>1. NewState(w).current = snap[w].state.current
      BY <1>0, <2>2, AtTransaction, DocFields DEF NewState, StateDoc
    <3>2. snap[w].state.current = db.state.current
      BY <1>0, NothingLost
    <3>3. db.state.current \in 1 .. Len(db.profile)
      BY <1>0, <2>2, AtTransaction, DocFields DEF Linked
    <3>4. Len(db.profile) \in Nat /\ Len(db'.profile) \in Nat
      BY <1>0, <1>2, DocFields
    <3>. QED
      BY <1>2, <3>1, <3>2, <3>3, <3>4
  <2>. QED
    BY <2>1, <2>2
<1>. QED
  BY <1>1, <1>2, <1>4, <1>5 DEF Linked

\* A commit keeps the types.
LEMMA CommitTyped ==
  ASSUME Typed, NEW w \in Worker, Commit(w)
  PROVE  Typed'
<1>. DEFINE made == [profile |-> Subject(w), rec |-> NewPointer(w).rec, alloc |-> NewPointer(w).alloc]
            j == [job[w] EXCEPT !.tries = 1, !.made = made]
<1>0. pc[w] = "write" /\ job[w] \in Job /\ db \in Docs
  BY AtTransaction DEF Commit
<1>1. made \in [profile : Nat, rec : Nat, alloc : Nat]
  BY <1>0, WritesTyped, DocFields DEF PointerDoc
<1>2. j \in Job /\ j.kind = job[w].kind /\ j.target = job[w].target
  <2>1. 1 \in 0 .. Attempts
    BY AttemptsAssumption
  <2>. DEFINE i == job[w]
  <2>2. i \in Job
    BY <1>0
  <2>. HIDE DEF made, i
  <2>3. /\ [i EXCEPT !.tries = 1, !.made = made] \in Job
        /\ [i EXCEPT !.tries = 1, !.made = made].kind = i.kind
        /\ [i EXCEPT !.tries = 1, !.made = made].target = i.target
    BY <1>1, <2>1, <2>2, JobCommits
  <2>. QED
    BY <2>3 DEF i
<1>3. /\ job' = [job EXCEPT ![w] = j] /\ Goto(w, "preflight")
      /\ snap' = [snap EXCEPT ![w] = NoDocs] /\ UNCHANGED policy
  BY DEF Commit
<1>. HIDE DEF j
<1>4. TypeOK'
  BY <1>2, <1>3, Committed, Empties DEF Goto, Typed, TypeOK, Place
<1>5. ASSUME NEW v \in Worker PROVE Situated(v)'
  <2>0. Len(db.profile) \in Nat /\ Len(db'.profile) \in Nat
    BY <1>0, Committed, DocFields
  <2>1. CASE v = w
    <3>1. job[w].kind # "complete" => job[w].target \in 1 .. Len(db'.profile)
      BY <1>0, <2>0, AtTransaction, Committed
    <3>. QED
      BY <2>1, <3>1, <1>2, <1>3, Committed
      DEF Goto, Typed, TypeOK, Situated, Resolving, Writing, Replying, Inside
  <2>2. CASE v # w
    <3>1. pc'[v] = pc[v] /\ job'[v] = job[v] /\ snap'[v] = snap[v]
      BY <2>2, <1>3 DEF Goto, Typed, TypeOK
    <3>2. Situated(v)
      BY DEF Typed
    <3>3. \A n : n \in 1 .. Len(db.profile) => n \in 1 .. Len(db'.profile)
      BY <2>0, Committed
    <3>. QED
      BY <3>1, <3>2, <3>3, Committed DEF Situated, Linked, Inside
  <2>. QED
    BY <2>1, <2>2
<1>. QED
  BY <1>4, <1>5, Committed DEF Typed

-----------------------------------------------------------------------------
(* Type correctness *)

\* Before any request arrives the documents and the requests have their types.
LEMMA InitTyped == Init => Typed
<1>. SUFFICES ASSUME Init PROVE Typed
  OBVIOUS
<1>1. TypeOK
  BY Empties, BoundAssumption DEF Init, TypeOK, Place, Reading
<1>2. Linked(db)
  BY DEF Init, Linked, NoDocs, NoState
<1>3. ASSUME NEW w \in Worker PROVE Situated(w)
  BY DEF Init, Situated, Resolving, Writing, Replying, Inside
<1>. QED
  BY <1>1, <1>2, <1>3 DEF Typed

\* Every step that answers a request answers it.
Answers(w) ==
  \/ InitialiseRefused(w) \/ ReadOtherProfile(w) \/ ReadNewerProfile(w) \/ AnswerFromReads(w)
  \/ ComputeFails(w) \/ Refused(w) \/ TransactionFails(w) \/ GiveUp(w) \/ Reconcile(w) \/ Crash(w)
LEMMA AnswersReply ==
  ASSUME NEW w \in Worker, Answers(w)
  PROVE  \E a \in Answer : Reply(w, a)
<1>1. CASE AnswerFromReads(w)
  <2>1. Verdict(w) \in Answer
    BY <1>1 DEF AnswerFromReads, Verdict, Answer
  <2>. QED
    BY <1>1, <2>1 DEF AnswerFromReads
<1>2. CASE Reconcile(w)
  BY <1>2 DEF Reconcile, Answer
<1>3. CASE ~AnswerFromReads(w) /\ ~Reconcile(w)
  BY <1>3 DEF Answers, InitialiseRefused, ReadOtherProfile, ReadNewerProfile, ComputeFails,
              Refused, TransactionFails, GiveUp, Crash, Answer
<1>. QED
  BY <1>1, <1>2, <1>3

\* What a step of the system is: one of the groups the lemmas above are about.
LEMMA Steps ==
  ASSUME [Next]_vars
  PROVE  \/ \E w \in Worker :
              \/ \E k \in Kind : Arrive(w, k)
              \/ CaptureState(w) \/ ReadState(w) \/ ReadProfile(w) \/ ReadPointer(w)
              \/ ReadLatest(w) \/ Compute(w)
              \/ Preflight(w) \/ PreflightProfile(w) \/ PreflightAgain(w)
              \/ Begin(w) \/ Accept(w) \/ Retry(w) \/ Initialise(w) \/ Commit(w) \/ Answers(w)
         \/ PolicyChange
         \/ UNCHANGED vars
  BY DEF Next, Handle, Answers

\* Typed is inductive.
LEMMA TypedStep == Typed /\ [Next]_vars => Typed'
<1>. SUFFICES ASSUME Typed, [Next]_vars PROVE Typed'
  OBVIOUS
<1>1. ASSUME NEW w \in Worker, Answers(w) PROVE Typed'
  BY <1>1, AnswersReply, ReplyTyped
<1>2. CASE PolicyChange
  <2>1. policy' \in 1 .. MaxPolicy
    BY <1>2, BoundAssumption DEF PolicyChange, Typed, TypeOK
  <2>2. TypeOK'
    BY <1>2, <2>1 DEF PolicyChange, Typed, TypeOK
  <2>. QED
    BY <1>2, <2>2 DEF PolicyChange, Typed, Linked, Situated
<1>3. CASE UNCHANGED vars
  BY <1>3 DEF vars, Typed, TypeOK, Linked, Situated
<1>4. ASSUME NEW w \in Worker,
             \/ \E k \in Kind : Arrive(w, k)
             \/ CaptureState(w) \/ ReadState(w) \/ ReadProfile(w) \/ ReadPointer(w)
             \/ ReadLatest(w) \/ Compute(w)
      PROVE  Typed'
  BY <1>4, ReadingTyped
<1>5. ASSUME NEW w \in Worker,
             \/ Preflight(w) \/ PreflightProfile(w) \/ PreflightAgain(w)
             \/ Begin(w) \/ Accept(w) \/ Retry(w) \/ Initialise(w) \/ Commit(w)
      PROVE  Typed'
  BY <1>5, ReplyingTyped, SnapshotTyped, AcceptTyped, InitialiseTyped, CommitTyped
<1>. QED
  BY <1>1, <1>2, <1>3, <1>4, <1>5, Steps

\* Every document and every request keep their types, whatever the requests do.
THEOREM TypeCorrect == Spec => []TypeOK
<1>1. Typed => TypeOK
  BY DEF Typed
<1>. QED
  BY <1>1, InitTyped, TypedStep, PTL DEF Spec

-----------------------------------------------------------------------------
(* The audit trail *)

\* A step that is not a commit leaves the audit chain and the allocations alone.
LEMMA OnlyCommitAudits ==
  ASSUME Typed, [Next]_vars
  PROVE  \/ \E w \in Worker : Commit(w)
         \/ db'.audit = db.audit /\ db'.alloc = db.alloc /\ db'.head = db.head
<1>1. ASSUME NEW w \in Worker, Initialise(w)
      PROVE  db'.audit = db.audit /\ db'.alloc = db.alloc /\ db'.head = db.head
  BY <1>1 DEF Initialise, Typed, TypeOK, Docs
<1>2. ASSUME NEW w \in Worker, Answers(w) PROVE db' = db
  BY <1>2, AnswersReply, ZenonT(30) DEF Reply
<1>3. ASSUME NEW w \in Worker,
             \/ \E k \in Kind : Arrive(w, k)
             \/ CaptureState(w) \/ ReadState(w) \/ ReadProfile(w) \/ ReadPointer(w)
             \/ ReadLatest(w) \/ Compute(w)
             \/ Preflight(w) \/ PreflightProfile(w) \/ PreflightAgain(w) \/ Begin(w) \/ Accept(w) \/ Retry(w)
      PROVE  db' = db
  BY <1>3 DEF Arrive, CaptureState, ReadState, ReadProfile, ReadPointer, ReadLatest, Compute,
              Preflight, PreflightProfile, PreflightAgain, Begin, Accept, Retry
<1>. QED
  BY <1>1, <1>2, <1>3, Steps DEF PolicyChange, vars

\* A commit adds one allocation and one audit record, linked to each other and to the chain:
\* the head it read in its snapshot is the head it replaces.
LEMMA CommitAudits ==
  ASSUME Typed, AuditTrail, NEW w \in Worker, Commit(w)
  PROVE  AuditTrail'
<1>. DEFINE n == Len(db.audit)
<1>0. /\ pc[w] = "write" /\ ~Conflicts(w) /\ db \in Docs
      /\ db.alloc \in Seq(AllocDoc) /\ db.audit \in Seq(AuditDoc)
      /\ n \in Nat /\ Len(db.alloc) = n /\ db.head.sequence = n /\ db.head.last = n
  BY AtTransaction, DocFields DEF Commit, AuditTrail
<1>1. /\ db'.head = NewHead(w) /\ db'.alloc = Append(db.alloc, NewAlloc(w))
      /\ db'.audit = Append(db.audit, NewAudit(w))
  BY DEF Commit
<1>2. snap[w].head.sequence = n /\ snap[w].head.last = n
  BY <1>0, NothingLost
<1>3. Len(db'.audit) = n + 1 /\ Len(db'.alloc) = n + 1
  BY <1>0, <1>1
<1>4. db'.head = [sequence |-> n + 1, last |-> n + 1]
  BY <1>1, <1>2 DEF NewHead
<1>5. ASSUME NEW i \in DOMAIN db'.audit
      PROVE  /\ db'.audit[i].sequence = i /\ db'.audit[i].previous = i - 1
             /\ db'.audit[i].alloc = i /\ db'.audit[i].rec = db'.alloc[i].rec
  <2>1. i \in 1 .. n + 1
    BY <1>0, <1>1
  <2>2. CASE i \in 1 .. n
    <3>1. db'.audit[i] = db.audit[i] /\ db'.alloc[i] = db.alloc[i] /\ i \in DOMAIN db.audit
      BY <1>0, <1>1, <2>2
    <3>. QED
      BY <3>1 DEF AuditTrail
  <2>3. CASE i = n + 1
    <3>1. db'.audit[i] = NewAudit(w) /\ db'.alloc[i] = NewAlloc(w)
      BY <1>0, <1>1, <2>3
    <3>. QED
      BY <1>0, <1>2, <2>3, <3>1 DEF NewAudit, NewAlloc
  <2>. QED
    BY <2>1, <2>2, <2>3
<1>. QED
  BY <1>3, <1>4, <1>5 DEF AuditTrail

\* Each allocation revision has exactly one audit record and the records form one chain, for
\* any number of concurrent transactions: a head read in a snapshot is never forked.
THEOREM AuditChainUnbroken == Spec => []AuditTrail
<1>1. Init => AuditTrail
  BY DEF Init, NoDocs, AuditTrail
<1>2. Typed /\ AuditTrail /\ [Next]_vars => AuditTrail'
  <2>. SUFFICES ASSUME Typed, AuditTrail, [Next]_vars PROVE AuditTrail'
    OBVIOUS
  <2>1. CASE db'.audit = db.audit /\ db'.alloc = db.alloc /\ db'.head = db.head
    BY <2>1 DEF AuditTrail
  <2>. QED
    BY <2>1, OnlyCommitAudits, CommitAudits
<1>. QED
  BY <1>1, <1>2, InitTyped, TypedStep, PTL DEF Spec

-----------------------------------------------------------------------------
(* The inductive invariant *)

\* The revision a pointer names is the only one of its recommendation with the highest number.
Newest(d, p) ==
  \A b \in Revisions(d, d.pointer[p].rec) :
    b # d.pointer[p].alloc => d.alloc[b].revision < d.pointer[p].revision

\* The graph of a profile is sound and bound to the profile's version.
Bound(d, p) == GraphSound(d, p) /\ Newest(d, p) /\ d.pointer[p].version = d.profile[p].version

\* No revision belongs to a recommendation that does not exist.
Owned(d) == \A a \in DOMAIN d.alloc : d.alloc[a].rec \in DOMAIN d.rec

Consistent == Owned(db) /\ \A p \in DOMAIN db.pointer : Bound(db, p)

\* The newest revision is the one resolveCurrentRecommendationState finds.
LEMMA NewestIsLatest ==
  ASSUME NEW d \in Docs, NEW r \in Nat, NEW a \in Revisions(d, r),
         \A b \in Revisions(d, r) : b # a => d.alloc[b].revision < d.alloc[a].revision
  PROVE  Latest(d, r) = a
<1>1. \A b \in Revisions(d, r) : d.alloc[b].revision \in Nat
  <2>1. d.alloc \in Seq(AllocDoc)
    BY DocFields
  <2>2. \A b \in DOMAIN d.alloc : d.alloc[b] \in AllocDoc
    BY <2>1
  <2>. QED
    BY <2>2 DEF Revisions, AllocDoc
<1>2. \A b \in Revisions(d, r) : d.alloc[b].revision <= d.alloc[a].revision
  BY <1>1
<1>3. \A c \in Revisions(d, r) :
        (\A b \in Revisions(d, r) : d.alloc[b].revision <= d.alloc[c].revision) => c = a
  BY <1>1
<1>. QED
  BY <1>2, <1>3 DEF Latest

-----------------------------------------------------------------------------
(* The commit, document by document *)

\* What a commit adds and what it leaves.
LEMMA CommitDocs ==
  ASSUME Typed, NEW w \in Worker, Commit(w)
  PROVE  /\ DOMAIN db.alloc = 1 .. Len(db.alloc) /\ DOMAIN db'.alloc = 1 .. Len(db.alloc) + 1
         /\ db'.alloc[Len(db.alloc) + 1] = NewAlloc(w)
         /\ \A a \in DOMAIN db.alloc : a \in DOMAIN db'.alloc /\ db'.alloc[a] = db.alloc[a]
         /\ db'.audit[Len(db.audit) + 1] = NewAudit(w) /\ Len(db.audit) + 1 \in DOMAIN db'.audit
         /\ \A i \in DOMAIN db.audit : i \in DOMAIN db'.audit /\ db'.audit[i] = db.audit[i]
         /\ \A r \in DOMAIN db.rec : r \in DOMAIN db'.rec /\ db'.rec[r] = db.rec[r]
         /\ DOMAIN db.rec = 1 .. Len(db.rec)
         /\ Len(db.rec) \in Nat /\ Len(db.alloc) \in Nat /\ Len(db.audit) \in Nat
<1>0. /\ pc[w] = "write" /\ db \in Docs
      /\ db.rec \in Seq(RecDoc) /\ db.alloc \in Seq(AllocDoc) /\ db.audit \in Seq(AuditDoc)
  BY AtTransaction, DocFields DEF Commit
<1>1. /\ db'.rec = db.rec \o NewRecs(w) /\ db'.alloc = Append(db.alloc, NewAlloc(w))
      /\ db'.audit = Append(db.audit, NewAudit(w))
  BY DEF Commit
<1>2. NewRecs(w) \in Seq(RecDoc) /\ NewAlloc(w) \in AllocDoc /\ NewAudit(w) \in AuditDoc
  BY <1>0, WritesTyped
<1>3. \A r \in DOMAIN db.rec : r \in DOMAIN db'.rec /\ db'.rec[r] = db.rec[r]
  BY <1>0, <1>1, <1>2
<1>4. /\ db'.audit[Len(db.audit) + 1] = NewAudit(w) /\ Len(db.audit) + 1 \in DOMAIN db'.audit
      /\ \A i \in DOMAIN db.audit : i \in DOMAIN db'.audit /\ db'.audit[i] = db.audit[i]
  BY <1>0, <1>1, <1>2
<1>5. /\ DOMAIN db.alloc = 1 .. Len(db.alloc) /\ DOMAIN db'.alloc = 1 .. Len(db.alloc) + 1
      /\ db'.alloc[Len(db.alloc) + 1] = NewAlloc(w)
      /\ \A a \in DOMAIN db.alloc : a \in DOMAIN db'.alloc /\ db'.alloc[a] = db.alloc[a]
  BY <1>0, <1>1, <1>2
<1>6. /\ DOMAIN db.rec = 1 .. Len(db.rec)
      /\ Len(db.rec) \in Nat /\ Len(db.alloc) \in Nat /\ Len(db.audit) \in Nat
  BY <1>0
<1>. QED
  BY <1>3, <1>4, <1>5, <1>6

\* The profile and the pointer it writes, and the ones it leaves.
LEMMA CommitPlaces ==
  ASSUME Typed, NEW w \in Worker, Commit(w)
  PROVE  /\ Subject(w) \in DOMAIN db'.pointer /\ Subject(w) \in DOMAIN db'.profile
         /\ db'.pointer[Subject(w)] = NewPointer(w) /\ db'.profile[Subject(w)] = NewProfile(w)
         /\ \A p \in DOMAIN db'.pointer : p # Subject(w) =>
              /\ p \in DOMAIN db.pointer
              /\ db'.pointer[p] = db.pointer[p] /\ db'.profile[p] = db.profile[p]
<1>0. pc[w] = "write" /\ db \in Docs
  BY AtTransaction DEF Commit
<1>1. /\ db'.profile = Put(db.profile, Subject(w), NewProfile(w))
      /\ db'.pointer = Put(db.pointer, Subject(w), NewPointer(w))
  BY DEF Commit
<1>2. /\ NewProfile(w) \in ProfileDoc /\ NewPointer(w) \in PointerDoc
      /\ Subject(w) \in 1 .. Len(db.profile) + 1 /\ Subject(w) \in 1 .. Len(db.pointer) + 1
  BY <1>0, WritesTyped
<1>3. /\ db.profile \in Seq(ProfileDoc) /\ db.pointer \in Seq(PointerDoc)
      /\ Len(db.profile) = Len(db.pointer) /\ Len(db.profile) \in Nat
  BY <1>0, AtTransaction, DocFields DEF Linked
<1>4. /\ db'.profile \in Seq(ProfileDoc) /\ db'.profile[Subject(w)] = NewProfile(w)
      /\ Len(db'.profile) = IF Subject(w) = Len(db.profile) + 1 THEN Len(db.profile) + 1
                                                               ELSE Len(db.profile)
      /\ \A k \in 1 .. Len(db.profile) : k # Subject(w) => db'.profile[k] = db.profile[k]
  <2>. DEFINE q == db.profile
  <2>1. q \in Seq(ProfileDoc) /\ NewProfile(w) \in ProfileDoc /\ Subject(w) \in 1 .. Len(q) + 1
    BY <1>2, <1>3
  <2>. HIDE DEF q
  <2>2. /\ Put(q, Subject(w), NewProfile(w)) \in Seq(ProfileDoc)
        /\ Put(q, Subject(w), NewProfile(w))[Subject(w)] = NewProfile(w)
        /\ Len(Put(q, Subject(w), NewProfile(w))) = IF Subject(w) = Len(q) + 1 THEN Len(q) + 1
                                                                               ELSE Len(q)
        /\ \A k \in 1 .. Len(q) : k # Subject(w) => Put(q, Subject(w), NewProfile(w))[k] = q[k]
    BY <2>1, PutSeq
  <2>. QED
    BY <1>1, <2>2 DEF q
<1>5. /\ db'.pointer \in Seq(PointerDoc) /\ db'.pointer[Subject(w)] = NewPointer(w)
      /\ Len(db'.pointer) = IF Subject(w) = Len(db.pointer) + 1 THEN Len(db.pointer) + 1
                                                               ELSE Len(db.pointer)
      /\ \A k \in 1 .. Len(db.pointer) : k # Subject(w) => db'.pointer[k] = db.pointer[k]
  <2>. DEFINE q == db.pointer
  <2>1. q \in Seq(PointerDoc) /\ NewPointer(w) \in PointerDoc /\ Subject(w) \in 1 .. Len(q) + 1
    BY <1>2, <1>3
  <2>. HIDE DEF q
  <2>2. /\ Put(q, Subject(w), NewPointer(w)) \in Seq(PointerDoc)
        /\ Put(q, Subject(w), NewPointer(w))[Subject(w)] = NewPointer(w)
        /\ Len(Put(q, Subject(w), NewPointer(w))) = IF Subject(w) = Len(q) + 1 THEN Len(q) + 1
                                                                               ELSE Len(q)
        /\ \A k \in 1 .. Len(q) : k # Subject(w) => Put(q, Subject(w), NewPointer(w))[k] = q[k]
    BY <2>1, PutSeq
  <2>. QED
    BY <1>1, <2>2 DEF q
<1>6. DOMAIN db'.pointer = 1 .. Len(db'.pointer) /\ DOMAIN db.pointer = 1 .. Len(db.pointer)
  BY <1>3, <1>5
<1>7. DOMAIN db'.profile = 1 .. Len(db'.profile)
  BY <1>4
<1>8. Subject(w) \in 1 .. Len(db'.pointer) /\ Subject(w) \in 1 .. Len(db'.profile)
  BY <1>2, <1>3, <1>4, <1>5
<1>9. ASSUME NEW p \in 1 .. Len(db'.pointer), p # Subject(w) PROVE p \in 1 .. Len(db.pointer)
  BY <1>2, <1>3, <1>5, <1>9
<1>. QED
  BY <1>3, <1>4, <1>5, <1>6, <1>7, <1>8, <1>9

\* A new recommendation, and the revision that belongs to it, come after all others.
LEMMA CommitNewRec ==
  ASSUME Typed, NEW w \in Worker, Commit(w), job[w].kind # "rebalance"
  PROVE  /\ NewPointer(w).rec = Len(db.rec) + 1 /\ Len(db.rec) + 1 \in DOMAIN db'.rec
         /\ db'.rec[Len(db.rec) + 1] =
              [profile |-> Subject(w), version |-> BoundVersion(w),
               generation |-> NewPointer(w).generation, policy |-> job[w].policy]
<1>0. pc[w] = "write" /\ db \in Docs /\ db.rec \in Seq(RecDoc)
  BY AtTransaction, DocFields DEF Commit
<1>. DEFINE new == [profile |-> Subject(w), version |-> BoundVersion(w),
                    generation |-> NewPointer(w).generation, policy |-> job[w].policy]
<1>1. NewRecs(w) = <<new>>
  BY DEF NewRecs
<1>2. db'.rec = db.rec \o NewRecs(w)
  BY DEF Commit
<1>3. NewPointer(w).rec = Len(db.rec) + 1
  BY DEF NewPointer
<1>. HIDE DEF new
<1>4. Len(db.rec) + 1 \in DOMAIN db'.rec /\ db'.rec[Len(db.rec) + 1] = new
  BY <1>0, <1>1, <1>2
<1>. QED
  BY <1>3, <1>4 DEF new

-----------------------------------------------------------------------------
(* The graphs a commit leaves *)

\* The graph of another profile is left sound: no document of it is touched, and the new
\* revision belongs to another recommendation.
LEMMA CommitElsewhere ==
  ASSUME Typed, Consistent, NEW w \in Worker, Commit(w),
         NEW p \in DOMAIN db'.pointer, p # Subject(w)
  PROVE  Bound(db', p)
<1>. DEFINE ptr == db.pointer[p]
<1>1. p \in DOMAIN db.pointer /\ db'.pointer[p] = ptr /\ db'.profile[p] = db.profile[p]
  BY CommitPlaces
<1>2. Bound(db, p)
  BY <1>1 DEF Consistent
<1>3. /\ ptr.rec \in DOMAIN db.rec /\ ptr.alloc \in DOMAIN db.alloc
      /\ db'.rec[ptr.rec] = db.rec[ptr.rec] /\ db'.alloc[ptr.alloc] = db.alloc[ptr.alloc]
  BY <1>2, CommitDocs DEF Bound, GraphSound
<1>4. NewPointer(w).rec # ptr.rec
  <2>1. CASE job[w].kind = "rebalance"
    <3>1. /\ pc[w] = "write" /\ ~Conflicts(w)
      BY DEF Commit
    <3>2. /\ NewPointer(w).rec = db.pointer[job[w].target].rec /\ Subject(w) = job[w].target
          /\ job[w].target \in DOMAIN db.pointer
      <4>1. db.pointer[job[w].target] = snap[w].pointer[job[w].target]
        BY <2>1, <3>1, NothingLost
      <4>2. db.pointer \in Seq(PointerDoc) /\ job[w].target \in 1 .. Len(db.pointer)
        BY <2>1, <3>1, AtTransaction, DocFields
      <4>. QED
        BY <2>1, <4>1, <4>2 DEF NewPointer, OldPointer, Subject
    <3>3. db.rec[db.pointer[job[w].target].rec].profile = job[w].target
      BY <3>2 DEF Consistent, Bound, GraphSound
    <3>. QED
      BY <1>2, <3>2, <3>3 DEF Bound, GraphSound
  <2>2. CASE job[w].kind # "rebalance"
    <3>1. NewPointer(w).rec = Len(db.rec) + 1
      BY <2>2, CommitNewRec
    <3>2. ptr.rec \in 1 .. Len(db.rec) /\ Len(db.rec) \in Nat
      BY <1>3, CommitDocs
    <3>. QED
      BY <3>1, <3>2
  <2>. QED
    BY <2>1, <2>2
<1>5. Revisions(db', ptr.rec) = Revisions(db, ptr.rec)
  <2>1. NewAlloc(w).rec = NewPointer(w).rec
    BY DEF NewAlloc
  <2>. QED
    BY <1>1, <1>4, <2>1, CommitDocs DEF Revisions
<1>6. \A b \in Revisions(db, ptr.rec) : db'.alloc[b] = db.alloc[b]
  BY CommitDocs DEF Revisions
<1>7. Newest(db', p)
  BY <1>1, <1>2, <1>5, <1>6 DEF Bound, Newest
<1>8. Latest(db', ptr.rec) = Latest(db, ptr.rec)
  BY <1>5, <1>6, SMTT(30) DEF Latest
<1>9. AuditBinds(db', ptr.alloc)
  <2>1. AuditBinds(db, ptr.alloc)
    BY <1>2 DEF Bound, GraphSound
  <2>. QED
    <3>1. \A a \in DOMAIN db.alloc : a \in DOMAIN db'.alloc /\ db'.alloc[a] = db.alloc[a]
      BY CommitDocs
    <3>2. \A i \in DOMAIN db.audit : i \in DOMAIN db'.audit /\ db'.audit[i] = db.audit[i]
      BY CommitDocs
    <3>. QED
      BY <1>3, <2>1, <3>1, <3>2 DEF AuditBinds
<1>10. ptr.rec \in DOMAIN db'.rec /\ ptr.alloc \in DOMAIN db'.alloc
  BY <1>3, CommitDocs
<1>11. GraphSound(db', p)
  <2>1. GraphSound(db, p)
    BY <1>2 DEF Bound
  <2>. QED
    BY <1>1, <1>3, <1>8, <1>9, <1>10, <2>1 DEF GraphSound
<1>. QED
  BY <1>1, <1>2, <1>7, <1>11 DEF Bound

\* The version the new pointer is bound to is the version the commit leaves the profile with.
LEMMA CommitVersion ==
  ASSUME Typed, Consistent, NEW w \in Worker, Commit(w)
  PROVE  NewPointer(w).version = NewProfile(w).version /\ NewPointer(w).version = BoundVersion(w)
<1>0. pc[w] = "write"
  BY DEF Commit
<1>1. NewPointer(w).version = BoundVersion(w)
  BY DEF NewPointer
<1>2. CASE job[w].kind = "complete"
  BY <1>1, <1>2 DEF BoundVersion, NewProfile
<1>3. CASE job[w].kind # "complete"
  <2>1. snap[w].profile[job[w].target] \in ProfileDoc
    BY <1>0, <1>3, AtTransaction, DocFields
  <2>2. job[w].kind # "rebalance" => snap[w].profile[job[w].target].version = job[w].profile.version
    BY <1>0, <1>3, AtTransaction DEF Typed, Situated
  <2>. QED
    BY <1>0, <1>1, <1>3, <2>1, <2>2, AtTransaction DEF BoundVersion, NewProfile, ProfileDoc
<1>. QED
  BY <1>2, <1>3

\* A new recommendation has one revision, and the pointer names it.
LEMMA CommitFirstRevision ==
  ASSUME Typed, Consistent, NEW w \in Worker, Commit(w), job[w].kind # "rebalance"
  PROVE  Bound(db', Subject(w))
<1>. DEFINE p == Subject(w)
            r == Len(db.rec) + 1
            a == Len(db.alloc) + 1
<1>0. r \in Nat /\ a \in Nat /\ a \in DOMAIN db'.alloc
  BY CommitDocs
<1>1. /\ db'.pointer[p] = NewPointer(w) /\ db'.profile[p] = NewProfile(w)
      /\ NewPointer(w).rec = r /\ NewPointer(w).alloc = a /\ NewPointer(w).revision = 1
  BY CommitPlaces, CommitNewRec DEF NewPointer
<1>2. /\ r \in DOMAIN db'.rec /\ db'.rec[r].profile = p /\ db'.rec[r].version = BoundVersion(w)
      /\ db'.rec[r].generation = NewPointer(w).generation
  <2>1. /\ r \in DOMAIN db'.rec
        /\ db'.rec[r] = [profile |-> Subject(w), version |-> BoundVersion(w),
                         generation |-> NewPointer(w).generation, policy |-> job[w].policy]
    BY CommitNewRec
  <2>. QED
    BY <2>1
<1>3. /\ db'.alloc[a].rec = r /\ db'.alloc[a].revision = 1 /\ db'.alloc[a].audit = 0
      /\ db'.alloc[a].version = BoundVersion(w)
  <2>1. db'.alloc[a] = NewAlloc(w)
    BY CommitDocs
  <2>2. /\ NewAlloc(w).rec = NewPointer(w).rec /\ NewAlloc(w).revision = NewPointer(w).revision
        /\ NewAlloc(w).audit = 0 /\ NewAlloc(w).version = BoundVersion(w)
    BY DEF NewAlloc
  <2>. QED
    BY <1>1, <2>1, <2>2
<1>4. Revisions(db', r) = {a}
  <2>1. \A b \in DOMAIN db.alloc : db'.alloc[b].rec # r
    BY CommitDocs DEF Consistent, Owned
  <2>2. \A b \in DOMAIN db'.alloc : b = a \/ b \in DOMAIN db.alloc
    BY CommitDocs
  <2>. QED
    BY <1>0, <1>3, <2>1, <2>2 DEF Revisions
<1>5. Newest(db', p)
  BY <1>1, <1>4 DEF Newest
<1>6. Latest(db', r) = a
  <2>1. db' \in Docs
    BY Committed
  <2>. QED
    BY <1>0, <1>4, <2>1, NewestIsLatest
<1>7. AuditBinds(db', a)
  BY <1>3 DEF AuditBinds
<1>. QED
  BY <1>0, <1>1, <1>2, <1>3, <1>5, <1>6, <1>7, CommitVersion DEF Bound, GraphSound

\* A rebalance finds the pointer as its snapshot shows it, and moves it to the next revision.
LEMMA CommitNextRevision ==
  ASSUME Typed, Consistent, NEW w \in Worker, Commit(w), job[w].kind = "rebalance"
  PROVE  Bound(db', Subject(w))
<1>. DEFINE p == job[w].target
            old == db.pointer[p]
            a == Len(db.alloc) + 1
            i == Len(db.audit) + 1
<1>0. /\ pc[w] = "write" /\ ~Conflicts(w) /\ db' \in Docs /\ db \in Docs
      /\ p \in DOMAIN db.pointer /\ Subject(w) = p
  <2>1. pc[w] = "write" /\ ~Conflicts(w)
    BY DEF Commit
  <2>2. p \in 1 .. Len(db.pointer) /\ db.pointer \in Seq(PointerDoc) /\ db \in Docs
    BY <2>1, AtTransaction, DocFields
  <2>. QED
    BY <2>1, <2>2, Committed DEF Subject
<1>1. old = OldPointer(w)
  BY <1>0, NothingLost, SMTT(30) DEF OldPointer
<1>2. /\ old.rec \in Nat /\ old.revision \in Nat /\ old.alloc \in DOMAIN db.alloc
      /\ Bound(db, p) /\ old.rec \in DOMAIN db.rec
  <2>1. Bound(db, p)
    BY <1>0 DEF Consistent
  <2>2. db.pointer \in Seq(PointerDoc)
    BY <1>0, DocFields
  <2>3. old \in PointerDoc
    BY <1>0, <2>2
  <2>. QED
    BY <2>1, <2>3 DEF Bound, GraphSound, PointerDoc
<1>3. /\ NewPointer(w).rec = old.rec /\ NewPointer(w).alloc = a
      /\ NewPointer(w).revision = old.revision + 1 /\ NewPointer(w).generation = old.generation
  BY <1>1 DEF NewPointer
<1>4. /\ NewAlloc(w).rec = old.rec /\ NewAlloc(w).revision = old.revision + 1
      /\ NewAlloc(w).previous = old.alloc /\ NewAlloc(w).audit = i
      /\ NewAlloc(w).version = BoundVersion(w)
  BY <1>1, <1>3 DEF NewAlloc
<1>5. /\ db'.pointer[p] = NewPointer(w) /\ db'.profile[p] = NewProfile(w)
      /\ db'.alloc[a] = NewAlloc(w) /\ a \in DOMAIN db'.alloc /\ a \notin DOMAIN db.alloc
      /\ db'.audit[i] = NewAudit(w) /\ i \in DOMAIN db'.audit
      /\ old.rec \in DOMAIN db'.rec /\ db'.rec[old.rec] = db.rec[old.rec]
      /\ i \in Nat /\ i # 0 /\ a \in Nat
  <2>1. db'.pointer[p] = NewPointer(w) /\ db'.profile[p] = NewProfile(w)
    BY <1>0, CommitPlaces
  <2>2. /\ db'.alloc[a] = NewAlloc(w) /\ a \in DOMAIN db'.alloc /\ a \notin DOMAIN db.alloc /\ a \in Nat
    BY CommitDocs
  <2>3. db'.audit[i] = NewAudit(w) /\ i \in DOMAIN db'.audit /\ i \in Nat /\ i # 0
    BY CommitDocs
  <2>4. old.rec \in DOMAIN db'.rec /\ db'.rec[old.rec] = db.rec[old.rec]
    BY <1>2, CommitDocs, SMTT(30)
  <2>. QED
    BY <2>1, <2>2, <2>3, <2>4
<1>6. \A b \in DOMAIN db.alloc : b \in DOMAIN db'.alloc /\ db'.alloc[b] = db.alloc[b]
  BY CommitDocs
<1>7. db.alloc[old.alloc].rec = old.rec /\ db.alloc[old.alloc].revision = old.revision
  BY <1>2, SMTT(30) DEF Bound, GraphSound
<1>. HIDE DEF a, i
<1>8. Newest(db', p)
  <2>1. ASSUME NEW b \in Revisions(db', old.rec), b # a
        PROVE  db'.alloc[b].revision < old.revision + 1
    <3>1. b \in DOMAIN db.alloc
      BY <2>1, CommitDocs DEF Revisions, a
    <3>2. db'.alloc[b] = db.alloc[b] /\ b \in Revisions(db, old.rec)
      BY <1>6, <3>1 DEF Revisions
    <3>3. db.alloc[b].revision \in Nat
      <4>1. db.alloc \in Seq(AllocDoc)
        BY <1>0, DocFields
      <4>2. db.alloc[b] \in AllocDoc
        BY <3>1, <4>1
      <4>. QED
        BY <4>2 DEF AllocDoc
    <3>4. b = old.alloc \/ db.alloc[b].revision < old.revision
      BY <1>2, <3>2 DEF Bound, Newest
    <3>. QED
      BY <1>2, <1>7, <3>2, <3>3, <3>4
  <2>. QED
    BY <1>3, <1>5, <2>1 DEF Newest
<1>9. Latest(db', old.rec) = a
  <2>1. a \in Revisions(db', old.rec)
    BY <1>4, <1>5 DEF Revisions
  <2>2. \A b \in Revisions(db', old.rec) : b # a => db'.alloc[b].revision < db'.alloc[a].revision
    BY <1>3, <1>4, <1>5, <1>8 DEF Newest
  <2>. QED
    BY <1>0, <1>2, <2>1, <2>2, NewestIsLatest
<1>10. AuditBinds(db', a)
  <2>1. NewAudit(w).rec = old.rec /\ NewAudit(w).alloc = a
    BY <1>3 DEF NewAudit, a
  <2>2. db'.alloc[old.alloc] = db.alloc[old.alloc] /\ old.alloc \in DOMAIN db'.alloc
    BY <1>2, <1>6
  <2>. QED
    BY <1>4, <1>5, <1>7, <2>1, <2>2 DEF AuditBinds
<1>11. BoundVersion(w) = db.rec[old.rec].version
  <2>1. BoundVersion(w) = db.profile[p].version
    BY <1>0, NothingLost, SMTT(30) DEF BoundVersion
  <2>. QED
    BY <1>2, <2>1 DEF Bound, GraphSound
<1>12. db.rec[old.rec].profile = p /\ old.generation = db.rec[old.rec].generation
  BY <1>2, SMTT(30) DEF Bound, GraphSound
<1>13. GraphSound(db', p)
  BY <1>3, <1>4, <1>5, <1>9, <1>10, <1>11, <1>12, CommitVersion DEF GraphSound
<1>. QED
  BY <1>0, <1>5, <1>8, <1>13, CommitVersion DEF Bound

\* A commit leaves every graph sound.
LEMMA CommitConsistent ==
  ASSUME Typed, Consistent, NEW w \in Worker, Commit(w)
  PROVE  Consistent'
<1>1. Owned(db')
  <2>1. \A a \in DOMAIN db'.alloc : a \in DOMAIN db.alloc \/ a = Len(db.alloc) + 1
    BY CommitDocs
  <2>2. \A a \in DOMAIN db.alloc : db'.alloc[a].rec \in DOMAIN db'.rec
    BY CommitDocs DEF Consistent, Owned
  <2>3. db'.alloc[Len(db.alloc) + 1].rec = NewPointer(w).rec
    <3>1. db'.alloc[Len(db.alloc) + 1] = NewAlloc(w)
      BY CommitDocs
    <3>. QED
      BY <3>1 DEF NewAlloc
  <2>4. NewPointer(w).rec \in DOMAIN db'.rec
    <3>1. Bound(db', Subject(w)) /\ db'.pointer[Subject(w)] = NewPointer(w)
      BY CommitFirstRevision, CommitNextRevision, CommitPlaces
    <3>. QED
      BY <3>1 DEF Bound, GraphSound
  <2>. QED
    BY <2>1, <2>2, <2>3, <2>4 DEF Owned
<1>2. \A p \in DOMAIN db'.pointer : Bound(db', p)
  BY CommitElsewhere, CommitFirstRevision, CommitNextRevision
<1>. QED
  BY <1>1, <1>2 DEF Consistent

\* A step that is not a commit leaves every document but the state alone.
LEMMA OnlyCommitWrites ==
  ASSUME Typed, [Next]_vars
  PROVE  \/ \E w \in Worker : Commit(w)
         \/ /\ db'.profile = db.profile /\ db'.pointer = db.pointer /\ db'.rec = db.rec
            /\ db'.alloc = db.alloc /\ db'.audit = db.audit
            /\ db'.state.current = db.state.current
<1>1. ASSUME NEW w \in Worker, Initialise(w)
      PROVE  /\ db'.profile = db.profile /\ db'.pointer = db.pointer /\ db'.rec = db.rec
             /\ db'.alloc = db.alloc /\ db'.audit = db.audit
             /\ db'.state.current = db.state.current
  BY <1>1 DEF Initialise, Typed, TypeOK, Docs, StateDoc
<1>2. ASSUME NEW w \in Worker, Answers(w) PROVE db' = db
  BY <1>2, AnswersReply, ZenonT(30) DEF Reply
<1>3. ASSUME NEW w \in Worker,
             \/ \E k \in Kind : Arrive(w, k)
             \/ CaptureState(w) \/ ReadState(w) \/ ReadProfile(w) \/ ReadPointer(w)
             \/ ReadLatest(w) \/ Compute(w)
             \/ Preflight(w) \/ PreflightProfile(w) \/ PreflightAgain(w) \/ Begin(w) \/ Accept(w) \/ Retry(w)
      PROVE  db' = db
  BY <1>3 DEF Arrive, CaptureState, ReadState, ReadProfile, ReadPointer, ReadLatest, Compute,
              Preflight, PreflightProfile, PreflightAgain, Begin, Accept, Retry
<1>. QED
  BY <1>1, <1>2, <1>3, Steps DEF PolicyChange, vars

\* Consistent is inductive, given the types.
LEMMA ConsistentStep == Typed /\ Consistent /\ [Next]_vars => Consistent'
<1>. SUFFICES ASSUME Typed, Consistent, [Next]_vars PROVE Consistent'
  OBVIOUS
<1>1. CASE /\ db'.profile = db.profile /\ db'.pointer = db.pointer /\ db'.rec = db.rec
           /\ db'.alloc = db.alloc /\ db'.audit = db.audit
  <2>1. \A r : Revisions(db', r) = Revisions(db, r)
    BY <1>1 DEF Revisions
  <2>2. \A r : Latest(db', r) = Latest(db, r)
    BY <1>1, <2>1 DEF Latest
  <2>3. \A a : AuditBinds(db, a) => AuditBinds(db', a)
    BY <1>1 DEF AuditBinds
  <2>4. \A p : GraphSound(db, p) => GraphSound(db', p)
    BY <1>1, <2>2, <2>3 DEF GraphSound
  <2>5. \A p : Newest(db, p) => Newest(db', p)
    BY <1>1, <2>1 DEF Newest
  <2>6. \A p \in DOMAIN db'.pointer : Bound(db', p)
    BY <1>1, <2>4, <2>5 DEF Consistent, Bound
  <2>7. Owned(db')
    BY <1>1 DEF Consistent, Owned
  <2>. QED
    BY <2>6, <2>7 DEF Consistent
<1>. QED
  BY <1>1, OnlyCommitWrites, CommitConsistent

\* Before the first profile there is nothing to be unsound.
LEMMA InitConsistent == Init => Consistent
  BY DEF Init, NoDocs, Consistent, Owned

-----------------------------------------------------------------------------
(* The theorems *)

\* verifyPersistedStateGraph finds nothing in any committed state: whatever requests run
\* concurrently, every pointer names the newest revision of its recommendation and every
\* number stored twice agrees.
THEOREM GraphsStaySound == Spec => []GraphsAreSound
<1>1. Consistent => GraphsAreSound
  BY DEF Consistent, Bound, GraphsAreSound
<1>. QED
  BY <1>1, InitTyped, TypedStep, InitConsistent, ConsistentStep, PTL DEF Spec

\* The current recommendation is always the one computed for the current version of the
\* current profile.
THEOREM CurrentStaysBound == Spec => []CurrentIsBound
<1>1. Typed /\ Consistent => CurrentIsBound
  <2>. SUFFICES ASSUME Typed, Consistent, db.state.current # 0 PROVE CurrentIsBound
    BY DEF CurrentIsBound
  <2>1. db \in Docs /\ Len(db.pointer) = Len(db.profile) /\ db.state.current \in 0 .. Len(db.profile)
    BY DEF Typed, TypeOK, Linked
  <2>2. db.state.current \in DOMAIN db.pointer
    BY <2>1, DocFields
  <2>. QED
    BY <2>2 DEF Consistent, Bound, GraphSound, CurrentIsBound
<1>. QED
  BY <1>1, InitTyped, TypedStep, InitConsistent, ConsistentStep, PTL DEF Spec

-----------------------------------------------------------------------------
(* What a request read still holds when it commits *)

\* What a request knows of its reads, and that recommendations never change once written.
Informed(w) ==
  /\ pc[w] \in {"profile"} \cup Writing /\ job[w].kind \in {"generate", "update"} =>
       job[w].state.current = job[w].target
  /\ pc[w] \in Writing /\ job[w].kind = "update" => job[w].profile.version = job[w].expected
  /\ pc[w] \in {"pointer", "latest"} => job[w].kind \in {"rebalance", "view"}
  /\ pc[w] \in Inside =>
       \A r \in DOMAIN snap[w].rec : r \in DOMAIN db.rec /\ db.rec[r] = snap[w].rec[r]
  /\ pc[w] = "write" => Holds(w)

AllInformed == \A w \in Worker : Informed(w)

\* The steps of one request.
Reads(w) ==
  \/ \E k \in Kind : Arrive(w, k)
  \/ CaptureState(w) \/ ReadState(w) \/ ReadProfile(w) \/ ReadPointer(w)
  \/ ReadLatest(w) \/ Compute(w) \/ Initialise(w) \/ Begin(w)
Settles(w) ==
  \/ Preflight(w) \/ PreflightProfile(w) \/ PreflightAgain(w)
  \/ Accept(w) \/ Retry(w) \/ Commit(w)

\* A step is a step of one request and leaves what the others know alone.
LEMMA OneMoves ==
  ASSUME Typed, [Next]_vars, NEW v \in Worker
  PROVE  \/ Reads(v) \/ Settles(v) \/ Answers(v)
         \/ pc'[v] = pc[v] /\ job'[v] = job[v] /\ snap'[v] = snap[v]
<1>0. pc \in [Worker -> Place] /\ job \in [Worker -> Job] /\ snap \in [Worker -> Docs]
  BY SMTT(30) DEF Typed, TypeOK
<1>1. ASSUME NEW w \in Worker, w # v, Reads(w)
      PROVE  pc'[v] = pc[v] /\ job'[v] = job[v] /\ snap'[v] = snap[v]
  BY <1>0, <1>1 DEF Reads, Arrive, CaptureState, ReadState, ReadProfile, ReadPointer, ReadLatest,
                    Compute, Initialise, Begin, Goto
<1>2. ASSUME NEW w \in Worker, w # v, Settles(w)
      PROVE  pc'[v] = pc[v] /\ job'[v] = job[v] /\ snap'[v] = snap[v]
  BY <1>0, <1>2 DEF Settles, Preflight, PreflightProfile, PreflightAgain, Accept, Retry, Commit, Goto
<1>3. ASSUME NEW w \in Worker, w # v, Answers(w)
      PROVE  pc'[v] = pc[v] /\ job'[v] = job[v] /\ snap'[v] = snap[v]
  BY <1>0, <1>3, AnswersReply, ZenonT(30) DEF Reply, Goto
<1>4. \/ \E w \in Worker : Reads(w) \/ Settles(w) \/ Answers(w)
      \/ pc' = pc /\ job' = job /\ snap' = snap
  BY Steps DEF Reads, Settles, PolicyChange, vars
<1>. QED
  BY <1>1, <1>2, <1>3, <1>4

\* A recommendation is never changed.
LEMMA RecsKept ==
  ASSUME Typed, [Next]_vars
  PROVE  \A r \in DOMAIN db.rec : r \in DOMAIN db'.rec /\ db'.rec[r] = db.rec[r]
  BY OnlyCommitWrites, CommitDocs

\* The reads of a request keep Informed for it.
LEMMA ReadsInformed ==
  ASSUME Typed, NEW w \in Worker, Informed(w), Reads(w)
  PROVE  Informed(w)'
<1>0. job[w] \in Job /\ pc \in [Worker -> Place] /\ job \in [Worker -> Job] /\ snap \in [Worker -> Docs]
  BY DEF Typed, TypeOK
<1>1. ASSUME NEW k \in Kind, Arrive(w, k) PROVE Informed(w)'
  BY <1>0, <1>1 DEF Arrive, Goto, Informed, Writing, Inside
<1>2. CASE CaptureState(w)
  <2>1. job'[w].kind = "complete" /\ pc'[w] \in {"initialise", "compute"}
    BY <1>0, <1>2 DEF CaptureState, Goto, Job
  <2>. QED
    BY <2>1 DEF Informed, Inside
<1>3. CASE Initialise(w)
  <2>1. job[w].kind = "complete"
    BY <1>3 DEF Initialise, Typed, Situated
  <2>2. job'[w].kind = "complete" /\ pc'[w] = "compute"
    BY <1>0, <1>3, <2>1 DEF Initialise, Goto, Job
  <2>. QED
    BY <2>2 DEF Informed, Inside
<1>4. CASE ReadState(w)
  <2>1. pc'[w] = "profile" /\ job'[w].state.current = job'[w].target
    BY <1>0, <1>4 DEF ReadState, Goto, Job
  <2>. QED
    BY <2>1 DEF Informed, Writing, Inside
<1>5. CASE ReadProfile(w)
  <2>1. /\ job'[w].kind = job[w].kind /\ job'[w].state = job[w].state
        /\ job'[w].target = job[w].target /\ job'[w].expected = job[w].expected
        /\ pc[w] = "profile"
        /\ job[w].kind = "update" => job'[w].profile.version = job[w].expected
        /\ IF job[w].kind \in {"rebalance", "view"} THEN pc'[w] = "pointer" ELSE pc'[w] = "compute"
    BY <1>0, <1>5 DEF ReadProfile, Goto, Job
  <2>. QED
    BY <2>1 DEF Informed, Writing, Inside
<1>6. CASE ReadPointer(w)
  <2>1. job'[w].kind = job[w].kind /\ pc'[w] = "latest" /\ pc[w] = "pointer"
    BY <1>0, <1>6 DEF ReadPointer, Goto, Job
  <2>. QED
    BY <2>1 DEF Informed, Writing, Inside
<1>7. CASE ReadLatest(w)
  <2>1. job'[w] = job[w] /\ pc'[w] = "begin" /\ pc[w] = "latest"
    BY <1>0, <1>7 DEF ReadLatest, Goto
  <2>. QED
    BY <2>1 DEF Informed, Inside
<1>8. CASE Compute(w)
  <2>1. /\ job'[w].kind = job[w].kind /\ job'[w].state = job[w].state
        /\ job'[w].target = job[w].target /\ job'[w].expected = job[w].expected
        /\ job'[w].profile = job[w].profile /\ pc'[w] = "begin" /\ pc[w] = "compute"
    BY <1>0, <1>8 DEF Compute, Goto, Job
  <2>. QED
    BY <2>1 DEF Informed, Writing, Inside
<1>9. CASE Begin(w)
  <2>1. /\ job'[w] = job[w] /\ pc'[w] = "txn" /\ pc[w] = "begin" /\ snap'[w] = db /\ db' = db
    BY <1>0, <1>9 DEF Begin, Goto
  <2>. QED
    BY <2>1 DEF Informed, Writing, Inside
<1>. QED
  BY <1>1, <1>2, <1>3, <1>4, <1>5, <1>6, <1>7, <1>8, <1>9 DEF Reads

\* Informed is inductive, given the types.
LEMMA InformedStep == Typed /\ AllInformed /\ [Next]_vars => AllInformed'
<1>. SUFFICES ASSUME Typed, AllInformed, [Next]_vars, NEW v \in Worker PROVE Informed(v)'
  BY DEF AllInformed
<1>0. Informed(v) /\ pc \in [Worker -> Place] /\ job \in [Worker -> Job]
  BY DEF AllInformed, Typed, TypeOK
<1>1. CASE Reads(v)
  BY <1>0, <1>1, ReadsInformed
<1>2. CASE Settles(v)
  <2>1. CASE Retry(v)
    <3>1. job'[v] = job[v] /\ pc'[v] = "begin" /\ pc[v] = "write"
      BY <1>0, <2>1 DEF Retry, Goto
    <3>. QED
      BY <1>0, <3>1 DEF Informed, Writing, Inside
  <2>2. CASE Accept(v)
    <3>1. /\ job'[v] = job[v] /\ snap'[v] = snap[v] /\ db' = db
          /\ pc'[v] = "write" /\ pc[v] = "txn" /\ Holds(v)
      BY <1>0, <2>2 DEF Accept, Goto
    <3>2. Holds(v)'
      BY <3>1 DEF Holds, AdvisoryHolds, RebalanceHolds
    <3>. QED
      BY <1>0, <3>1, <3>2 DEF Informed, Writing, Inside
  <2>3. CASE ~Retry(v) /\ ~Accept(v)
    <3>1. pc'[v] \in Replying
      BY <1>0, <1>2, <2>3 DEF Settles, Preflight, PreflightProfile, PreflightAgain, Commit, Goto, Replying
    <3>. QED
      BY <3>1 DEF Informed, Writing, Replying, Inside
  <2>. QED
    BY <2>1, <2>2, <2>3
<1>3. CASE Answers(v)
  <2>1. pc'[v] = "idle"
    BY <1>0, <1>3, AnswersReply DEF Reply, Goto
  <2>. QED
    BY <2>1 DEF Informed, Writing, Inside
<1>4. CASE pc'[v] = pc[v] /\ job'[v] = job[v] /\ snap'[v] = snap[v]
  <2>1. Holds(v) => Holds(v)'
    BY <1>4 DEF Holds, AdvisoryHolds, RebalanceHolds
  <2>. QED
    BY <1>0, <1>4, <2>1, RecsKept DEF Informed
<1>. QED
  BY <1>1, <1>2, <1>3, <1>4, OneMoves

\* Nobody knows anything before the first request.
LEMMA InitInformed == Init => AllInformed
  BY DEF Init, AllInformed, Informed, Writing, Inside

-----------------------------------------------------------------------------
(* The order of the policies *)

\* No recommendation rests on a policy that is still to come.
Past ==
  /\ \A w \in Worker : job[w].policy <= policy
  /\ \A r \in DOMAIN db.rec : db.rec[r].policy <= policy

\* A transaction that finds the head of the audit chain as it read it has missed no recommendation.
Tracks(w) ==
  pc[w] \in Inside =>
    /\ snap[w].head.sequence <= db.head.sequence
    /\ snap[w].head.sequence = db.head.sequence => db.rec = snap[w].rec

\* What a transaction is about to write rests on no older policy than what its snapshot holds.
Rests(w) ==
  IF job[w].kind = "rebalance" THEN snap[w].rec[snap[w].pointer[job[w].target].rec].policy
  ELSE job[w].policy
Unbeaten(w) ==
  pc[w] = "write" => \A r \in DOMAIN snap[w].rec : snap[w].rec[r].policy <= Rests(w)

Ordered == Past /\ \A w \in Worker : Tracks(w) /\ Unbeaten(w)

\* A step adds to the chain whenever it adds a recommendation.
LEMMA HeadMoves ==
  ASSUME Typed, [Next]_vars
  PROVE  \/ db'.rec = db.rec /\ db'.head = db.head
         \/ db'.head.sequence = db.head.sequence + 1
<1>1. ASSUME NEW w \in Worker, Commit(w) PROVE db'.head.sequence = db.head.sequence + 1
  <2>1. pc[w] = "write" /\ ~Conflicts(w) /\ db'.head = NewHead(w)
    BY <1>1 DEF Commit
  <2>2. db.head = snap[w].head
    BY <2>1, NothingLost
  <2>. QED
    BY <2>1, <2>2 DEF NewHead
<1>. QED
  BY <1>1, OnlyCommitWrites, OnlyCommitAudits

\* The policy in force is only ever replaced by a newer one.
LEMMA PolicyRises ==
  ASSUME Typed, [Next]_vars
  PROVE  policy \in Nat /\ policy' \in Nat /\ policy <= policy'
<1>0. policy \in Nat
  BY BoundAssumption DEF Typed, TypeOK
<1>1. ASSUME NEW w \in Worker, Reads(w) PROVE policy' = policy
  BY <1>1 DEF Reads, Arrive, CaptureState, ReadState, ReadProfile, ReadPointer, ReadLatest,
              Compute, Initialise, Begin
<1>2. ASSUME NEW w \in Worker, Settles(w) PROVE policy' = policy
  BY <1>2 DEF Settles, Preflight, PreflightProfile, PreflightAgain, Accept, Retry, Commit
<1>3. ASSUME NEW w \in Worker, Answers(w) PROVE policy' = policy
  BY <1>3, AnswersReply, ZenonT(30) DEF Reply
<1>4. CASE PolicyChange
  BY <1>0, <1>4 DEF PolicyChange
<1>5. \/ \E w \in Worker : Reads(w) \/ Settles(w) \/ Answers(w)
      \/ PolicyChange \/ UNCHANGED vars
  BY Steps DEF Reads, Settles
<1>. QED
  BY <1>0, <1>1, <1>2, <1>3, <1>4, <1>5 DEF vars

\* A request computes under the policy in force.
LEMMA JobPast ==
  ASSUME Typed, Past, [Next]_vars, NEW v \in Worker
  PROVE  job'[v].policy <= policy'
<1>0. /\ job \in [Worker -> Job] /\ job[v] \in Job /\ job[v].policy \in Nat
      /\ policy \in Nat /\ policy' \in Nat /\ policy <= policy' /\ job[v].policy <= policy
  <2>1. job \in [Worker -> Job]
    BY DEF Typed, TypeOK
  <2>. QED
    BY <2>1, JobTyped, PolicyRises, BoundAssumption DEF Past
<1>1. CASE Reads(v)
  <2>1. ASSUME NEW k \in Kind, Arrive(v, k) PROVE job'[v].policy = 0
    <3>1. \/ job'[v] = [NoJob EXCEPT !.kind = k]
          \/ job'[v] = [NoJob EXCEPT !.kind = k, !.target = db.state.current,
                                     !.expected = db.profile[db.state.current].version,
                                     !.shown = db.pointer[db.state.current]]
      BY <1>0, <2>1 DEF Arrive
    <3>. QED
      BY <3>1 DEF NoJob
  <2>2. ASSUME Compute(v) PROVE job'[v].policy = policy
    BY <1>0, <2>2 DEF Compute, Job
  <2>3. ASSUME ~Compute(v), ~\E k \in Kind : Arrive(v, k) PROVE job'[v].policy = job[v].policy
    BY <1>0, <1>1, <2>3 DEF Reads, CaptureState, ReadState, ReadProfile, ReadPointer, ReadLatest,
                            Initialise, Begin, Job
  <2>. QED
    BY <1>0, <2>1, <2>2, <2>3
<1>2. CASE Settles(v)
  <2>1. job'[v].policy = job[v].policy
    BY <1>0, <1>2 DEF Settles, Preflight, PreflightProfile, PreflightAgain, Accept, Retry, Commit, Job
  <2>. QED
    BY <1>0, <2>1
<1>3. CASE Answers(v)
  <2>1. PICK a \in Answer : Reply(v, a)
    BY <1>3, AnswersReply
  <2>2. job'[v] = [NoJob EXCEPT !.kind = job[v].kind, !.answer = a]
    BY <1>0, <2>1 DEF Reply
  <2>3. job'[v].policy = 0
    BY <2>2 DEF NoJob
  <2>. QED
    BY <1>0, <2>3
<1>4. CASE job'[v] = job[v]
  BY <1>0, <1>4
<1>. QED
  BY <1>1, <1>2, <1>3, <1>4, OneMoves

\* So do the recommendations that are committed.
LEMMA RecsPast ==
  ASSUME Typed, Past, [Next]_vars
  PROVE  \A r \in DOMAIN db'.rec : db'.rec[r].policy <= policy'
<1>0. /\ policy \in Nat /\ policy' \in Nat /\ policy <= policy' /\ db \in Docs /\ db.rec \in Seq(RecDoc)
      /\ \A r \in DOMAIN db.rec : db.rec[r].policy \in Nat /\ db.rec[r].policy <= policy
  <2>1. db \in Docs /\ db.rec \in Seq(RecDoc)
    BY DocFields DEF Typed, TypeOK
  <2>2. \A r \in DOMAIN db.rec : db.rec[r] \in RecDoc
    BY <2>1
  <2>. QED
    BY <2>1, <2>2, PolicyRises DEF Past, RecDoc
<1>1. ASSUME NEW w \in Worker, Commit(w) PROVE \A r \in DOMAIN db'.rec : db'.rec[r].policy <= policy'
  <2>1. /\ pc[w] = "write" /\ db'.rec = db.rec \o NewRecs(w) /\ policy' = policy
        /\ job[w].policy <= policy
    BY <1>1 DEF Commit, Past
  <2>2. NewRecs(w) \in Seq(RecDoc) /\ \A n \in DOMAIN NewRecs(w) : NewRecs(w)[n].policy = job[w].policy
    BY <2>1, WritesTyped DEF NewRecs
  <2>3. ASSUME NEW r \in DOMAIN db'.rec
        PROVE  \/ r \in DOMAIN db.rec /\ db'.rec[r] = db.rec[r]
               \/ \E n \in DOMAIN NewRecs(w) : db'.rec[r] = NewRecs(w)[n]
    <3>. DEFINE new == NewRecs(w)
    <3>0. new \in Seq(RecDoc) /\ db'.rec = db.rec \o new
      BY <2>1, <2>2
    <3>. HIDE DEF new
    <3>1. CASE r \in DOMAIN db.rec
      BY <1>0, <3>0, <3>1
    <3>2. CASE r \notin DOMAIN db.rec
      <4>1. r - Len(db.rec) \in DOMAIN new /\ db'.rec[r] = new[r - Len(db.rec)]
        BY <1>0, <3>0, <3>2
      <4>. QED
        BY <4>1 DEF new
    <3>. QED
      BY <3>1, <3>2
  <2>. QED
    BY <1>0, <2>1, <2>2, <2>3
<1>2. CASE db'.rec = db.rec
  BY <1>0, <1>2
<1>. QED
  BY <1>1, <1>2, OnlyCommitWrites

\* How a request comes to be inside its transaction, or stays there.
LEMMA InsideMoves ==
  ASSUME Typed, [Next]_vars, NEW v \in Worker
  PROVE  \/ Begin(v) \/ Accept(v) \/ pc'[v] \notin Inside
         \/ pc'[v] = pc[v] /\ job'[v] = job[v] /\ snap'[v] = snap[v]
<1>0. pc \in [Worker -> Place]
  BY DEF Typed, TypeOK
<1>1. ASSUME Reads(v), ~Begin(v) PROVE pc'[v] \notin Inside
  BY <1>0, <1>1 DEF Reads, Arrive, CaptureState, ReadState, ReadProfile, ReadPointer, ReadLatest,
                    Compute, Initialise, Goto, Inside
<1>2. ASSUME Settles(v), ~Accept(v) PROVE pc'[v] \notin Inside
  BY <1>0, <1>2 DEF Settles, Preflight, PreflightProfile, PreflightAgain, Retry, Commit, Goto, Inside
<1>3. ASSUME Answers(v) PROVE pc'[v] \notin Inside
  BY <1>0, <1>3, AnswersReply DEF Reply, Goto, Inside
<1>. QED
  BY <1>1, <1>2, <1>3, OneMoves

LEMMA TracksStep ==
  ASSUME Typed, [Next]_vars, NEW v \in Worker, Tracks(v)
  PROVE  Tracks(v)'
<1>0. /\ pc \in [Worker -> Place] /\ snap \in [Worker -> Docs]
      /\ db.head.sequence \in Nat /\ snap[v].head.sequence \in Nat
  BY DocFields DEF Typed, TypeOK
<1>1. CASE Begin(v)
  <2>1. snap'[v] = db /\ db' = db
    BY <1>0, <1>1 DEF Begin
  <2>. QED
    BY <1>0, <2>1 DEF Tracks
<1>2. CASE Accept(v)
  <2>1. snap'[v] = snap[v] /\ db' = db /\ pc[v] \in Inside
    BY <1>2 DEF Accept, Inside
  <2>. QED
    BY <2>1 DEF Tracks
<1>3. CASE pc'[v] \notin Inside
  BY <1>3 DEF Tracks
<1>4. CASE pc'[v] = pc[v] /\ job'[v] = job[v] /\ snap'[v] = snap[v]
  BY <1>0, <1>4, HeadMoves DEF Tracks
<1>. QED
  BY <1>1, <1>2, <1>3, <1>4, InsideMoves

\* When its checks succeed, a transaction rests on the policy in force.
LEMMA UnbeatenStep ==
  ASSUME Typed, AllInformed, Past, [Next]_vars, NEW v \in Worker, Unbeaten(v)
  PROVE  Unbeaten(v)'
<1>1. CASE Begin(v)
  <2>1. pc'[v] = "txn"
    BY <1>1 DEF Begin, Goto, Typed, TypeOK
  <2>. QED
    BY <2>1 DEF Unbeaten
<1>2. CASE Accept(v)
  <2>1. /\ snap'[v] = snap[v] /\ job'[v] = job[v] /\ pc[v] \in Inside /\ InForce(v)
    BY <1>2 DEF Accept, Inside
  <2>2. Rests(v) = policy
    BY <2>1 DEF InForce, Fresh, Rests
  <2>3. \A r \in DOMAIN snap[v].rec : snap[v].rec[r].policy <= policy
    BY <2>1 DEF AllInformed, Informed, Past
  <2>. QED
    BY <2>1, <2>2, <2>3 DEF Unbeaten, Rests
<1>3. CASE pc'[v] \notin Inside
  BY <1>3 DEF Unbeaten, Inside
<1>4. CASE pc'[v] = pc[v] /\ job'[v] = job[v] /\ snap'[v] = snap[v]
  BY <1>4 DEF Unbeaten, Rests
<1>. QED
  BY <1>1, <1>2, <1>3, <1>4, InsideMoves

\* Ordered is inductive, given the types and what the requests know.
LEMMA OrderedStep == Typed /\ AllInformed /\ Ordered /\ [Next]_vars => Ordered'
<1>. SUFFICES ASSUME Typed, AllInformed, Ordered, [Next]_vars PROVE Ordered'
  OBVIOUS
<1>1. Past'
  BY JobPast, RecsPast DEF Ordered, Past
<1>2. \A v \in Worker : Tracks(v)' /\ Unbeaten(v)'
  BY TracksStep, UnbeatenStep DEF Ordered
<1>. QED
  BY <1>1, <1>2 DEF Ordered

LEMMA InitOrdered == Init => Ordered
<1>. SUFFICES ASSUME Init PROVE Ordered
  OBVIOUS
<1>1. Past
  BY DEF Init, Past, NoDocs, NoJob
<1>2. \A w \in Worker : Tracks(w) /\ Unbeaten(w)
  BY DEF Init, Tracks, Unbeaten, Inside
<1>. QED
  BY <1>1, <1>2 DEF Ordered

-----------------------------------------------------------------------------
(* Nothing stale is committed *)

\* Only Commit takes a request from its transaction to its response.
LEMMA CommittingCommits ==
  ASSUME Typed, [Next]_vars, NEW w \in Worker, Committing(w)
  PROVE  Commit(w)
<1>0. pc \in [Worker -> Place] /\ pc[w] = "write" /\ pc'[w] = "preflight"
  BY DEF Typed, TypeOK, Committing
<1>1. ~Reads(w)
  BY <1>0 DEF Reads, Arrive, CaptureState, ReadState, ReadProfile, ReadPointer, ReadLatest,
              Compute, Initialise, Begin
<1>2. ~Answers(w)
  BY <1>0, AnswersReply DEF Reply, Goto
<1>3. Settles(w) => Commit(w)
  BY <1>0 DEF Settles, Preflight, PreflightProfile, PreflightAgain, Accept, Retry, Goto
<1>. QED
  BY <1>0, <1>1, <1>2, <1>3, OneMoves

\* The documents a request saw are the ones its commit replaces.
SawDocuments(w) ==
  LET j == job[w]  p == db.state.current  IN
  /\ j.kind # "rebalance" => j.state.current = p /\ j.state.revision = db.state.revision
  /\ j.kind # "complete" => j.target = p
  /\ j.kind \in {"generate", "update"} => j.profile.version = db.profile[p].version
  /\ j.kind = "update" => j.expected = db.profile[p].version
  /\ j.kind = "rebalance" => j.shown.alloc = db.pointer[p].alloc

LEMMA AdvisorySawCurrent ==
  ASSUME Typed, NEW w \in Worker, Informed(w), Commit(w), job[w].kind # "rebalance"
  PROVE  SawDocuments(w)
<1>0. /\ pc[w] = "write" /\ ~Conflicts(w) /\ AdvisoryHolds(w)
      /\ job[w].kind \in {"complete", "update", "generate"}
  BY AtTransaction DEF Commit, Informed, Holds
<1>1. db.state = snap[w].state
  BY <1>0, NothingLost
<1>2. job[w].state.current = db.state.current /\ job[w].state.revision = db.state.revision
  BY <1>0, <1>1 DEF AdvisoryHolds
<1>3. ASSUME job[w].kind # "complete"
      PROVE  /\ job[w].target = db.state.current
             /\ job[w].profile.version = db.profile[job[w].target].version
             /\ job[w].kind = "update" => job[w].expected = job[w].profile.version
  <2>1. job[w].state.current = job[w].target
    BY <1>0, <1>3 DEF Informed, Writing
  <2>2. job[w].profile.version = snap[w].profile[job[w].target].version
    BY <1>0, <1>3 DEF AdvisoryHolds
  <2>3. db.profile[job[w].target] = snap[w].profile[job[w].target]
    BY <1>0, <1>3, NothingLost
  <2>4. job[w].kind = "update" => job[w].expected = job[w].profile.version
    BY <1>0 DEF Informed, Writing
  <2>. QED
    BY <1>2, <2>1, <2>2, <2>3, <2>4
<1>. QED
  BY <1>0, <1>2, <1>3 DEF SawDocuments

\* What the client of a rebalance was shown is what its commit builds on.
LEMMA RebalanceSawCurrent ==
  ASSUME Typed, NEW w \in Worker, Informed(w), Commit(w), job[w].kind = "rebalance"
  PROVE  /\ SawDocuments(w)
         /\ snap[w].pointer[job[w].target].rec = job[w].shown.rec
         /\ job[w].shown.rec \in DOMAIN snap[w].rec
<1>. DEFINE p == job[w].target
            ptr == snap[w].pointer[p]
<1>0. pc[w] = "write" /\ ~Conflicts(w) /\ RebalanceHolds(w)
  BY DEF Commit, Informed, Holds
<1>1. db.state = snap[w].state /\ db.pointer[p] = ptr
  BY <1>0, NothingLost
<1>2. /\ db.state.current = p /\ ptr.rec = job[w].shown.rec /\ ptr.alloc = job[w].shown.alloc
      /\ ptr.rec \in DOMAIN snap[w].rec
  BY <1>0, <1>1 DEF RebalanceHolds, GraphSound
<1>. QED
  BY <1>1, <1>2 DEF SawDocuments

\* What is committed rests on no older policy than what was committed before it.
LEMMA CommitsInOrder ==
  ASSUME Typed, Ordered, NEW w \in Worker, Informed(w), Commit(w)
  PROVE  \A r \in DOMAIN db.rec : db.rec[r].policy <= RestsOn(w)
<1>0. pc[w] = "write" /\ ~Conflicts(w) /\ pc[w] \in Inside
  BY DEF Commit, Inside
<1>1. db.head = snap[w].head
  BY <1>0, NothingLost
<1>2. db.rec = snap[w].rec
  BY <1>0, <1>1 DEF Ordered, Tracks
<1>3. \A r \in DOMAIN snap[w].rec : snap[w].rec[r].policy <= Rests(w)
  BY <1>0 DEF Ordered, Unbeaten
<1>4. Rests(w) = RestsOn(w)
  <2>1. CASE job[w].kind = "rebalance"
    BY <1>2, <2>1, RebalanceSawCurrent DEF Rests, RestsOn
  <2>2. CASE job[w].kind # "rebalance"
    BY <2>2 DEF Rests, RestsOn
  <2>. QED
    BY <2>1, <2>2
<1>. QED
  BY <1>2, <1>3, <1>4

\* No update is lost, nothing is built on a profile or an allocation that was replaced
\* meanwhile, and nothing rests on an older policy than what is committed already, however
\* many requests interleave and however often the policy changes under their transactions.
THEOREM NothingStaleCommits == Spec => NoStaleCommit
<1>1. Typed /\ AllInformed /\ Ordered /\ [Next]_vars
      => [\A w \in Worker : Committing(w) => SawCurrent(w)]_vars
  <2>. SUFFICES ASSUME Typed, AllInformed, Ordered, [Next]_vars, NEW w \in Worker, Committing(w)
                PROVE  SawCurrent(w)
    OBVIOUS
  <2>1. Commit(w) /\ Informed(w)
    BY CommittingCommits DEF AllInformed
  <2>2. SawDocuments(w)
    BY <2>1, AdvisorySawCurrent, RebalanceSawCurrent
  <2>. QED
    BY <2>1, <2>2, CommitsInOrder DEF SawCurrent, SawDocuments
<1>. QED
  BY <1>1, InitTyped, TypedStep, InitInformed, InformedStep, InitOrdered, OrderedStep, PTL
  DEF Spec, NoStaleCommit

-----------------------------------------------------------------------------
(* The answers to committed changes *)

\* What a request has made is there, and its profile points to it or to something later.
Made(d, made) ==
  /\ made.profile \in DOMAIN d.pointer /\ made.rec \in DOMAIN d.rec
  /\ \/ d.pointer[made.profile].rec = made.rec
     \/ d.rec[d.pointer[made.profile].rec].generation > d.rec[made.rec].generation

\* A request that has an answer to give knows what it made, and gives no answer of disorder.
Accounts(w) ==
  /\ pc[w] \in Replying /\ job[w].kind # "rebalance" => Made(db, job[w].made)
  /\ job[w].answer \notin {"broken", "order_invalid"}

\* The generations of recommendations are numbers, and a pointer has that of its recommendation.
LEMMA Generations ==
  ASSUME Typed, Consistent
  PROVE  /\ \A r \in DOMAIN db.rec : db.rec[r].generation \in Nat
         /\ \A p \in DOMAIN db.pointer :
              /\ db.pointer[p].rec \in DOMAIN db.rec
              /\ db.pointer[p].generation = db.rec[db.pointer[p].rec].generation
<1>1. db.rec \in Seq(RecDoc)
  BY DocFields DEF Typed, TypeOK
<1>2. \A r \in DOMAIN db.rec : db.rec[r] \in RecDoc
  BY <1>1
<1>. QED
  BY <1>2, ZenonT(30) DEF RecDoc, Consistent, Bound, GraphSound

\* The subject of a commit keeps its recommendation, or gets one of a later generation.
LEMMA SubjectMoves ==
  ASSUME Typed, Consistent, NEW w \in Worker, Commit(w), Subject(w) \in DOMAIN db.pointer
  PROVE  LET p == Subject(w) IN
         \/ db'.pointer[p].rec = db.pointer[p].rec
         \/ /\ db'.pointer[p].rec \in DOMAIN db'.rec
            /\ db'.rec[db'.pointer[p].rec].generation > db.rec[db.pointer[p].rec].generation
<1>. DEFINE p == Subject(w)
<1>0. /\ pc[w] = "write" /\ ~Conflicts(w) /\ db \in Docs /\ db'.pointer[p] = NewPointer(w)
  BY AtTransaction, CommitPlaces DEF Commit
<1>1. job[w].kind # "complete" /\ p = job[w].target
  <2>1. db.pointer \in Seq(PointerDoc) /\ Len(db.pointer) = Len(db.profile)
    BY <1>0, AtTransaction, DocFields DEF Linked
  <2>2. Subject(w) \in 1 .. Len(db.profile)
    BY <2>1
  <2>. QED
    BY <2>1, <2>2 DEF Subject
<1>2. OldPointer(w) = db.pointer[p]
  BY <1>0, <1>1, NothingLost DEF OldPointer
<1>3. CASE job[w].kind = "rebalance"
  BY <1>0, <1>2, <1>3 DEF NewPointer
<1>4. CASE job[w].kind # "rebalance"
  <2>1. /\ NewPointer(w).rec = Len(db.rec) + 1 /\ Len(db.rec) + 1 \in DOMAIN db'.rec
        /\ db'.rec[Len(db.rec) + 1].generation = NewPointer(w).generation
    <3>1. /\ NewPointer(w).rec = Len(db.rec) + 1 /\ Len(db.rec) + 1 \in DOMAIN db'.rec
          /\ db'.rec[Len(db.rec) + 1] =
               [profile |-> Subject(w), version |-> BoundVersion(w),
                generation |-> NewPointer(w).generation, policy |-> job[w].policy]
      BY <1>4, CommitNewRec
    <3>. QED
      BY <3>1
  <2>2. NewPointer(w).generation = db.pointer[p].generation + 1
    BY <1>2, <1>4 DEF NewPointer
  <2>3. /\ db.pointer[p].generation \in Nat
        /\ db.pointer[p].generation = db.rec[db.pointer[p].rec].generation
    BY Generations
  <2>. QED
    BY <1>0, <2>1, <2>2, <2>3
<1>. QED
  BY <1>3, <1>4

\* No step undoes what was made.
LEMMA MadeStays ==
  ASSUME Typed, Consistent, [Next]_vars, NEW made, Made(db, made)
  PROVE  Made(db', made)
<1>. DEFINE p == made.profile
<1>1. made.rec \in DOMAIN db'.rec /\ db'.rec[made.rec] = db.rec[made.rec]
  BY RecsKept DEF Made
<1>2. CASE db'.pointer = db.pointer /\ db'.rec = db.rec
  BY <1>2 DEF Made
<1>3. ASSUME NEW w \in Worker, Commit(w) PROVE Made(db', made)
  <2>1. p \in DOMAIN db'.pointer
    <3>1. /\ db.pointer \in Seq(PointerDoc) /\ db'.pointer \in Seq(PointerDoc)
          /\ Len(db.pointer) = Len(db.profile) /\ Len(db'.pointer) = Len(db'.profile)
          /\ Len(db'.profile) >= Len(db.profile)
      BY <1>3, Committed, DocFields DEF Typed, TypeOK, Linked
    <3>. QED
      BY <3>1 DEF Made
  <2>2. db.pointer[p].rec \in DOMAIN db.rec
    BY Generations DEF Made
  <2>3. db'.rec[db.pointer[p].rec] = db.rec[db.pointer[p].rec]
    BY <2>2, RecsKept
  <2>4. CASE db'.pointer[p].rec = db.pointer[p].rec
    BY <1>1, <2>1, <2>3, <2>4 DEF Made
  <2>5. CASE db'.pointer[p].rec # db.pointer[p].rec
    <3>1. p = Subject(w)
      BY <1>3, <2>1, <2>5, CommitPlaces
    <3>2. db'.rec[db'.pointer[p].rec].generation > db.rec[db.pointer[p].rec].generation
      BY <1>3, <2>5, <3>1, SubjectMoves DEF Made
    <3>3. db.rec[db.pointer[p].rec].generation \in Nat /\ db.rec[made.rec].generation \in Nat
      BY <2>2, Generations DEF Made
    <3>4. db.rec[db.pointer[p].rec].generation >= db.rec[made.rec].generation
      BY <3>3 DEF Made
    <3>5. db'.rec[db'.pointer[p].rec].generation \in Nat
      <4>1. Consistent'
        BY <1>3, CommitConsistent
      <4>2. Typed'
        BY <1>3, CommitTyped
      <4>3. Bound(db', p) /\ db'.rec \in Seq(RecDoc)
        BY <2>1, <4>1, <4>2, DocFields DEF Consistent, Typed, TypeOK
      <4>4. db'.pointer[p].rec \in DOMAIN db'.rec
        BY <4>3, ZenonT(30) DEF Bound, GraphSound
      <4>5. db'.rec[db'.pointer[p].rec] \in RecDoc
        BY <4>3, <4>4
      <4>. QED
        BY <4>5 DEF RecDoc
    <3>. QED
      BY <1>1, <2>1, <3>2, <3>3, <3>4, <3>5 DEF Made
  <2>. QED
    BY <2>4, <2>5
<1>. QED
  BY <1>2, <1>3, OnlyCommitWrites

\* A commit leaves what the request says it made.
LEMMA CommitMakes ==
  ASSUME Typed, Consistent, NEW w \in Worker, Commit(w)
  PROVE  Made(db', job'[w].made) /\ job'[w].answer = job[w].answer /\ job'[w].kind = job[w].kind
<1>1. job[w] \in Job /\ job \in [Worker -> Job]
  BY DEF Typed, TypeOK
<1>2. job'[w].made = [profile |-> Subject(w), rec |-> NewPointer(w).rec, alloc |-> NewPointer(w).alloc]
  BY <1>1 DEF Commit, Job
<1>3. job'[w].answer = job[w].answer /\ job'[w].kind = job[w].kind
  BY <1>1 DEF Commit, Job
<1>4. Subject(w) \in DOMAIN db'.pointer /\ db'.pointer[Subject(w)] = NewPointer(w)
  BY CommitPlaces
<1>5. NewPointer(w).rec \in DOMAIN db'.rec
  BY <1>4, CommitConsistent DEF Consistent, Bound, GraphSound
<1>. QED
  BY <1>2, <1>3, <1>4, <1>5 DEF Made

\* The answers that are not put together from the state after a commit.
LEMMA OtherAnswers ==
  ASSUME NEW w \in Worker, Answers(w), ~Reconcile(w)
  PROVE  \E a \in Answer \ {"broken", "order_invalid"} : Reply(w, a)
<1>1. CASE AnswerFromReads(w)
  <2>1. Verdict(w) \in Answer \ {"broken", "order_invalid"}
    BY <1>1 DEF AnswerFromReads, Verdict, Answer
  <2>. QED
    BY <1>1, <2>1 DEF AnswerFromReads
<1>2. CASE ~AnswerFromReads(w)
  BY <1>2 DEF Answers, InitialiseRefused, ReadOtherProfile, ReadNewerProfile, ComputeFails,
              Refused, TransactionFails, GiveUp, Crash, Answer
<1>. QED
  BY <1>1, <1>2

\* The state is sound and its order is that of the commits when a response is put together.
LEMMA ReconcileAnswers ==
  ASSUME Typed, Consistent, NEW w \in Worker, Accounts(w), Reconcile(w)
  PROVE  \E a \in Answer \ {"broken", "order_invalid"} : Reply(w, a)
<1>. DEFINE p == db.state.current
<1>1. p \in DOMAIN db.pointer /\ pc[w] \in Replying
  <2>1. p # 0 /\ pc[w] \in Replying
    BY DEF Reconcile, Typed, Situated, Replying
  <2>2. /\ db.pointer \in Seq(PointerDoc) /\ Len(db.pointer) = Len(db.profile)
        /\ p \in 0 .. Len(db.profile) /\ Len(db.pointer) \in Nat
    BY DocFields DEF Typed, TypeOK, Linked
  <2>. QED
    BY <2>1, <2>2
<1>2. GraphSound(db, p)
  BY <1>1 DEF Consistent, Bound
<1>3. OrderValid(w)
  BY <1>1 DEF Accounts, Made, OrderValid
<1>4. \/ Reply(w, "unverified") \/ Reply(w, "done") \/ Reply(w, "superseded")
  BY <1>2, <1>3 DEF Reconcile
<1>. QED
  BY <1>4 DEF Answer

\* The account a request can give stays true.
LEMMA AccountsStep ==
  ASSUME Typed, Consistent, \A w \in Worker : Accounts(w), [Next]_vars, NEW v \in Worker
  PROVE  Accounts(v)'
<1>0. job \in [Worker -> Job] /\ pc \in [Worker -> Place] /\ Accounts(v) /\ job[v] \in Job
  BY DEF Typed, TypeOK
<1>1. CASE Reads(v)
  <2>1. pc'[v] \notin Replying
    BY <1>0, <1>1 DEF Reads, Arrive, CaptureState, ReadState, ReadProfile, ReadPointer, ReadLatest,
                      Compute, Initialise, Begin, Goto, Replying
  <2>2. job'[v].answer \in {"none", job[v].answer}
    <3>1. ASSUME NEW k \in Kind, Arrive(v, k) PROVE job'[v].answer = "none"
      <4>1. \/ job'[v] = [NoJob EXCEPT !.kind = k]
            \/ job'[v] = [NoJob EXCEPT !.kind = k, !.target = db.state.current,
                                       !.expected = db.profile[db.state.current].version,
                                       !.shown = db.pointer[db.state.current]]
        BY <1>0, <3>1 DEF Arrive
      <4>. QED
        BY <4>1 DEF NoJob
    <3>2. ASSUME ~\E k \in Kind : Arrive(v, k) PROVE job'[v].answer = job[v].answer
      BY <1>0, <1>1, <3>2 DEF Reads, CaptureState, ReadState, ReadProfile, ReadPointer, ReadLatest,
                              Compute, Initialise, Begin, Job
    <3>. QED
      BY <3>1, <3>2
  <2>. QED
    BY <1>0, <2>1, <2>2 DEF Accounts
<1>2. CASE Settles(v)
  <2>1. CASE Commit(v)
    BY <1>0, <2>1, CommitMakes DEF Accounts
  <2>2. CASE ~Commit(v)
    <3>1. /\ job'[v].answer = job[v].answer /\ job'[v].kind = job[v].kind /\ job'[v].made = job[v].made
          /\ pc'[v] \in Replying => pc[v] \in Replying
      BY <1>0, <1>2, <2>2 DEF Settles, Preflight, PreflightProfile, PreflightAgain, Accept, Retry, Goto,
                             Job, Replying
    <3>. QED
      BY <1>0, <3>1, MadeStays DEF Accounts
  <2>. QED
    BY <2>1, <2>2
<1>3. CASE Answers(v)
  <2>1. PICK a \in Answer \ {"broken", "order_invalid"} : Reply(v, a)
    BY <1>0, <1>3, OtherAnswers, ReconcileAnswers
  <2>2. pc'[v] = "idle" /\ job'[v] = [NoJob EXCEPT !.kind = job[v].kind, !.answer = a]
    BY <1>0, <2>1 DEF Reply, Goto
  <2>3. job'[v].answer = a
    BY <2>2 DEF NoJob
  <2>. QED
    BY <2>1, <2>2, <2>3 DEF Accounts, Replying
<1>4. CASE pc'[v] = pc[v] /\ job'[v] = job[v] /\ snap'[v] = snap[v]
  BY <1>0, <1>4, MadeStays DEF Accounts
<1>. QED
  BY <1>1, <1>2, <1>3, <1>4, OneMoves

\* However many changes commit before its response is put together, a change that committed is
\* reported neither as corrupt nor as out of order.
THEOREM AnswersVerify == Spec => []CommittedAnswersVerify
<1>1. Init => \A w \in Worker : Accounts(w)
  BY DEF Init, Accounts, Replying, NoJob
<1>2. Typed /\ Consistent /\ (\A w \in Worker : Accounts(w)) /\ [Next]_vars => (\A w \in Worker : Accounts(w))'
  BY AccountsStep
<1>3. (\A w \in Worker : Accounts(w)) => CommittedAnswersVerify
  BY DEF Accounts, CommittedAnswersVerify
<1>. QED
  BY <1>1, <1>2, <1>3, InitTyped, TypedStep, InitConsistent, ConsistentStep, PTL DEF Spec

-----------------------------------------------------------------------------
(* The ledger *)

\* What the ledger sees of profile p, and of all profiles.
Book(d, p) ==
  [version |-> d.profile[p].version, generation |-> d.pointer[p].generation, revision |-> d.pointer[p].revision]
Books(d) == [p \in DOMAIN d.profile |-> Book(d, p)]

\* A step of the ledger, of the operation it names.
Posts(op, old, new) ==
  CASE op = "complete"  -> new = [version |-> 1, generation |-> 1, revision |-> 1]
    [] op = "update"    -> new = [version |-> old.version + 1, generation |-> old.generation + 1, revision |-> 1]
    [] op = "generate"  -> new = [version |-> old.version, generation |-> old.generation + 1, revision |-> 1]
    [] op = "rebalance" -> new = [version |-> old.version, generation |-> old.generation, revision |-> old.revision + 1]

\* The books are a sequence with a book for every profile.
LEMMA BooksSeq ==
  ASSUME NEW d \in Docs
  PROVE  /\ Books(d) \in Seq({Book(d, p) : p \in DOMAIN d.profile})
         /\ Len(Books(d)) = Len(d.profile) /\ DOMAIN Books(d) = 1 .. Len(d.profile)
<1>1. d.profile \in Seq(ProfileDoc)
  BY DocFields
<1>2. DOMAIN d.profile = 1 .. Len(d.profile) /\ Len(d.profile) \in Nat
  BY <1>1
<1>. QED
  BY <1>2 DEF Books

\* The places of the books are those of the profiles.
LEMMA BooksPlaces ==
  ASSUME NEW d \in Docs
  PROVE  /\ DOMAIN Books(d) = 1 .. Len(d.profile) /\ Len(d.profile) \in Nat
         /\ Len(Books(d)) = Len(d.profile)
<1>1. Len(d.profile) \in Nat
  BY DocFields
<1>. QED
  BY <1>1, BooksSeq

\* Appending to a sequence keeps its places and fills the next one.
LEMMA AppendAt ==
  ASSUME NEW S, NEW q \in Seq(S), NEW e
  PROVE  Append(q, e) = [k \in 1 .. Len(q) + 1 |-> IF k = Len(q) + 1 THEN e ELSE q[k]]
<1>. DEFINE T == S \cup {e}
<1>1. q \in Seq(T) /\ e \in T /\ Len(q) \in Nat
  OBVIOUS
<1>. HIDE DEF T
<1>. DEFINE a == Append(q, e)
<1>2. /\ a \in Seq(T) /\ Len(a) = Len(q) + 1
      /\ \A k \in 1 .. Len(q) + 1 : a[k] = IF k = Len(q) + 1 THEN e ELSE q[k]
  BY <1>1
<1>. HIDE DEF a
<1>3. a \in [1 .. Len(a) -> T]
  BY <1>2
<1>. QED
  BY <1>1, <1>2, <1>3 DEF a

\* The books grow by an entry after their last.
LEMMA BooksAppend ==
  ASSUME NEW d \in Docs, NEW e
  PROVE  Append(Books(d), e) =
           [k \in 1 .. Len(d.profile) + 1 |-> IF k = Len(d.profile) + 1 THEN e ELSE Books(d)[k]]
<1>. DEFINE b == Books(d)
            S == {Book(d, p) : p \in DOMAIN d.profile}
<1>1. b \in Seq(S) /\ Len(b) = Len(d.profile)
  BY BooksSeq
<1>. HIDE DEF b, S
<1>2. Append(b, e) = [k \in 1 .. Len(b) + 1 |-> IF k = Len(b) + 1 THEN e ELSE b[k]]
  BY <1>1, AppendAt
<1>. QED
  BY <1>1, <1>2 DEF b

\* What a commit leaves in the book of its subject.
LEMMA CommitPosts ==
  ASSUME Typed, NEW w \in Worker, Commit(w)
  PROVE  Posts(job[w].kind, Book(db, Subject(w)), Book(db', Subject(w)))
<1>. DEFINE p == Subject(w)
<1>0. /\ pc[w] = "write" /\ ~Conflicts(w) /\ db \in Docs
      /\ job[w].kind \in {"complete", "update", "generate", "rebalance"}
      /\ db'.profile[p] = NewProfile(w) /\ db'.pointer[p] = NewPointer(w)
  BY AtTransaction, CommitPlaces DEF Commit
<1>1. Book(db', p) = [version |-> NewProfile(w).version, generation |-> NewPointer(w).generation,
                      revision |-> NewPointer(w).revision]
  BY <1>0 DEF Book
<1>2. CASE job[w].kind = "complete"
  <2>1. NewProfile(w).version = 1 /\ NewPointer(w).revision = 1
    BY <1>2 DEF NewProfile, NewPointer
  <2>2. NewPointer(w).generation = 1
    BY <1>2 DEF NewPointer, OldPointer, NoPointer
  <2>. QED
    BY <1>1, <1>2, <2>1, <2>2 DEF Posts
<1>3. CASE job[w].kind # "complete"
  <2>1. /\ p = job[w].target /\ db.profile[p] = snap[w].profile[p] /\ db.pointer[p] = snap[w].pointer[p]
    BY <1>0, <1>3, NothingLost DEF Subject
  <2>2. db.profile[p] \in ProfileDoc /\ db.pointer[p] \in PointerDoc
    BY <1>0, <1>3, <2>1, AtTransaction, DocFields
  <2>3. OldPointer(w) = db.pointer[p]
    BY <1>3, <2>1 DEF OldPointer
  <2>4. CASE job[w].kind = "update"
    <3>1. NewProfile(w).version = db.profile[p].version + 1
      BY <2>1, <2>2, <2>4 DEF NewProfile, ProfileDoc
    <3>2. NewPointer(w).generation = db.pointer[p].generation + 1 /\ NewPointer(w).revision = 1
      BY <2>3, <2>4 DEF NewPointer
    <3>. QED
      BY <1>1, <2>4, <3>1, <3>2 DEF Posts, Book
  <2>5. CASE job[w].kind \in {"generate", "rebalance"}
    <3>1. NewProfile(w).version = db.profile[p].version
      BY <2>1, <2>2, <2>5 DEF NewProfile, ProfileDoc
    <3>2. CASE job[w].kind = "generate"
      <4>1. NewPointer(w).generation = db.pointer[p].generation + 1 /\ NewPointer(w).revision = 1
        BY <2>3, <3>2 DEF NewPointer
      <4>. QED
        BY <1>1, <3>1, <3>2, <4>1 DEF Posts, Book
    <3>3. CASE job[w].kind = "rebalance"
      <4>1. /\ NewPointer(w).generation = db.pointer[p].generation
            /\ NewPointer(w).revision = db.pointer[p].revision + 1
        BY <2>3, <3>3 DEF NewPointer
      <4>. QED
        BY <1>1, <3>1, <3>3, <4>1 DEF Posts, Book
    <3>. QED
      BY <2>5, <3>2, <3>3
  <2>. QED
    BY <1>0, <1>3, <2>4, <2>5
<1>. QED
  BY <1>2, <1>3

\* A completed profile gets the next book; any other commit changes the book of the current profile.
LEMMA CommitBooks ==
  ASSUME Typed, NEW w \in Worker, Commit(w)
  PROVE  /\ job[w].kind = "complete" =>
              /\ Books(db') = Append(Books(db), Book(db', Subject(w)))
              /\ db'.state.current = Len(Books(db)) + 1
         /\ job[w].kind # "complete" =>
              Books(db') = [Books(db) EXCEPT ![Subject(w)] = Book(db', Subject(w))]
<1>. DEFINE p == Subject(w)
            n == Len(db.profile)
<1>0. /\ pc[w] = "write" /\ db \in Docs /\ db' \in Docs /\ db'.state = NewState(w)
      /\ db.profile \in Seq(ProfileDoc) /\ n \in Nat /\ p \in 1 .. n + 1
  <2>1. pc[w] = "write" /\ db' \in Docs /\ db'.state = NewState(w)
    BY Committed DEF Commit
  <2>2. db \in Docs /\ p \in 1 .. n + 1
    BY <2>1, AtTransaction, WritesTyped
  <2>3. db.profile \in Seq(ProfileDoc) /\ n \in Nat
    BY <2>2, DocFields
  <2>. QED
    BY <2>1, <2>2, <2>3
<1>1. /\ DOMAIN Books(db) = 1 .. n /\ Len(Books(db)) = n
      /\ DOMAIN Books(db') = 1 .. Len(db'.profile)
  BY <1>0, BooksSeq
<1>2. /\ Len(db'.profile) = IF p = n + 1 THEN n + 1 ELSE n
      /\ \A q \in 1 .. n : q # p => db'.profile[q] = db.profile[q]
  <2>. DEFINE old == db.profile
  <2>1. db'.profile = Put(old, p, NewProfile(w)) /\ NewProfile(w) \in ProfileDoc
    BY <1>0, WritesTyped DEF Commit
  <2>2. old \in Seq(ProfileDoc) /\ p \in 1 .. Len(old) + 1
    BY <1>0
  <2>. HIDE DEF old, p
  <2>3. /\ Len(Put(old, p, NewProfile(w))) = IF p = Len(old) + 1 THEN Len(old) + 1 ELSE Len(old)
        /\ \A q \in 1 .. Len(old) : q # p => Put(old, p, NewProfile(w))[q] = old[q]
    BY <2>1, <2>2, PutSeq
  <2>. QED
    BY <2>1, <2>3 DEF old
<1>3. \A q \in 1 .. Len(db'.profile) : q # p => Book(db', q) = Book(db, q) /\ q \in 1 .. n
  <2>1. DOMAIN db'.pointer = 1 .. Len(db'.profile)
    BY <1>0, Committed, DocFields DEF Linked
  <2>2. \A q \in 1 .. Len(db'.profile) : q # p => db'.pointer[q] = db.pointer[q]
    BY <2>1, CommitPlaces
  <2>. QED
    BY <1>0, <1>2, <2>2 DEF Book
<1>4. \A q \in 1 .. Len(db'.profile) : Books(db')[q] = Book(db', q)
  BY <1>0 DEF Books
<1>5. \A q \in 1 .. n : Books(db)[q] = Book(db, q)
  BY <1>0 DEF Books
<1>6. Books(db') = [q \in 1 .. Len(db'.profile) |-> Book(db', q)]
  BY <1>0, <1>1 DEF Books
<1>7. ASSUME job[w].kind = "complete"
      PROVE  /\ Books(db') = Append(Books(db), Book(db', p))
             /\ db'.state.current = Len(Books(db)) + 1
  <2>1. p = n + 1 /\ Len(db'.profile) = n + 1
    BY <1>2, <1>7 DEF Subject
  <2>2. db'.state.current = n + 1
    BY <1>0, <1>7, <2>1 DEF NewState
  <2>3. Append(Books(db), Book(db', p)) =
          [q \in 1 .. n + 1 |-> IF q = n + 1 THEN Book(db', p) ELSE Books(db)[q]]
    BY <1>0, BooksAppend
  <2>4. \A q \in 1 .. n + 1 : Book(db', q) = IF q = n + 1 THEN Book(db', p) ELSE Books(db)[q]
    BY <1>0, <1>3, <1>5, <2>1
  <2>. QED
    BY <1>1, <1>6, <2>1, <2>2, <2>3, <2>4
<1>8. ASSUME job[w].kind # "complete"
      PROVE  Books(db') = [Books(db) EXCEPT ![p] = Book(db', p)]
  <2>1. p \in 1 .. n
    BY <1>0, <1>8, AtTransaction DEF Subject
  <2>2. Len(db'.profile) = n
    BY <1>0, <1>2, <2>1
  <2>3. \A q \in 1 .. n : Book(db', q) = IF q = p THEN Book(db', p) ELSE Books(db)[q]
    BY <1>3, <1>5, <2>2
  <2>4. [Books(db) EXCEPT ![p] = Book(db', p)] =
          [q \in 1 .. n |-> IF q = p THEN Book(db', p) ELSE Books(db)[q]]
    BY <1>1
  <2>. QED
    BY <1>6, <2>2, <2>3, <2>4
<1>. QED
  BY <1>7, <1>8

\* A commit is one of the four operations of the ledger, with its entry.
LEMMA CommitIsEntered ==
  ASSUME Typed, NEW w \in Worker, Informed(w), Commit(w)
  PROVE  Ledger!LNext
<1>. DEFINE p == Subject(w)
<1>0. /\ pc[w] = "write" /\ ~Conflicts(w) /\ db \in Docs /\ db' \in Docs /\ db'.state = NewState(w)
      /\ job[w].kind \in {"complete", "update", "generate", "rebalance"}
  BY AtTransaction, Committed DEF Commit
<1>1. Len(db'.audit) = Len(db.audit) + 1
  <2>1. db.audit \in Seq(AuditDoc) /\ db'.audit = Append(db.audit, NewAudit(w))
    BY <1>0, DocFields DEF Commit
  <2>. QED
    BY <2>1
<1>2. CASE job[w].kind = "complete"
  <2>1. Books(db') = Append(Books(db), Book(db', p)) /\ db'.state.current = Len(Books(db)) + 1
    BY <1>2, CommitBooks
  <2>2. Book(db', p) = [version |-> 1, generation |-> 1, revision |-> 1]
    BY <1>2, CommitPosts DEF Posts
  <2>. QED
    BY <1>1, <2>1, <2>2 DEF Ledger!LNext, Ledger!Promote, Ledger!NewBook, Books, Book
<1>3. CASE job[w].kind # "complete"
  <2>1. p = db.state.current /\ p # 0 /\ p \in DOMAIN Books(db)
    <3>1. SawDocuments(w)
      BY AdvisorySawCurrent, RebalanceSawCurrent
    <3>2. p \in 1 .. Len(db.profile) /\ p = db.state.current
      BY <1>0, <1>3, <3>1, AtTransaction DEF SawDocuments, Subject
    <3>3. DOMAIN Books(db) = 1 .. Len(db.profile) /\ Len(db.profile) \in Nat
      BY <1>0, BooksPlaces
    <3>. QED
      BY <1>0, <3>2, <3>3
  <2>2. Books(db') = [Books(db) EXCEPT ![p] = Book(db', p)]
    BY <1>3, CommitBooks
  <2>3. Books(db)[p] = Book(db, p)
    BY <2>1 DEF Books
  <2>4. db'.state.current = db.state.current
    BY <1>0, <1>3, <2>1, NothingLost, DocFields DEF NewState, StateDoc
  <2>5. Posts(job[w].kind, Book(db, p), Book(db', p))
    BY CommitPosts
  <2>6. CASE job[w].kind = "update"
    <3>1. Books(db') = [Books(db) EXCEPT ![p] =
             [version |-> @.version + 1, generation |-> @.generation + 1, revision |-> 1]]
      BY <2>1, <2>2, <2>3, <2>5, <2>6 DEF Posts
    <3>. QED
      BY <1>1, <2>1, <2>4, <3>1 DEF Ledger!LNext, Ledger!Edit, Books, Book
  <2>7. CASE job[w].kind = "generate"
    <3>1. Books(db') = [Books(db) EXCEPT ![p].generation = @ + 1, ![p].revision = 1]
      BY <2>1, <2>2, <2>3, <2>5, <2>7 DEF Posts, Book
    <3>. QED
      BY <1>1, <2>1, <2>4, <3>1 DEF Ledger!LNext, Ledger!Regenerate, Books, Book
  <2>8. CASE job[w].kind = "rebalance"
    <3>1. Books(db') = [Books(db) EXCEPT ![p].revision = @ + 1]
      BY <2>1, <2>2, <2>3, <2>5, <2>8 DEF Posts, Book
    <3>. QED
      BY <1>1, <2>1, <2>4, <3>1 DEF Ledger!LNext, Ledger!Rebalance, Books, Book
  <2>. QED
    BY <1>0, <1>3, <2>6, <2>7, <2>8
<1>. QED
  BY <1>2, <1>3

\* Snapshot transactions with fences behave like the four serial operations of the ledger,
\* each with one entry, for any number of concurrent requests.
THEOREM LedgerIsImplemented == Spec => ImplementsLedger
<1>1. Init => Ledger!LInit
  BY DEF Init, NoDocs, NoState, Ledger!LInit
<1>2. Typed /\ AllInformed /\ [Next]_vars => [Ledger!LNext]_(Ledger!lvars)
  <2>. SUFFICES ASSUME Typed, AllInformed, [Next]_vars PROVE [Ledger!LNext]_(Ledger!lvars)
    OBVIOUS
  <2>1. ASSUME NEW w \in Worker, Commit(w) PROVE Ledger!LNext
    BY <2>1, CommitIsEntered DEF AllInformed
  <2>2. CASE /\ db'.profile = db.profile /\ db'.pointer = db.pointer /\ db'.audit = db.audit
             /\ db'.state.current = db.state.current
    BY <2>2 DEF Ledger!lvars
  <2>. QED
    BY <2>1, <2>2, OnlyCommitWrites
<1>. QED
  BY <1>1, <1>2, InitTyped, TypedStep, InitInformed, InformedStep, PTL DEF Spec, ImplementsLedger, Ledger!LSpec
=============================================================================
