------------------------- MODULE PlanReviewProofs -------------------------
(***************************************************************************)
(* Proofs about the queue of plan reviews, for any number of clients,      *)
(* workers, reviews, mandates, attempts and provider calls: one review is  *)
(* active, each ends once, its stream of events tells how, its budget      *)
(* holds, and a worker that lost its run writes nothing.                   *)
(***************************************************************************)
EXTENDS PlanReviewRun, FiniteSetTheorems, TLAPS

-----------------------------------------------------------------------------
(* The invariant.                                                          *)

\* The workers that may be about to make a call for run r.
Pending(r) == {w \in Worker : pc[w] = "call" /\ mem[w].run = r}

\* The events e of a run a: each number is taken once, only authorization events follow a
\* terminal one, and a run that waits or has ended has told so.
StreamIsTold(a, e) ==
  /\ IsFiniteSet(e)
  /\ {i.seq : i \in e} = 1 .. a.seq
  /\ Cardinality(e) = a.seq
  /\ \A i, j \in e : i.seq = j.seq => i = j
  /\ \A i \in e : i.type \in Ended => a.status = i.type /\ \A j \in e : j.seq > i.seq => j.type \in Note
  /\ a.status = "WAITING_FOR_APPROVAL" => \E i \in e : i.type = "WAITING"
  /\ a.status \in Ended => \E i \in e : i.type \in {a.status, "WAITING"}

\* What a run that was not admitted, one without a checkpoint and one in the queue are like.
RunIsKept(a) ==
  /\ a.status = "NONE" => a = NoRun
  /\ ~a.saved => a.calls = 0
  /\ a.status = "QUEUED" => a.attempt < MaxAttempts

\* Each call made or about to be made was reserved.
CallsReserved ==
  \A r \in RunId :
    /\ IsFiniteSet(Pending(r))
    /\ spent[r] + Cardinality(Pending(r)) <= runs[r].calls

\* What a worker at place p with memory m knows of its run a: its generation was the last when
\* it claimed, and as long as it is, the counters are its own.
Knows(p, m, a) ==
  /\ m.gen <= a.gen
  /\ a.status # "NONE"
  /\ a.status = "RUNNING" /\ a.gen = m.gen => a.attempt = m.attempt /\ a.calls = m.calls
  /\ p \in {"event", "model", "call", "finish", "publish"} => a.saved

WorkersKnow ==
  \A w \in Worker :
    /\ pc[w] = "idle" <=> mem[w].run = 0
    /\ mem[w].run # 0 => Knows(pc[w], mem[w], runs[mem[w].run])

\* No two workers claimed the same generation of a run.
GenerationsDiffer ==
  \A v, w \in Worker : v # w /\ mem[v].run # 0 /\ mem[v].run = mem[w].run => mem[v].gen # mem[w].gen

-----------------------------------------------------------------------------
(* What a step can do to a run a and its events x, which become b and y.   *)

Kept(a, b) == b.gen = a.gen /\ b.attempt = a.attempt /\ b.snap = a.snap /\ (a.saved => b.saved)

\* The run counts an event of this type.
Tells(a, b, x, y, type) == b.seq = a.seq + 1 /\ y = x \cup {[seq |-> a.seq + 1, type |-> type]}
Silent(a, b, x, y) == b.seq = a.seq /\ y = x

\* The status stays: a lease, a due time, a checkpoint, a mandate.
Touch(a, b, x, y) ==
  Kept(a, b) /\ a.status \in Active /\ b.status = a.status /\ b.calls = a.calls /\ Silent(a, b, x, y)

Progress(a, b, x, y) ==
  Kept(a, b) /\ a.status = "RUNNING" /\ b.status = "RUNNING" /\ b.calls = a.calls /\ Tells(a, b, x, y, "PROGRESS")

Pay(a, b, x, y) ==
  /\ Kept(a, b) /\ a.status = "RUNNING" /\ b.status = "RUNNING" /\ a.saved /\ b.calls = a.calls + 1
  /\ Silent(a, b, x, y)

Start(a, b, x, y) ==
  /\ a.status \in {"QUEUED", "RUNNING"} /\ b.status = "RUNNING" /\ a.attempt < MaxAttempts
  /\ b.gen = a.gen + 1 /\ b.attempt = a.attempt + 1 /\ b.snap = a.snap /\ b.saved = a.saved /\ b.calls = a.calls
  /\ Silent(a, b, x, y)

Queue(a, b, x, y) ==
  /\ Kept(a, b) /\ a.status = "RUNNING" /\ b.status = "QUEUED" /\ a.attempt < MaxAttempts
  /\ b.calls = a.calls /\ Tells(a, b, x, y, "RETRY")

Wait(a, b, x, y) ==
  /\ Kept(a, b) /\ a.status = "RUNNING" /\ b.status = "WAITING_FOR_APPROVAL"
  /\ b.calls = a.calls /\ Tells(a, b, x, y, "WAITING")

End(a, b, x, y) ==
  /\ Kept(a, b) /\ a.status \in Active /\ b.status \in Ended
  /\ a.status = "RUNNING" \/ b.status \in {"CANCELLED", "SUPERSEDED"}
  /\ b.calls = a.calls /\ Tells(a, b, x, y, b.status)

\* The user or a mandate closes a review that waits.
Close(a, b, x, y) ==
  /\ Kept(a, b) /\ a.status = "WAITING_FOR_APPROVAL" /\ b.status \in {"COMPLETED", "FAILED", "CANCELLED"}
  /\ b.calls = a.calls /\ Silent(a, b, x, y)

\* A number is taken for an authorization event, whatever the run's status is.
Noted(a, b, x, y) ==
  /\ Kept(a, b) /\ a.status # "NONE" /\ b.status = a.status /\ b.calls = a.calls
  /\ Tells(a, b, x, y, "TAKEN")

\* The event of such a number is created.
Fill(a, b, x, y) ==
  b = a /\ \E n \in x : n.type = "TAKEN" /\ y = (x \ {n}) \cup {[n EXCEPT !.type = "AUTHORIZATION"]}

Move(a, b, x, y) ==
  \/ Touch(a, b, x, y) \/ Progress(a, b, x, y) \/ Pay(a, b, x, y) \/ Start(a, b, x, y) \/ Queue(a, b, x, y)
  \/ Wait(a, b, x, y) \/ End(a, b, x, y) \/ Close(a, b, x, y)
  \/ Noted(a, b, x, y) \/ Fill(a, b, x, y)

\* A step moves run r and leaves the others alone.
Moves(r) ==
  /\ runs' \in [RunId -> Run] /\ events' \in [RunId -> SUBSET Event]
  /\ Move(runs[r], runs'[r], events[r], events'[r])
  /\ \A q \in RunId \ {r} : runs'[q] = runs[q] /\ events'[q] = events[q]

\* One more event.
LEMMA EventAdded ==
  ASSUME NEW a \in Run, NEW b \in Run, NEW x \in SUBSET Event, NEW y, NEW type,
         StreamIsTold(a, x), Tells(a, b, x, y, type),
         type \in Ended => a.status \notin Ended /\ type = b.status,
         a.status \in Ended => type \in Note /\ b.status = a.status,
         b.status = "WAITING_FOR_APPROVAL" => a.status = b.status \/ type = "WAITING",
         b.status \in Ended => a.status = b.status \/ type = b.status
  PROVE  StreamIsTold(b, y)
<1>. DEFINE i == [seq |-> a.seq + 1, type |-> type]
<1>1. a.seq \in Nat /\ b.seq = a.seq + 1 /\ y = x \cup {i}
  BY DEF Run, Tells
<1>2. i \notin x
  <2>1. \A e \in x : e.seq \in 1 .. a.seq
    BY DEF StreamIsTold
  <2>. QED
    BY <1>1, <2>1
<1>3. IsFiniteSet(y) /\ Cardinality(y) = a.seq + 1
  <2>1. IsFiniteSet(x) /\ Cardinality(x) = a.seq
    BY DEF StreamIsTold
  <2>. QED
    BY <1>1, <1>2, <2>1, FS_AddElement
<1>4. {e.seq : e \in y} = 1 .. b.seq
  <2>1. {e.seq : e \in y} = {e.seq : e \in x} \cup {a.seq + 1}
    <3>1. i.seq = a.seq + 1
      OBVIOUS
    <3>. HIDE DEF i
    <3>. QED
      BY <1>1, <3>1
  <2>. QED
    BY <1>1, <2>1 DEF StreamIsTold
<1>5. i \in y /\ i.seq = a.seq + 1 /\ i.type = type /\ \A e \in y : e \in x \/ e = i
  BY <1>1
<1>6. \A e \in x : e \in y /\ e.seq \in Nat /\ e.seq <= a.seq
  <2>1. \A e \in x : e.seq \in 1 .. a.seq
    BY DEF StreamIsTold
  <2>. QED
    BY <1>1, <2>1
<1>. HIDE DEF i
<1>7. \A e, f \in y : e.seq = f.seq => e = f
  BY <1>1, <1>5, <1>6 DEF StreamIsTold
<1>8. \A e \in y : e.type \in Ended => b.status = e.type /\ \A f \in y : f.seq > e.seq => f.type \in Note
  BY <1>1, <1>5, <1>6 DEF StreamIsTold
<1>9. b.status = "WAITING_FOR_APPROVAL" => \E e \in y : e.type = "WAITING"
  BY <1>5, <1>6 DEF StreamIsTold
<1>10. b.status \in Ended => \E e \in y : e.type \in {b.status, "WAITING"}
  BY <1>5, <1>6 DEF StreamIsTold
<1>. QED
  BY <1>1, <1>3, <1>4, <1>7, <1>8, <1>9, <1>10 DEF StreamIsTold

\* An event is created for its number.
LEMMA EventFilled ==
  ASSUME NEW a \in Run, NEW x \in SUBSET Event, NEW y, StreamIsTold(a, x), Fill(a, a, x, y)
  PROVE  StreamIsTold(a, y)
<1>1. PICK n \in x : n.type = "TAKEN" /\ y = (x \ {n}) \cup {[n EXCEPT !.type = "AUTHORIZATION"]}
  BY DEF Fill
<1>. DEFINE i == [n EXCEPT !.type = "AUTHORIZATION"]
<1>2. i.seq = n.seq /\ i.type = "AUTHORIZATION" /\ i # n
  BY <1>1 DEF Event
<1>3. y = (x \ {n}) \cup {i}
  BY <1>1
<1>. HIDE DEF i
<1>4. i \notin x
  BY <1>1, <1>2 DEF StreamIsTold
<1>5. IsFiniteSet(y) /\ Cardinality(y) = a.seq
  <2>1. IsFiniteSet(x \ {n}) /\ Cardinality(x \ {n}) = a.seq - 1
    BY FS_RemoveElement DEF StreamIsTold
  <2>2. a.seq \in Nat /\ i \notin x \ {n}
    BY <1>4 DEF Run
  <2>. QED
    BY <1>3, <2>1, <2>2, FS_AddElement
<1>6. {e.seq : e \in y} = {e.seq : e \in x}
  BY <1>2, <1>3
<1>7. \A e, f \in y : e.seq = f.seq => e = f
  BY <1>2, <1>3 DEF StreamIsTold
<1>8. \A e \in y : \E f \in x : e.seq = f.seq /\ (e = f \/ (e.type = "AUTHORIZATION" /\ f.type = "TAKEN"))
  BY <1>1, <1>2, <1>3
<1>9. \A e \in x : e.type \notin Note => e \in y
  BY <1>1, <1>3 DEF Note
<1>10. \A e \in y : e.type \in Ended => e \in x
  BY <1>2, <1>3 DEF Ended
<1>11. \A e \in y : e.type \in Ended => a.status = e.type /\ \A f \in y : f.seq > e.seq => f.type \in Note
  BY <1>8, <1>10 DEF StreamIsTold, Note
<1>12. /\ a.status = "WAITING_FOR_APPROVAL" => \E e \in y : e.type = "WAITING"
       /\ a.status \in Ended => \E e \in y : e.type \in {a.status, "WAITING"}
  BY <1>9 DEF StreamIsTold, Ended, Note
<1>. QED
  BY <1>5, <1>6, <1>7, <1>11, <1>12 DEF StreamIsTold

\* A run that moves keeps its stream of events and its fields in order.
LEMMA MoveKeeps ==
  ASSUME NEW a \in Run, NEW b \in Run, NEW x \in SUBSET Event, NEW y, Move(a, b, x, y),
         StreamIsTold(a, x), RunIsKept(a)
  PROVE  StreamIsTold(b, y) /\ RunIsKept(b)
<1>1. CASE Touch(a, b, x, y) \/ Pay(a, b, x, y) \/ Start(a, b, x, y)
  <2>1. b.seq = a.seq /\ y = x
    BY <1>1 DEF Touch, Pay, Start, Silent
  <2>2. b.status = a.status \/ (b.status = "RUNNING" /\ a.status = "QUEUED")
    BY <1>1 DEF Touch, Pay, Start
  <2>3. StreamIsTold(b, y)
    BY <2>1, <2>2 DEF StreamIsTold, Ended
  <2>4. RunIsKept(b)
    BY <1>1 DEF Touch, Pay, Start, Kept, RunIsKept, Active
  <2>. QED
    BY <2>3, <2>4
<1>2. CASE Progress(a, b, x, y) \/ Queue(a, b, x, y) \/ Wait(a, b, x, y) \/ End(a, b, x, y) \/ Noted(a, b, x, y)
  <2>1. PICK type : /\ Tells(a, b, x, y, type)
                    /\ type \in Ended => a.status \notin Ended /\ type = b.status
                    /\ a.status \in Ended => type \in Note /\ b.status = a.status
                    /\ b.status = "WAITING_FOR_APPROVAL" => a.status = b.status \/ type = "WAITING"
                    /\ b.status \in Ended => a.status = b.status \/ type = b.status
    BY <1>2 DEF Progress, Queue, Wait, End, Noted, Ended, Active, Note
  <2>2. StreamIsTold(b, y)
    BY <2>1, EventAdded
  <2>3. RunIsKept(b)
    BY <1>2 DEF Progress, Queue, Wait, End, Noted, Kept, RunIsKept, Active, Ended
  <2>. QED
    BY <2>2, <2>3
<1>3. CASE Close(a, b, x, y)
  <2>1. StreamIsTold(b, y)
    BY <1>3 DEF Close, Silent, StreamIsTold, Ended
  <2>2. RunIsKept(b)
    BY <1>3 DEF Close, Kept, RunIsKept
  <2>. QED
    BY <2>1, <2>2
<1>4. CASE Fill(a, b, x, y)
  BY <1>4, EventFilled DEF Fill
<1>. QED
  BY <1>1, <1>2, <1>3, <1>4 DEF Move

\* What a worker knows of a run outlives the moves of others, and its own.
LEMMA KnowsLater ==
  ASSUME NEW a \in Run, NEW b \in Run, NEW x, NEW y, Move(a, b, x, y), NEW p, NEW m \in Memory,
         Knows(p, m, a), Pay(a, b, x, y) => a.gen # m.gen
  PROVE  Knows(p, m, b)
<1>1. a.gen \in Nat /\ b.gen \in Nat /\ m.gen \in Nat
  BY DEF Run, Memory
<1>2. a.gen <= b.gen /\ b.status # "NONE" /\ (a.saved => b.saved)
  BY <1>1 DEF Move, Touch, Progress, Pay, Start, Queue, Wait, End, Close, Noted, Fill, Kept, Active, Ended, Knows
<1>3. b.status = "RUNNING" /\ b.gen = m.gen => a.status = "RUNNING" /\ a.gen = m.gen
  BY <1>1 DEF Move, Touch, Progress, Pay, Start, Queue, Wait, End, Close, Noted, Fill, Kept, Ended, Knows
<1>4. b.status = "RUNNING" /\ b.gen = m.gen => b.attempt = a.attempt /\ b.calls = a.calls
  BY <1>1, <1>3 DEF Move, Touch, Progress, Pay, Start, Queue, Wait, End, Close, Noted, Fill, Kept, Ended, Knows
<1>. QED
  BY <1>1, <1>2, <1>3, <1>4 DEF Knows

\* A move makes no review active that was not.
LEMMA MoveIsActive ==
  ASSUME NEW a, NEW b, NEW x, NEW y, Move(a, b, x, y)
  PROVE  b.status \in Active => a.status \in Active
  BY DEF Move, Touch, Progress, Pay, Start, Queue, Wait, End, Close, Noted, Fill, Active, Ended

\* The invariants of the runs alone.
RunsSound ==
  /\ runs \in [RunId -> Run] /\ events \in [RunId -> SUBSET Event]
  /\ OneActiveReview
  /\ \A r \in RunId : StreamIsTold(runs[r], events[r]) /\ RunIsKept(runs[r])

LEMMA MovesSound ==
  ASSUME RunsSound, NEW r \in RunId, Moves(r)
  PROVE  RunsSound'
<1>. DEFINE a == runs[r]
            b == runs'[r]
            x == events[r]
            y == events'[r]
<1>1. a \in Run /\ b \in Run /\ x \in SUBSET Event /\ Move(a, b, x, y)
  BY DEF Moves, RunsSound
<1>2. StreamIsTold(b, y) /\ RunIsKept(b)
  BY <1>1, MoveKeeps DEF RunsSound
<1>3. b.status \in Active => a.status \in Active
  BY <1>1, MoveIsActive
<1>4. \A q \in RunId : runs'[q].status \in Active => runs[q].status \in Active
  BY <1>3 DEF Moves
<1>5. OneActiveReview'
  BY <1>4 DEF RunsSound, OneActiveReview
<1>6. \A q \in RunId : StreamIsTold(runs'[q], events'[q]) /\ RunIsKept(runs'[q])
  BY <1>2 DEF Moves, RunsSound
<1>. QED
  BY <1>5, <1>6 DEF Moves, RunsSound

-----------------------------------------------------------------------------
(* What workers know.                                                      *)

Place == {"idle", "load", "note", "event", "model", "call", "finish", "publish", "fail"}

WorkersSound ==
  /\ pc \in [Worker -> Place] /\ mem \in [Worker -> Memory]
  /\ WorkersKnow /\ GenerationsDiffer

\* What worker v knows stays true.
Stays(v) == mem[v].run # 0 => Knows(pc[v], mem[v], runs'[mem[v].run])

\* A worker that is idle has no run.
LEMMA IdleTyped == Idle \in Memory /\ Idle.run = 0
  BY BoundsAssumption DEF Idle, Memory

\* Workers are sound after a step of worker w to place p.
LEMMA WorkerMoves ==
  ASSUME WorkersSound, NEW w \in Worker, NEW p \in Place, NEW m \in Memory, Goes(w, p, m),
         p # "idle" => /\ m.run # 0 /\ Knows(p, m, runs'[m.run])
                       /\ \A v \in Worker \ {w} : mem[v].run = m.run => mem[v].gen # m.gen,
         \A v \in Worker \ {w} : Stays(v)
  PROVE  WorkersSound'
<1>. DEFINE n == IF p = "idle" THEN Idle ELSE m
<1>1. n \in Memory /\ (p = "idle" <=> n.run = 0) /\ (n.run # 0 => n = m)
  BY IdleTyped
<1>. HIDE DEF n
<1>2. pc' = [pc EXCEPT ![w] = p] /\ mem' = [mem EXCEPT ![w] = n]
  BY DEF Goes, n
<1>3. pc \in [Worker -> Place] /\ mem \in [Worker -> Memory]
  BY DEF WorkersSound
<1>4. pc' \in [Worker -> Place] /\ mem' \in [Worker -> Memory] /\ pc'[w] = p /\ mem'[w] = n
  BY <1>1, <1>2, <1>3
<1>5. \A v \in Worker \ {w} : pc'[v] = pc[v] /\ mem'[v] = mem[v]
  BY <1>2, <1>3
<1>6. WorkersKnow'
  <2>. SUFFICES ASSUME NEW v \in Worker
                PROVE  /\ pc'[v] = "idle" <=> mem'[v].run = 0
                       /\ mem'[v].run # 0 => Knows(pc'[v], mem'[v], runs'[mem'[v].run])
    BY DEF WorkersKnow
  <2>1. CASE v = w
    BY <1>1, <1>4, <2>1
  <2>2. CASE v # w
    <3>1. pc'[v] = pc[v] /\ mem'[v] = mem[v] /\ Stays(v)
      BY <1>5, <2>2
    <3>2. pc[v] = "idle" <=> mem[v].run = 0
      BY DEF WorkersSound, WorkersKnow
    <3>. QED
      BY <3>1, <3>2 DEF Stays
  <2>. QED
    BY <2>1, <2>2
<1>7. GenerationsDiffer'
  <2>. SUFFICES ASSUME NEW u \in Worker, NEW v \in Worker, u # v, mem'[u].run # 0, mem'[u].run = mem'[v].run
                PROVE  mem'[u].gen # mem'[v].gen
    BY DEF GenerationsDiffer
  <2>1. CASE u = w
    BY <1>1, <1>4, <1>5, <2>1
  <2>2. CASE v = w
    BY <1>1, <1>4, <1>5, <2>2
  <2>3. CASE u # w /\ v # w
    BY <1>5, <2>3 DEF WorkersSound, GenerationsDiffer
  <2>. QED
    BY <2>1, <2>2, <2>3
<1>. QED
  BY <1>4, <1>6, <1>7 DEF WorkersSound

\* What the other workers know outlives the move of a run, if its payer is another.
LEMMA MovesStay ==
  ASSUME RunsSound, WorkersSound, NEW r \in RunId, Moves(r), NEW v \in Worker,
         Pay(runs[r], runs'[r], events[r], events'[r]) => mem[v].run # r \/ mem[v].gen # runs[r].gen
  PROVE  Stays(v)
<1>. SUFFICES ASSUME mem[v].run # 0
              PROVE  Knows(pc[v], mem[v], runs'[mem[v].run])
  BY DEF Stays
<1>1. mem[v] \in Memory /\ mem[v].run \in RunId /\ Knows(pc[v], mem[v], runs[mem[v].run])
  BY BoundsAssumption DEF WorkersSound, WorkersKnow, Memory, RunId
<1>2. CASE mem[v].run = r
  BY <1>1, <1>2, KnowsLater DEF Moves, RunsSound
<1>3. CASE mem[v].run # r
  BY <1>1, <1>3 DEF Moves
<1>. QED
  BY <1>2, <1>3

-----------------------------------------------------------------------------
(* The budget.                                                             *)

\* A step that starts and ends no call, and reserves none.
LEMMA NothingReserved ==
  ASSUME CallsReserved, spent' = spent, \A r \in RunId : runs'[r].calls = runs[r].calls,
         \A v \in Worker : (pc'[v] = "call" <=> pc[v] = "call") /\ (pc[v] = "call" => mem'[v].run = mem[v].run)
  PROVE  CallsReserved'
<1>1. \A r \in RunId : Pending(r)' = Pending(r)
  BY DEF Pending
<1>. QED
  BY <1>1 DEF CallsReserved

\* Worker w starts the call it has reserved.
LEMMA CallReserved ==
  ASSUME CallsReserved, runs \in [RunId -> Run], spent \in [RunId -> Nat], spent' = spent,
         pc \in [Worker -> Place], mem \in [Worker -> Memory],
         NEW w \in Worker, NEW m \in Memory, Goes(w, "call", m), pc[w] # "call",
         m.run \in RunId, runs'[m.run].calls = runs[m.run].calls + 1,
         \A q \in RunId \ {m.run} : runs'[q].calls = runs[q].calls
  PROVE  CallsReserved'
<1>. DEFINE r == m.run
<1>1. \A v \in Worker : /\ pc'[v] = IF v = w THEN "call" ELSE pc[v]
                        /\ mem'[v] = IF v = w THEN m ELSE mem[v]
  BY DEF Goes
<1>2. Pending(r)' = Pending(r) \cup {w} /\ w \notin Pending(r)
  BY <1>1 DEF Pending
<1>3. \A q \in RunId \ {r} : Pending(q)' = Pending(q)
  BY <1>1 DEF Pending
<1>4. IsFiniteSet(Pending(r)') /\ Cardinality(Pending(r)') = Cardinality(Pending(r)) + 1
  BY <1>2, FS_AddElement DEF CallsReserved
<1>5. spent[r] \in Nat /\ Cardinality(Pending(r)) \in Nat /\ runs[r].calls \in Nat
  BY FS_CardinalityType DEF CallsReserved, Run
<1>. QED
  BY <1>3, <1>4, <1>5 DEF CallsReserved

\* Worker w has made its call, or will not make it.
LEMMA CallOver ==
  ASSUME CallsReserved, runs \in [RunId -> Run], spent \in [RunId -> Nat], UNCHANGED runs,
         pc \in [Worker -> Place], mem \in [Worker -> Memory],
         NEW w \in Worker, NEW p \in Place \ {"call"}, NEW m, Goes(w, p, m), pc[w] = "call", mem[w].run \in RunId,
         spent' = spent \/ spent' = [spent EXCEPT ![mem[w].run] = @ + 1]
  PROVE  CallsReserved'
<1>0. PICK r \in RunId : r = mem[w].run
  OBVIOUS
<1>1. \A v \in Worker : pc'[v] = (IF v = w THEN p ELSE pc[v]) /\ (v # w => mem'[v] = mem[v])
  BY DEF Goes
<1>2. Pending(r)' = Pending(r) \ {w} /\ w \in Pending(r)
  BY <1>0, <1>1 DEF Pending
<1>3. \A q \in RunId \ {r} : Pending(q)' = Pending(q)
  <2>. SUFFICES ASSUME NEW q \in RunId \ {r} PROVE Pending(q)' = Pending(q)
    OBVIOUS
  <2>1. \A v \in Worker : (pc'[v] = "call" /\ mem'[v].run = q) <=> (pc[v] = "call" /\ mem[v].run = q)
    BY <1>0, <1>1
  <2>. QED
    BY <2>1 DEF Pending
<1>4. IsFiniteSet(Pending(r)') /\ Cardinality(Pending(r)') = Cardinality(Pending(r)) - 1
  BY <1>2, FS_RemoveElement DEF CallsReserved
<1>5. spent[r] \in Nat /\ Cardinality(Pending(r)) \in Nat /\ runs[r].calls \in Nat
  BY FS_CardinalityType DEF CallsReserved, Run
<1>6. spent'[r] <= spent[r] + 1 /\ spent'[r] \in Nat /\ \A q \in RunId \ {r} : spent'[q] = spent[q]
  BY <1>0, <1>5
<1>7. spent'[r] + Cardinality(Pending(r)') <= runs[r].calls
  BY <1>4, <1>5, <1>6 DEF CallsReserved
<1>8. \A q \in RunId \ {r} : IsFiniteSet(Pending(q)') /\ spent'[q] + Cardinality(Pending(q)') <= runs[q].calls
  BY <1>3, <1>6 DEF CallsReserved
<1>9. \A q \in RunId : IsFiniteSet(Pending(q)') /\ spent'[q] + Cardinality(Pending(q)') <= runs'[q].calls
  BY <1>4, <1>7, <1>8
<1>. QED
  BY <1>9 DEF CallsReserved

-----------------------------------------------------------------------------
(* The steps of the user, of timers and sweeps.                            *)

RestSound ==
  /\ spent \in [RunId -> Nat] /\ source \in 1 .. MaxChanges + 1 /\ asked \in [Client -> 0 .. MaxChanges + 1]
  /\ mandates \in [1 .. Mandates -> [status : {"none", "open"} \cup MandateEnd, run : 0 .. Runs, settled : BOOLEAN]]
  /\ binding \in 0 .. Mandates /\ sweep \in 0 .. Mandates
  /\ binding # 0 => mandates[binding].run \in RunId

Inductive == RunsSound /\ WorkersSound /\ CallsReserved /\ RestSound

\* A step moves at most one run and reserves no call.
MovesOne ==
  \/ UNCHANGED <<runs, events>>
  \/ \E r \in RunId : Moves(r) /\ runs'[r].calls = runs[r].calls

\* A step moves at most one run.
MovesSome == UNCHANGED <<runs, events>> \/ \E r \in RunId : Moves(r)

\* A run r is written.
LEMMA RunWritten ==
  ASSUME RunsSound, NEW r \in RunId, NEW b \in Run, NEW y \in SUBSET Event,
         runs' = [runs EXCEPT ![r] = b], events' = [events EXCEPT ![r] = y],
         Move(runs[r], b, events[r], y), b.calls = runs[r].calls
  PROVE  MovesOne /\ Moves(r)
<1>1. runs' \in [RunId -> Run] /\ events' \in [RunId -> SUBSET Event] /\ runs'[r] = b /\ events'[r] = y
  BY DEF RunsSound
<1>2. \A q \in RunId \ {r} : runs'[q] = runs[q] /\ events'[q] = events[q]
  BY DEF RunsSound
<1>3. Moves(r) /\ runs'[r].calls = runs[r].calls
  BY <1>1, <1>2 DEF Moves
<1>. QED
  BY <1>3 DEF MovesOne

\* What the other workers know, and the calls reserved, after such a step.
LEMMA OneStays ==
  ASSUME RunsSound, WorkersSound, MovesOne
  PROVE  /\ RunsSound' /\ \A v \in Worker : Stays(v)
         /\ \A r \in RunId : runs'[r].calls = runs[r].calls
<1>1. CASE UNCHANGED <<runs, events>>
  <2>1. \A v \in Worker : Stays(v)
    BY <1>1 DEF WorkersSound, WorkersKnow, Stays
  <2>. QED
    BY <1>1, <2>1 DEF RunsSound, OneActiveReview
<1>2. CASE \E r \in RunId : Moves(r) /\ runs'[r].calls = runs[r].calls
  <2>1. PICK r \in RunId : Moves(r) /\ runs'[r].calls = runs[r].calls
    BY <1>2
  <2>2. ~ Pay(runs[r], runs'[r], events[r], events'[r])
    BY <2>1 DEF Pay, RunsSound, Run
  <2>. QED
    BY <2>1, <2>2, MovesSound, MovesStay DEF Moves
<1>. QED
  BY <1>1, <1>2 DEF MovesOne

\* A step that moves no worker.
LEMMA SharedStep ==
  ASSUME Inductive, MovesOne, UNCHANGED <<pc, mem, spent>>, RestSound'
  PROVE  Inductive' /\ MovesSome
<1>1. RunsSound' /\ (\A v \in Worker : Stays(v)) /\ \A r \in RunId : runs'[r].calls = runs[r].calls
  BY OneStays DEF Inductive
<1>2. WorkersSound'
  BY <1>1 DEF Inductive, WorkersSound, WorkersKnow, GenerationsDiffer, Stays
<1>3. CallsReserved'
  BY <1>1, NothingReserved DEF Inductive
<1>. QED
  BY <1>1, <1>2, <1>3 DEF Inductive, MovesOne, MovesSome

\* The records that handlers write.
LEMMA OverIs ==
  ASSUME NEW a \in Run, NEW status \in Active \cup Ended
  PROVE  /\ Over(a, status) \in Run /\ Kept(a, Over(a, status)) /\ Over(a, status).status = status
         /\ Over(a, status).calls = a.calls /\ Over(a, status).seq = a.seq
  BY DEF Over, Run, Kept

LEMMA CountedIs ==
  ASSUME NEW a \in Run
  PROVE  /\ Counted(a) \in Run /\ Kept(a, Counted(a)) /\ Counted(a).status = a.status
         /\ Counted(a).calls = a.calls /\ Counted(a).seq = a.seq + 1
  BY DEF Counted, Run, Kept

\* The record of a run that ends.
LEMMA RetiredMoves ==
  ASSUME RunsSound, NEW r \in RunId, NEW status \in Ended, Retired(r, status), runs[r].status \in Active,
         runs[r].status = "RUNNING" \/ status \in {"CANCELLED", "SUPERSEDED"}
  PROVE  MovesOne
<1>. DEFINE a == runs[r]
            b == Counted(Over(a, status))
            y == Published(r, status)
<1>1. a \in Run /\ events[r] \in SUBSET Event
  BY DEF RunsSound
<1>2. /\ b \in Run /\ Kept(a, b) /\ b.status = status /\ b.calls = a.calls /\ b.seq = a.seq + 1
  <2>. DEFINE o == Over(a, status)
  <2>1. o \in Run /\ Kept(a, o) /\ o.status = status /\ o.calls = a.calls /\ o.seq = a.seq
    BY <1>1, OverIs
  <2>. HIDE DEF o
  <2>2. /\ Counted(o) \in Run /\ Kept(o, Counted(o)) /\ Counted(o).status = o.status
        /\ Counted(o).calls = o.calls /\ Counted(o).seq = o.seq + 1
    BY <2>1, CountedIs
  <2>3. b = Counted(o)
    BY DEF o
  <2>. HIDE DEF b
  <2>. QED
    BY <2>1, <2>2, <2>3 DEF Kept
<1>3. y = events[r] \cup {[seq |-> a.seq + 1, type |-> status]} /\ y \in SUBSET Event
  BY <1>1 DEF Published, Event, Run
<1>4. runs' = [runs EXCEPT ![r] = b] /\ events' = [events EXCEPT ![r] = y]
  BY DEF Retired
<1>. HIDE DEF b, y
<1>5. End(a, b, events[r], y)
  BY <1>2, <1>3 DEF End, Tells
<1>. QED
  BY <1>2, <1>3, <1>4, <1>5, RunWritten DEF Move

\* A run is written without an event.
LEMMA QuietlyWritten ==
  ASSUME RunsSound, NEW r \in RunId, NEW b \in Run, runs' = [runs EXCEPT ![r] = b], UNCHANGED events,
         \/ Touch(runs[r], b, events[r], events[r])
         \/ Close(runs[r], b, events[r], events[r])
  PROVE  MovesOne
<1>1. events' = [events EXCEPT ![r] = events[r]] /\ events[r] \in SUBSET Event
  BY DEF RunsSound
<1>2. b.calls = runs[r].calls
  BY DEF Touch, Close
<1>. QED
  BY <1>1, <1>2, RunWritten DEF Move

\* The completion of the review of a mandate.
LEMMA CompletionMoves ==
  ASSUME RunsSound, RestSound, NEW m \in 1 .. Mandates, NEW outcome, Completion(m, outcome), UNCHANGED events
  PROVE  MovesOne
<1>. DEFINE r == mandates[m].run
            b == Over(runs[r], MandateResult(outcome))
<1>1. CASE runs' = runs
  BY <1>1 DEF MovesOne
<1>2. CASE Bound(m) /\ runs[r].status = "WAITING_FOR_APPROVAL" /\ runs' = [runs EXCEPT ![r] = b]
  <2>1. r \in RunId
    BY <1>2, BoundsAssumption DEF RestSound, Bound, RunId
  <2>2. runs[r] \in Run
    BY <2>1 DEF RunsSound
  <2>3. MandateResult(outcome) \in {"COMPLETED", "CANCELLED", "FAILED"}
    BY DEF MandateResult
  <2>4. b \in Run /\ Close(runs[r], b, events[r], events[r])
    BY <1>2, <2>2, <2>3 DEF Over, Run, Ended, Close, Kept, Silent
  <2>. QED
    BY <1>2, <2>1, <2>4, QuietlyWritten
<1>. QED
  BY <1>1, <1>2 DEF Completion

\* Requests, timers and sweeps keep the invariant.
LEMMA UserStep ==
  ASSUME Inductive, NEW r \in RunId,
         \/ Supersede(r) \/ Cancel(r) \/ LeaseExpires(r) \/ RetryDue(r) \/ Recover(r) \/ Decide(r)
  PROVE  Inductive' /\ MovesSome
<1>1. RunsSound /\ runs[r] \in Run
  BY DEF Inductive, RunsSound
<1>2. UNCHANGED <<pc, mem, spent>> /\ RestSound'
  BY DEF Supersede, Cancel, LeaseExpires, RetryDue, Recover, Decide, clientVars, workerVars, Inductive, RestSound
<1>3. CASE Supersede(r) \/ Cancel(r) \/ Recover(r)
  BY <1>1, <1>2, <1>3, RetiredMoves, SharedStep DEF Supersede, Cancel, Recover, Active, Ended
<1>4. CASE LeaseExpires(r)
  <2>. DEFINE b == [runs[r] EXCEPT !.lease = "expired"]
  <2>1. b \in Run /\ Touch(runs[r], b, events[r], events[r])
    BY <1>1, <1>4 DEF LeaseExpires, Run, Touch, Kept, Silent, Active
  <2>2. runs' = [runs EXCEPT ![r] = b] /\ UNCHANGED events
    BY <1>4 DEF LeaseExpires
  <2>. QED
    BY <1>1, <1>2, <2>1, <2>2, QuietlyWritten, SharedStep
<1>5. CASE RetryDue(r)
  <2>. DEFINE b == [runs[r] EXCEPT !.due = TRUE]
  <2>1. b \in Run /\ Touch(runs[r], b, events[r], events[r])
    BY <1>1, <1>5 DEF RetryDue, Run, Touch, Kept, Silent, Active
  <2>2. runs' = [runs EXCEPT ![r] = b] /\ UNCHANGED events
    BY <1>5 DEF RetryDue
  <2>. QED
    BY <1>1, <1>2, <2>1, <2>2, QuietlyWritten, SharedStep
<1>6. CASE Decide(r)
  <2>. DEFINE b == Over(runs[r], "COMPLETED")
  <2>1. b \in Run /\ Close(runs[r], b, events[r], events[r])
    BY <1>1, <1>6 DEF Decide, Over, Run, Ended, Close, Kept, Silent
  <2>2. runs' = [runs EXCEPT ![r] = b] /\ UNCHANGED events
    BY <1>6 DEF Decide
  <2>. QED
    BY <1>1, <1>2, <2>1, <2>2, QuietlyWritten, SharedStep
<1>. QED
  BY <1>3, <1>4, <1>5, <1>6

\* The authorization events of a review keep the invariant.
LEMMA NoteStep ==
  ASSUME Inductive, NEW r \in RunId, NumberNote(r) \/ CreateNote(r)
  PROVE  Inductive' /\ MovesSome
<1>. DEFINE a == runs[r]
            x == events[r]
<1>1. RunsSound /\ a \in Run /\ x \in SUBSET Event /\ StreamIsTold(a, x) /\ RunIsKept(a)
  BY DEF Inductive, RunsSound
<1>2. UNCHANGED <<pc, mem, spent>> /\ RestSound'
  BY DEF NumberNote, CreateNote, clientVars, workerVars, Inductive, RestSound
<1>3. CASE NumberNote(r)
  <2>. DEFINE b == Counted(a)
              y == Published(r, "TAKEN")
  <2>1. runs' = [runs EXCEPT ![r] = b] /\ events' = [events EXCEPT ![r] = y]
    BY <1>3 DEF NumberNote
  <2>2. b \in Run /\ Kept(a, b) /\ b.status = a.status /\ b.calls = a.calls /\ b.seq = a.seq + 1
    BY <1>1, CountedIs
  <2>3. y = x \cup {[seq |-> a.seq + 1, type |-> "TAKEN"]} /\ y \in SUBSET Event
    BY <1>1 DEF Published, Event, Note, Run
  <2>4. a.status # "NONE"
    <3>1. PICK e \in x : e.type = "WAITING"
      BY <1>3 DEF NumberNote
    <3>2. e.seq \in 1 .. a.seq
      BY <1>1 DEF StreamIsTold
    <3>. QED
      BY <1>1, <3>2 DEF RunIsKept, NoRun
  <2>. HIDE DEF b, y
  <2>5. Noted(a, b, x, y)
    BY <2>2, <2>3, <2>4 DEF Noted, Tells
  <2>. QED
    BY <1>1, <1>2, <2>1, <2>2, <2>3, <2>5, RunWritten, SharedStep DEF Move
<1>4. CASE CreateNote(r)
  <2>1. PICK n \in x : /\ n.type = "TAKEN"
                       /\ events' = [events EXCEPT ![r] = (@ \ {n}) \cup {[n EXCEPT !.type = "AUTHORIZATION"]}]
    BY <1>4 DEF CreateNote
  <2>. DEFINE y == (x \ {n}) \cup {[n EXCEPT !.type = "AUTHORIZATION"]}
  <2>2. runs' = [runs EXCEPT ![r] = a] /\ events' = [events EXCEPT ![r] = y]
    BY <1>1, <1>4, <2>1 DEF CreateNote, RunsSound
  <2>3. [n EXCEPT !.type = "AUTHORIZATION"] \in Event
    BY <1>1 DEF Event, Note
  <2>4. y \in SUBSET Event /\ Fill(a, a, x, y)
    BY <1>1, <2>1, <2>3 DEF Fill
  <2>. HIDE DEF y
  <2>. QED
    BY <1>1, <1>2, <2>2, <2>4, RunWritten, SharedStep DEF Move
<1>. QED
  BY <1>3, <1>4

\* The sources, and the mandates of approvals, keep the invariant.
LEMMA MandateStep ==
  ASSUME Inductive,
         \/ SourceChanges \/ ApprovalLost \/ SweepMark \/ Bind
         \/ \E c \in Client : ReadSource(c)
         \/ \E r \in RunId : CreateMandate(r)
         \/ \E m \in 1 .. Mandates : MandateEnds(m) \/ MandateExpires(m) \/ SweepMandate(m)
  PROVE  Inductive' /\ MovesSome
<1>. DEFINE MandateRecord == [status : {"none", "open"} \cup MandateEnd, run : 0 .. Runs, settled : BOOLEAN]
<1>0. RunsSound /\ RestSound
  BY DEF Inductive
<1>1. CASE SourceChanges \/ ApprovalLost \/ \E c \in Client : ReadSource(c)
  <2>1. MovesOne /\ UNCHANGED <<pc, mem, spent>>
    BY <1>1 DEF SourceChanges, ApprovalLost, ReadSource, workerVars, MovesOne
  <2>2. RestSound'
    <3>1. CASE SourceChanges
      BY <1>0, <3>1, BoundsAssumption DEF SourceChanges, clientVars, RestSound
    <3>2. CASE ApprovalLost
      BY <1>0, <3>2, BoundsAssumption DEF ApprovalLost, RestSound
    <3>3. ASSUME NEW c \in Client, ReadSource(c) PROVE RestSound'
      <4>1. asked' = [asked EXCEPT ![c] = source] /\ source \in 0 .. MaxChanges + 1
        BY <1>0, <3>3, BoundsAssumption DEF ReadSource, RestSound
      <4>2. asked' \in [Client -> 0 .. MaxChanges + 1]
        BY <1>0, <4>1 DEF RestSound
      <4>. QED
        BY <1>0, <3>3, <4>2 DEF ReadSource, RestSound
    <3>. QED
      BY <1>1, <3>1, <3>2, <3>3
  <2>. QED
    BY <2>1, <2>2, SharedStep
<1>2. CASE SweepMark
  <2>1. MovesOne /\ UNCHANGED <<pc, mem, spent>>
    BY <1>2 DEF SweepMark, workerVars, MovesOne
  <2>2. sweep \in 1 .. Mandates
    BY <1>0, <1>2 DEF SweepMark, RestSound
  <2>3. mandates' \in [1 .. Mandates -> MandateRecord] /\ \A m \in 1 .. Mandates : mandates'[m].run = mandates[m].run
    BY <1>0, <1>2, <2>2 DEF SweepMark, RestSound
  <2>4. RestSound'
    BY <1>0, <1>2, <2>3, BoundsAssumption DEF SweepMark, clientVars, RestSound
  <2>. QED
    BY <2>1, <2>4, SharedStep
<1>3. CASE Bind
  <2>. DEFINE r == mandates[binding].run
  <2>0. binding \in 1 .. Mandates /\ r \in RunId /\ UNCHANGED <<pc, mem, spent>>
    BY <1>0, <1>3 DEF Bind, RestSound, workerVars
  <2>1. CASE runs[r].status = "WAITING_FOR_APPROVAL"
    <3>. DEFINE b == [runs[r] EXCEPT !.mandate = binding]
    <3>1. runs[r] \in Run
      BY <1>0, <2>0 DEF RunsSound
    <3>2. b \in Run /\ Touch(runs[r], b, events[r], events[r])
      BY <2>0, <2>1, <3>1 DEF Run, Touch, Kept, Silent, Active
    <3>3. runs' = [runs EXCEPT ![r] = b] /\ UNCHANGED <<events, mandates>>
      BY <1>3, <2>1 DEF Bind
    <3>4. MovesOne
      BY <1>0, <2>0, <3>2, <3>3, QuietlyWritten
    <3>5. RestSound'
      BY <1>0, <1>3, <3>3, BoundsAssumption DEF Bind, RestSound
    <3>. QED
      BY <2>0, <3>4, <3>5, SharedStep
  <2>2. CASE runs[r].status # "WAITING_FOR_APPROVAL"
    <3>1. MovesOne
      BY <1>3, <2>2 DEF Bind, MovesOne
    <3>2. mandates' \in [1 .. Mandates -> MandateRecord]
      <4>1. PICK status \in {"none", "open"} \cup MandateEnd : mandates' = [mandates EXCEPT ![binding].status = status]
        BY <1>0, <1>3, <2>0, <2>2 DEF Bind, RestSound, MandateEnd
      <4>. QED
        BY <1>0, <2>0, <4>1 DEF RestSound
    <3>3. RestSound'
      BY <1>0, <1>3, <3>2, BoundsAssumption DEF Bind, RestSound
    <3>. QED
      BY <2>0, <3>1, <3>3, SharedStep
  <2>. QED
    BY <2>1, <2>2
<1>4. ASSUME NEW r \in RunId, CreateMandate(r) PROVE Inductive' /\ MovesSome
  <2>1. MovesOne /\ UNCHANGED <<pc, mem, spent>>
    BY <1>4 DEF CreateMandate, workerVars, MovesOne
  <2>2. PICK m \in 1 .. Mandates :
          mandates' = [mandates EXCEPT ![m].status = "open", ![m].run = r] /\ binding' = m
    BY <1>4 DEF CreateMandate
  <2>3. mandates' \in [1 .. Mandates -> MandateRecord] /\ mandates'[m].run = r
    <3>1. mandates[m] \in MandateRecord /\ r \in 0 .. Runs
      BY <1>0, BoundsAssumption DEF RestSound, RunId
    <3>2. mandates' = [mandates EXCEPT ![m] = [mandates[m] EXCEPT !.status = "open", !.run = r]]
      BY <1>0, <2>2 DEF RestSound
    <3>. QED
      BY <1>0, <3>1, <3>2 DEF RestSound
  <2>4. RestSound'
    <3>1. UNCHANGED <<spent, source, asked, sweep>> /\ binding' = m /\ m \in 0 .. Mandates
      BY <1>4, <2>2, BoundsAssumption DEF CreateMandate
    <3>. QED
      BY <1>0, <2>3, <3>1 DEF RestSound
  <2>. QED
    BY <2>1, <2>4, SharedStep
<1>5. ASSUME NEW m \in 1 .. Mandates, MandateEnds(m) PROVE Inductive' /\ MovesSome
  <2>1. UNCHANGED <<pc, mem, spent, events, asked, binding, sweep>>
    BY <1>5 DEF MandateEnds, workerVars, clientVars
  <2>2. PICK outcome \in MandateEnd :
          /\ outcome = "EXECUTED" => source <= MaxChanges
          /\ source' = IF outcome = "EXECUTED" THEN source + 1 ELSE source
          /\ mandates' = [mandates EXCEPT ![m].status = outcome]
          /\ Completion(m, outcome) \/ runs' = runs
    BY <1>5 DEF MandateEnds
  <2>3. MovesOne
    BY <1>0, <2>1, <2>2, CompletionMoves DEF MovesOne
  <2>4. mandates' \in [1 .. Mandates -> MandateRecord] /\ \A k \in 1 .. Mandates : mandates'[k].run = mandates[k].run
    BY <1>0, <2>2 DEF RestSound
  <2>5. source' \in 1 .. MaxChanges + 1
    BY <1>0, <2>2, BoundsAssumption DEF RestSound
  <2>6. RestSound'
    BY <1>0, <2>1, <2>4, <2>5 DEF RestSound
  <2>. QED
    BY <2>1, <2>3, <2>6, SharedStep
<1>6. ASSUME NEW m \in 1 .. Mandates, MandateExpires(m) PROVE Inductive' /\ MovesSome
  <2>1. MovesOne /\ UNCHANGED <<pc, mem, spent, source, asked, binding, sweep>>
    BY <1>6 DEF MandateExpires, workerVars, clientVars, MovesOne
  <2>2. mandates' \in [1 .. Mandates -> MandateRecord] /\ \A k \in 1 .. Mandates : mandates'[k].run = mandates[k].run
    BY <1>0, <1>6 DEF MandateExpires, RestSound, MandateEnd
  <2>3. RestSound'
    BY <1>0, <2>1, <2>2 DEF RestSound
  <2>. QED
    BY <2>1, <2>3, SharedStep
<1>7. ASSUME NEW m \in 1 .. Mandates, SweepMandate(m) PROVE Inductive' /\ MovesSome
  <2>1. UNCHANGED <<pc, mem, spent, events, source, asked, binding, mandates>> /\ sweep' = m
    BY <1>7 DEF SweepMandate, workerVars, clientVars
  <2>2. MovesOne
    BY <1>0, <1>7, <2>1, CompletionMoves DEF SweepMandate
  <2>3. RestSound'
    BY <1>0, <2>1, BoundsAssumption DEF RestSound
  <2>. QED
    BY <2>1, <2>2, <2>3, SharedStep
<1>. QED
  BY <1>1, <1>2, <1>3, <1>4, <1>5, <1>6, <1>7

-----------------------------------------------------------------------------
(* The steps of the workers.                                               *)

\* What a worker has that is not idle.
LEMMA Working ==
  ASSUME Inductive, NEW w \in Worker, pc[w] # "idle"
  PROVE  /\ pc[w] \in Place /\ mem[w] \in Memory /\ mem[w].run \in RunId /\ mem[w].run # 0
         /\ runs[mem[w].run] \in Run /\ events[mem[w].run] \in SUBSET Event
         /\ Knows(pc[w], mem[w], runs[mem[w].run]) /\ RunIsKept(runs[mem[w].run])
         /\ \A v \in Worker \ {w} : mem[v].run = mem[w].run => mem[v].gen # mem[w].gen
<1>1. mem[w] \in Memory /\ mem[w].run # 0 /\ Knows(pc[w], mem[w], runs[mem[w].run])
  BY DEF Inductive, WorkersSound, WorkersKnow
<1>2. mem[w].run \in RunId
  BY <1>1, BoundsAssumption DEF Memory, RunId
<1>3. \A v \in Worker \ {w} : mem[v].run = mem[w].run => mem[v].gen # mem[w].gen
  BY <1>1 DEF Inductive, WorkersSound, GenerationsDiffer
<1>. QED
  BY <1>1, <1>2, <1>3 DEF Inductive, WorkersSound, RunsSound

\* The claim of worker w and what it holds stay with it.
Holding(m, w) == m.run = mem[w].run /\ m.gen = mem[w].gen /\ m.attempt = mem[w].attempt /\ m.calls = mem[w].calls

\* A step of worker w that has to do with no call.
LEMMA WorkerStep ==
  ASSUME Inductive, NEW w \in Worker, NEW p \in Place \ {"call"}, NEW m \in Memory, Goes(w, p, m),
         pc[w] \notin {"idle", "call"}, Holding(m, w), MovesOne, RestSound', spent' = spent,
         p \in {"event", "model", "finish", "publish"} => runs'[mem[w].run].saved
  PROVE  Inductive' /\ MovesSome
<1>1. RunsSound' /\ (\A v \in Worker : Stays(v)) /\ \A r \in RunId : runs'[r].calls = runs[r].calls
  BY OneStays DEF Inductive
<1>2. mem[w].run # 0 /\ \A v \in Worker \ {w} : mem[v].run = mem[w].run => mem[v].gen # mem[w].gen
  BY Working
<1>3. Knows(p, m, runs'[m.run])
  BY <1>1, <1>2 DEF Stays, Knows, Holding
<1>4. WorkersSound'
  BY <1>1, <1>2, <1>3, WorkerMoves DEF Inductive, Holding
<1>5. CallsReserved'
  <2>1. \A v \in Worker : /\ pc'[v] = "call" <=> pc[v] = "call"
                          /\ v # w => mem'[v] = mem[v]
    BY DEF Goes, Inductive, WorkersSound
  <2>. QED
    BY <1>1, <2>1, NothingReserved DEF Inductive
<1>. QED
  BY <1>1, <1>4, <1>5 DEF Inductive, MovesOne, MovesSome

\* A step of worker w that writes nothing, and has to do with no call.
LEMMA QuietStep ==
  ASSUME Inductive, NEW w \in Worker, NEW p \in Place \ {"call"}, NEW m \in Memory, Goes(w, p, m),
         pc[w] \notin {"idle", "call"}, Holding(m, w),
         UNCHANGED <<runs, events, spent, source, clientVars, mandates, sweep>>,
         p \in {"event", "model", "finish", "publish"} => runs[mem[w].run].saved
  PROVE  Inductive' /\ MovesSome
<1>1. MovesOne /\ RestSound'
  BY DEF MovesOne, clientVars, Inductive, RestSound
<1>2. runs' = runs /\ spent' = spent
  OBVIOUS
<1>. QED
  BY <1>1, <1>2, WorkerStep

\* A call that is made, fails or is given up.
LEMMA CallStep ==
  ASSUME Inductive, NEW w \in Worker, NEW p \in Place \ {"call"}, NEW m \in Memory, Goes(w, p, m),
         pc[w] = "call", Holding(m, w), UNCHANGED <<runs, events, source, clientVars, mandates, sweep>>,
         spent' = spent \/ spent' = [spent EXCEPT ![mem[w].run] = @ + 1]
  PROVE  Inductive' /\ MovesSome
<1>1. MovesOne
  BY DEF MovesOne
<1>2. RunsSound' /\ (\A v \in Worker : Stays(v))
  BY <1>1, OneStays DEF Inductive
<1>3. mem[w].run # 0 /\ mem[w].run \in RunId /\ Knows(pc[w], mem[w], runs[mem[w].run])
      /\ \A v \in Worker \ {w} : mem[v].run = mem[w].run => mem[v].gen # mem[w].gen
  BY Working
<1>4. Knows(p, m, runs'[m.run])
  BY <1>3 DEF Knows, Holding
<1>5. WorkersSound'
  BY <1>2, <1>3, <1>4, WorkerMoves DEF Inductive, Holding
<1>6. CallsReserved'
  BY <1>3, CallOver DEF Inductive, RunsSound, WorkersSound, RestSound
<1>7. spent' \in [RunId -> Nat]
  BY <1>3 DEF Inductive, RestSound
<1>8. RestSound'
  BY <1>7 DEF clientVars, Inductive, RestSound
<1>. QED
  BY <1>2, <1>5, <1>6, <1>8 DEF Inductive, MovesSome

\* The reads of a worker, its failures and its end keep the invariant.
LEMMA WorkerReads ==
  ASSUME Inductive, NEW w \in Worker,
         LoadContext(w) \/ ReadForFinish(w) \/ Call(w) \/ WorkFails(w) \/ WorkerStops(w)
  PROVE  Inductive' /\ MovesSome
<1>. DEFINE r == mem[w].run
<1>1. pc[w] # "idle"
  BY DEF LoadContext, ReadForFinish, Call, WorkFails, WorkerStops
<1>2. mem[w] \in Memory /\ pc[w] \in Place /\ runs[r] \in Run /\ Knows(pc[w], mem[w], runs[r])
  BY <1>1, Working
<1>3. Holding(mem[w], w)
  BY DEF Holding
<1>4. ASSUME NEW err \in {"none", "retry", "fatal", "superseded", "budget"}
      PROVE  [mem[w] EXCEPT !.err = err] \in Memory /\ Holding([mem[w] EXCEPT !.err = err], w)
  BY <1>2 DEF Memory, Holding
<1>5. CASE LoadContext(w)
  <2>1. PICK p \in {"note", "fail"}, m \in Memory : Goes(w, p, m) /\ Holding(m, w)
    BY <1>2, <1>3, <1>4, <1>5 DEF LoadContext
  <2>. QED
    BY <1>5, <2>1, QuietStep DEF LoadContext, Place
<1>6. CASE ReadForFinish(w)
  <2>1. CASE Holds(w)
    <3>. DEFINE m == [mem[w] EXCEPT !.seq = Held(w).seq]
    <3>1. m \in Memory /\ Holding(m, w)
      BY <1>2 DEF Memory, Run, Held, Holding
    <3>2. runs[r].saved
      BY <1>2, <1>6 DEF ReadForFinish, Knows
    <3>3. Goes(w, "publish", m)
      BY <1>6, <2>1 DEF ReadForFinish
    <3>. HIDE DEF m
    <3>. QED
      BY <1>6, <3>1, <3>2, <3>3, QuietStep DEF ReadForFinish, Place
  <2>2. CASE ~ Holds(w)
    BY <1>2, <1>3, <1>6, <2>2, QuietStep DEF ReadForFinish, Place
  <2>. QED
    BY <2>1, <2>2
<1>7. CASE Call(w)
  BY <1>2, <1>3, <1>7, CallStep DEF Call, Place
<1>8. CASE WorkFails(w)
  <2>1. PICK err \in {"retry", "fatal"} : Goes(w, "fail", [mem[w] EXCEPT !.err = err])
    BY <1>8 DEF WorkFails
  <2>. DEFINE m == [mem[w] EXCEPT !.err = err]
  <2>2. m \in Memory /\ Holding(m, w) /\ Goes(w, "fail", m)
    BY <1>4, <2>1
  <2>. HIDE DEF m
  <2>3. UNCHANGED <<runs, events, source, clientVars, mandates, sweep>>
    BY <1>8 DEF WorkFails
  <2>4. CASE pc[w] = "call"
    BY <1>8, <2>2, <2>3, <2>4, CallStep DEF WorkFails, Place
  <2>5. CASE pc[w] # "call"
    BY <1>1, <1>8, <2>2, <2>3, <2>5, QuietStep DEF WorkFails, Place
  <2>. QED
    BY <2>4, <2>5
<1>9. CASE WorkerStops(w)
  <2>1. Goes(w, "idle", mem[w]) /\ UNCHANGED <<runs, events, spent, source, clientVars, mandates, sweep>>
    BY <1>9 DEF WorkerStops
  <2>2. CASE pc[w] = "call"
    BY <1>2, <1>3, <2>1, <2>2, CallStep DEF Place
  <2>3. CASE pc[w] # "call"
    BY <1>1, <1>2, <1>3, <2>1, <2>3, QuietStep DEF Place
  <2>. QED
    BY <2>2, <2>3
<1>. QED
  BY <1>5, <1>6, <1>7, <1>8, <1>9

\* A write of worker w to its run, which makes no call and reserves none.
LEMMA WorkerWrites ==
  ASSUME Inductive, NEW w \in Worker, NEW p \in Place \ {"call"}, Goes(w, p, mem[w]),
         pc[w] \notin {"idle", "call"}, NEW b \in Run, NEW y \in SUBSET Event,
         runs' = [runs EXCEPT ![mem[w].run] = b], events' = [events EXCEPT ![mem[w].run] = y],
         Move(runs[mem[w].run], b, events[mem[w].run], y), b.calls = runs[mem[w].run].calls,
         UNCHANGED <<spent, source, clientVars, mandates, sweep>>,
         p \in {"event", "model", "finish", "publish"} => b.saved
  PROVE  Inductive' /\ MovesSome
<1>1. mem[w].run \in RunId /\ mem[w] \in Memory
  BY Working
<1>2. MovesOne /\ Moves(mem[w].run)
  BY <1>1, RunWritten DEF Inductive
<1>3. runs'[mem[w].run] = b
  BY <1>1 DEF Inductive, RunsSound
<1>4. RestSound'
  BY DEF clientVars, Inductive, RestSound
<1>. QED
  BY <1>1, <1>2, <1>3, <1>4, WorkerStep DEF Holding

LEMMA CheckpointStep ==
  ASSUME Inductive, NEW w \in Worker, Checkpoint(w)
  PROVE  Inductive' /\ MovesSome
<1>. DEFINE r == mem[w].run
            b == [runs[r] EXCEPT !.saved = TRUE]
<1>1. pc[w] = "note" /\ r \in RunId /\ mem[w] \in Memory /\ runs[r] \in Run /\ events[r] \in SUBSET Event
  BY Working DEF Checkpoint
<1>2. CASE Holds(w)
  <2>1. b \in Run /\ b.calls = runs[r].calls /\ b.saved /\ Touch(runs[r], b, events[r], events[r])
    BY <1>1, <1>2 DEF Holds, Held, Run, Touch, Kept, Silent, Active
  <2>2. runs' = [runs EXCEPT ![r] = b] /\ Goes(w, "event", mem[w])
    BY <1>2 DEF Checkpoint
  <2>3. UNCHANGED <<spent, source, clientVars, mandates, sweep>> /\ events' = [events EXCEPT ![r] = events[r]]
    BY <1>1 DEF Checkpoint, Inductive, RunsSound
  <2>. HIDE DEF b
  <2>. QED
    BY <1>1, <2>1, <2>2, <2>3, WorkerWrites DEF Move, Place
<1>3. CASE ~ Holds(w)
  BY <1>1, <1>3, QuietStep DEF Checkpoint, Holding, Place
<1>. QED
  BY <1>2, <1>3

\* What a worker that holds its run finds: the counters are its own.
LEMMA HolderKnows ==
  ASSUME Inductive, NEW w \in Worker, pc[w] # "idle", Holds(w)
  PROVE  /\ runs[mem[w].run].status = "RUNNING" /\ runs[mem[w].run].gen = mem[w].gen
         /\ runs[mem[w].run].attempt = mem[w].attempt /\ runs[mem[w].run].calls = mem[w].calls
  BY Working DEF Holds, Held, Knows

LEMMA AppendEventStep ==
  ASSUME Inductive, NEW w \in Worker, AppendEvent(w)
  PROVE  Inductive' /\ MovesSome
<1>. DEFINE r == mem[w].run
            a == runs[r]
            b == Counted(a)
            y == Published(r, "PROGRESS")
<1>1. /\ pc[w] = "event" /\ r \in RunId /\ mem[w] \in Memory /\ a \in Run /\ events[r] \in SUBSET Event
      /\ a.saved
  BY Working DEF AppendEvent, Knows
<1>2. PICK p \in {"model", "finish"} : Goes(w, p, mem[w])
  BY DEF AppendEvent
<1>3. UNCHANGED <<spent, source, clientVars, mandates, sweep>>
  BY DEF AppendEvent
<1>4. CASE Holds(w) /\ runs' = [runs EXCEPT ![r] = Counted(@)] /\ events' = [events EXCEPT ![r] = y]
  <2>1. b \in Run /\ Kept(a, b) /\ b.status = a.status /\ b.calls = a.calls /\ b.seq = a.seq + 1 /\ b.saved
    BY <1>1, CountedIs DEF Kept
  <2>2. y = events[r] \cup {[seq |-> a.seq + 1, type |-> "PROGRESS"]} /\ y \in SUBSET Event
    BY <1>1 DEF Published, Event, Run
  <2>3. a.status = "RUNNING"
    BY <1>4 DEF Holds, Held
  <2>4. runs' = [runs EXCEPT ![r] = b] /\ events' = [events EXCEPT ![r] = y]
    BY <1>4
  <2>. HIDE DEF b, y
  <2>5. Progress(a, b, events[r], y)
    BY <2>1, <2>2, <2>3 DEF Progress, Tells
  <2>. QED
    BY <1>1, <1>2, <1>3, <2>1, <2>2, <2>4, <2>5, WorkerWrites DEF Move, Place
<1>5. CASE UNCHANGED <<runs, events>>
  BY <1>1, <1>2, <1>3, <1>5, QuietStep DEF Holding, Place
<1>. QED
  BY <1>4, <1>5 DEF AppendEvent

LEMMA PublishStep ==
  ASSUME Inductive, NEW w \in Worker, Publish(w)
  PROVE  Inductive' /\ MovesSome
<1>. DEFINE r == mem[w].run
            a == runs[r]
<1>1. /\ pc[w] = "publish" /\ r \in RunId /\ mem[w] \in Memory /\ a \in Run /\ events[r] \in SUBSET Event
  BY Working DEF Publish
<1>2. UNCHANGED <<spent, source, clientVars, mandates, sweep>>
  BY DEF Publish
<1>3. CASE UNCHANGED <<runs, events>>
  <2>1. PICK p \in {"fail", "idle"}, m \in Memory : Goes(w, p, m) /\ Holding(m, w)
    <3>1. CASE MayPublish(w) 
      BY <1>1, <1>3, <3>1 DEF Publish, Holding, Publishes, Goes, MovesOne
    <3>2. CASE ~ MayPublish(w)
      <4>1. [mem[w] EXCEPT !.err = "superseded"] \in Memory /\ Holding([mem[w] EXCEPT !.err = "superseded"], w)
        BY <1>1 DEF Memory, Holding
      <4>. QED
        BY <3>2, <4>1 DEF Publish
    <3>. QED
      BY <3>1, <3>2
  <2>. QED
    BY <1>1, <1>2, <1>3, <2>1, QuietStep DEF Place
<1>4. CASE MayPublish(w) /\ Publishes(w)
  <2>1. PICK status \in {"COMPLETED", "WAITING_FOR_APPROVAL"} :
          /\ runs' = [runs EXCEPT ![r] = [Counted(Over(@, status)) EXCEPT !.calls = mem[w].calls]]
          /\ events' = [events EXCEPT ![r] = @ \cup {[seq |-> mem[w].seq + 1,
                           type |-> IF status = "COMPLETED" THEN status ELSE "WAITING"]}]
    BY <1>4 DEF Publish
  <2>2. Goes(w, "idle", mem[w])
    BY <1>4 DEF Publish
  <2>. DEFINE o == Over(a, status)
              b == [Counted(o) EXCEPT !.calls = mem[w].calls]
              type == IF status = "COMPLETED" THEN status ELSE "WAITING"
              y == events[r] \cup {[seq |-> a.seq + 1, type |-> type]}
  <2>3. a.status = "RUNNING" /\ a.calls = mem[w].calls /\ a.seq = mem[w].seq
    BY <1>1, <1>4, HolderKnows DEF Publishes, Held
  <2>4. o \in Run /\ Kept(a, o) /\ o.status = status /\ o.calls = a.calls /\ o.seq = a.seq
    BY <1>1, OverIs DEF Active, Ended
  <2>. HIDE DEF o
  <2>5. Counted(o) \in Run /\ Kept(o, Counted(o)) /\ Counted(o).status = status /\ Counted(o).calls = a.calls
        /\ Counted(o).seq = a.seq + 1
    BY <2>4, CountedIs
  <2>6. b = Counted(o)
    BY <2>3, <2>5 DEF Run
  <2>7. b \in Run /\ Kept(a, b) /\ b.status = status /\ b.calls = a.calls /\ b.seq = a.seq + 1
    BY <2>4, <2>5, <2>6 DEF Kept
  <2>8. runs' = [runs EXCEPT ![r] = b] /\ events' = [events EXCEPT ![r] = y]
    BY <2>1, <2>3 DEF o
  <2>9. y \in SUBSET Event
    BY <1>1 DEF Event, Run, Ended
  <2>. HIDE DEF b
  <2>10. Move(a, b, events[r], y)
    <3>1. CASE status = "COMPLETED"
      BY <2>3, <2>7, <3>1 DEF Move, End, Tells, Active, Ended
    <3>2. CASE status = "WAITING_FOR_APPROVAL"
      BY <2>3, <2>7, <3>2 DEF Move, Wait, Tells
    <3>. QED
      BY <3>1, <3>2
  <2>. HIDE DEF y
  <2>11. PICK z \in Run, u \in SUBSET Event : z = b /\ u = y
    BY <2>7, <2>9
  <2>12. PICK p \in Place \ {"call"} : p = "idle"
    BY DEF Place
  <2>13. Move(runs[r], z, events[r], u)
    BY <2>10, <2>11
  <2>14. runs' = [runs EXCEPT ![r] = z] /\ events' = [events EXCEPT ![r] = u] /\ z.calls = runs[r].calls
    BY <2>7, <2>8, <2>11
  <2>. HIDE DEF type, a
  <2>. QED
    BY <1>1, <1>2, <2>2, <2>12, <2>13, <2>14, WorkerWrites
<1>. QED
  BY <1>3, <1>4 DEF Publish

LEMMA FailRunStep ==
  ASSUME Inductive, NEW w \in Worker, FailRun(w)
  PROVE  Inductive' /\ MovesSome
<1>. DEFINE r == mem[w].run
            a == runs[r]
<1>1. /\ pc[w] = "fail" /\ r \in RunId /\ mem[w] \in Memory /\ a \in Run /\ events[r] \in SUBSET Event
  BY Working DEF FailRun
<1>2. UNCHANGED <<spent, source, clientVars, mandates, sweep>> /\ Goes(w, "idle", mem[w])
  BY DEF FailRun
<1>3. CASE ~ Holds(w)
  BY <1>1, <1>2, <1>3, QuietStep DEF FailRun, Holding, Place
<1>4. CASE Holds(w)
  <2>. DEFINE status == Outcome(w)
              o == Over(a, status)
              b == [Counted(o) EXCEPT !.due = status # "QUEUED",
                      !.calls = IF @ < mem[w].calls THEN mem[w].calls ELSE @]
              type == IF status = "QUEUED" THEN "RETRY" ELSE status
              y == Published(r, type)
  <2>1. a.status = "RUNNING" /\ a.calls = mem[w].calls /\ a.attempt = mem[w].attempt
    BY <1>1, <1>4, HolderKnows
  <2>2. /\ status \in {"QUEUED", "SUPERSEDED", "BUDGET_EXCEEDED", "FAILED"}
        /\ status = "QUEUED" => mem[w].attempt < MaxAttempts
    BY DEF Outcome
  <2>3. runs' = [runs EXCEPT ![r] = b] /\ events' = [events EXCEPT ![r] = y]
    BY <1>4 DEF FailRun
  <2>. HIDE DEF status
  <2>4. o \in Run /\ Kept(a, o) /\ o.status = status /\ o.calls = a.calls /\ o.seq = a.seq
    BY <1>1, <2>2, OverIs DEF Active, Ended
  <2>. HIDE DEF o
  <2>5. Counted(o) \in Run /\ Kept(o, Counted(o)) /\ Counted(o).status = status /\ Counted(o).calls = a.calls
        /\ Counted(o).seq = a.seq + 1
    BY <2>4, CountedIs
  <2>6. ~ (Counted(o).calls < mem[w].calls)
    BY <1>1, <2>1, <2>5 DEF Run
  <2>7. b = [Counted(o) EXCEPT !.due = status # "QUEUED"]
    BY <2>5, <2>6 DEF Run
  <2>8. b \in Run /\ Kept(a, b) /\ b.status = status /\ b.calls = a.calls /\ b.seq = a.seq + 1
    BY <2>4, <2>5, <2>7 DEF Kept, Run
  <2>9. y = events[r] \cup {[seq |-> a.seq + 1, type |-> type]} /\ y \in SUBSET Event
    BY <1>1, <2>2 DEF Published, Event, Run, Ended
  <2>. HIDE DEF b, y
  <2>10. Move(a, b, events[r], y)
    <3>1. CASE status = "QUEUED"
      BY <2>1, <2>2, <2>8, <2>9, <3>1 DEF Move, Queue, Tells
    <3>2. CASE status # "QUEUED"
      BY <2>1, <2>2, <2>8, <2>9, <3>2 DEF Move, End, Tells, Active, Ended
    <3>. QED
      BY <3>1, <3>2
  <2>11. PICK z \in Run, u \in SUBSET Event : z = b /\ u = y
    BY <2>8, <2>9
  <2>12. PICK p \in Place \ {"call"} : p = "idle"
    BY DEF Place
  <2>13. Move(runs[r], z, events[r], u)
    BY <2>10, <2>11
  <2>14. runs' = [runs EXCEPT ![r] = z] /\ events' = [events EXCEPT ![r] = u] /\ z.calls = runs[r].calls
    BY <2>3, <2>8, <2>11
  <2>. HIDE DEF type, a
  <2>. QED
    BY <1>1, <1>2, <2>12, <2>13, <2>14, WorkerWrites
<1>. QED
  BY <1>3, <1>4

LEMMA ReserveStep ==
  ASSUME Inductive, NEW w \in Worker, Reserve(w)
  PROVE  Inductive' /\ MovesSome
<1>. DEFINE r == mem[w].run
            a == runs[r]
            m == [mem[w] EXCEPT !.calls = @ + 1]
<1>1. /\ pc[w] = "model" /\ r \in RunId /\ r # 0 /\ mem[w] \in Memory /\ a \in Run /\ events[r] \in SUBSET Event
      /\ a.saved /\ Knows(pc[w], mem[w], a)
      /\ \A v \in Worker \ {w} : mem[v].run = r => mem[v].gen # mem[w].gen
  BY Working DEF Reserve, Knows
<1>2. UNCHANGED <<events, spent, source, clientVars, mandates, sweep>>
  BY DEF Reserve
<1>3. CASE runs' = runs /\ Goes(w, "fail", [mem[w] EXCEPT !.err = "budget"])
  <2>. DEFINE n == [mem[w] EXCEPT !.err = "budget"]
  <2>1. n \in Memory /\ Holding(n, w) /\ Goes(w, "fail", n)
    BY <1>1, <1>3 DEF Memory, Holding
  <2>. HIDE DEF n
  <2>. QED
    BY <1>1, <1>2, <1>3, <2>1, QuietStep DEF Place
<1>4. CASE runs' = runs /\ Goes(w, "idle", m)
  <2>1. Goes(w, "idle", mem[w])
    BY <1>4 DEF Goes
  <2>. QED
    BY <1>1, <1>2, <1>4, <2>1, QuietStep DEF Place, Holding
<1>5. CASE /\ mem[w].calls < MaxCalls /\ MayReserve(w)
           /\ runs' = [runs EXCEPT ![r].calls = IF @ < m.calls THEN m.calls ELSE @]
           /\ Goes(w, "call", m)
  <2>. DEFINE b == [a EXCEPT !.calls = mem[w].calls + 1]
  <2>1. a.status = "RUNNING" /\ a.gen = mem[w].gen /\ a.calls = mem[w].calls /\ a.calls \in Nat
    BY <1>1, <1>5, HolderKnows DEF MayReserve, Run
  <2>2. m \in Memory /\ m.run = r /\ m.gen = mem[w].gen /\ m.attempt = mem[w].attempt /\ m.calls = a.calls + 1
    BY <1>1, <2>1 DEF Memory
  <2>3. runs' = [runs EXCEPT ![r] = b]
    <3>1. (IF a.calls < m.calls THEN m.calls ELSE a.calls) = a.calls + 1
      BY <2>1, <2>2
    <3>. QED
      BY <1>5, <2>1, <3>1 DEF MayReserve
  <2>4. b \in Run /\ Kept(a, b) /\ b.status = "RUNNING" /\ b.calls = a.calls + 1 /\ b.seq = a.seq
        /\ b.gen = a.gen /\ b.attempt = a.attempt /\ b.saved
    BY <1>1, <1>5, <2>1, BoundsAssumption DEF Run, Kept
  <2>. HIDE DEF b, m
  <2>5. Pay(a, b, events[r], events[r])
    BY <1>1, <2>1, <2>4 DEF Pay, Silent
  <2>6. runs \in [RunId -> Run] /\ events \in [RunId -> SUBSET Event] /\ spent \in [RunId -> Nat]
    BY DEF Inductive, RunsSound, RestSound
  <2>7. runs' \in [RunId -> Run] /\ runs'[r] = b /\ \A q \in RunId \ {r} : runs'[q] = runs[q]
    BY <1>1, <2>3, <2>4, <2>6
  <2>8. Moves(r)
    BY <1>2, <2>5, <2>6, <2>7 DEF Moves, Move
  <2>9. RunsSound'
    BY <1>1, <2>8, MovesSound DEF Inductive
  <2>10. \A v \in Worker \ {w} : Stays(v)
    BY <1>1, <2>1, <2>8, MovesStay DEF Inductive
  <2>11. Knows("call", m, b)
    BY <1>1, <2>1, <2>2, <2>4 DEF Knows
  <2>. HIDE DEF a
  <2>12. WorkersSound'
    <3>1. PICK p \in Place : p = "call"
      BY DEF Place
    <3>2. Goes(w, p, m) /\ m.run # 0 /\ Knows(p, m, runs'[m.run])
      BY <1>1, <1>5, <2>2, <2>7, <2>11, <3>1
    <3>3. \A v \in Worker \ {w} : mem[v].run = m.run => mem[v].gen # m.gen
      BY <1>1, <2>2
    <3>. QED
      BY <2>2, <2>10, <3>2, <3>3, WorkerMoves DEF Inductive
  <2>13. pc \in [Worker -> Place] /\ mem \in [Worker -> Memory]
    BY DEF Inductive, WorkersSound
  <2>14. CallsReserved'
    <3>1. runs'[m.run].calls = runs[m.run].calls + 1 /\ m.run \in RunId
      BY <1>1, <2>2, <2>4, <2>7 DEF a
    <3>2. \A q \in RunId \ {m.run} : runs'[q].calls = runs[q].calls
      BY <2>2, <2>7
    <3>3. Goes(w, "call", m) /\ pc[w] # "call" /\ spent' = spent /\ CallsReserved
      BY <1>1, <1>2, <1>5 DEF Inductive
    <3>. QED
      BY <2>2, <2>6, <2>13, <3>1, <3>2, <3>3, CallReserved
  <2>15. RestSound'
    BY <1>2 DEF clientVars, Inductive, RestSound
  <2>. QED
    BY <1>1, <2>8, <2>9, <2>12, <2>14, <2>15 DEF Inductive, MovesSome
<1>. QED
  BY <1>3, <1>4, <1>5 DEF Reserve

LEMMA ClaimStep ==
  ASSUME Inductive, NEW w \in Worker, Claim(w)
  PROVE  Inductive' /\ MovesSome
<1>1. PICK r \in RunId :
        /\ Claimable(r)
        /\ runs' = [runs EXCEPT ![r].status = "RUNNING", ![r].lease = "live", ![r].due = TRUE,
                                ![r].attempt = @ + 1, ![r].gen = @ + 1]
        /\ Goes(w, "load", [Idle EXCEPT !.run = r, !.gen = runs[r].gen + 1, !.attempt = runs[r].attempt + 1,
                                        !.calls = CallsSoFar(r)])
  BY DEF Claim
<1>. DEFINE a == runs[r]
            b == [a EXCEPT !.status = "RUNNING", !.lease = "live", !.due = TRUE, !.attempt = a.attempt + 1,
                           !.gen = a.gen + 1]
            m == [Idle EXCEPT !.run = r, !.gen = a.gen + 1, !.attempt = a.attempt + 1, !.calls = CallsSoFar(r)]
<1>2. UNCHANGED <<events, spent, source, clientVars, mandates, sweep>> /\ pc[w] = "idle"
  BY DEF Claim
<1>3. runs \in [RunId -> Run] /\ events \in [RunId -> SUBSET Event] /\ a \in Run /\ RunIsKept(a)
  BY DEF Inductive, RunsSound
<1>4. a.status \in {"QUEUED", "RUNNING"} /\ a.attempt < MaxAttempts
  BY <1>1, <1>3 DEF Claimable, RunIsKept
<1>5. b \in Run /\ Start(a, b, events[r], events[r])
  <2>1. a.attempt + 1 \in 0 .. MaxAttempts /\ a.gen + 1 \in Nat
    BY <1>3, <1>4, BoundsAssumption DEF Run
  <2>2. b \in Run
    BY <1>3, <2>1 DEF Run, Active
  <2>3. Start(a, b, events[r], events[r])
    BY <1>3, <1>4 DEF Run, Start, Silent
  <2>. QED
    BY <2>2, <2>3
<1>6. runs' = [runs EXCEPT ![r] = b]
  BY <1>1, <1>3
<1>7. /\ m \in Memory /\ m.run = r /\ m.gen = a.gen + 1 /\ m.attempt = a.attempt + 1 /\ m.calls = a.calls
  <2>1. CallsSoFar(r) = a.calls /\ a.calls \in Nat /\ a.gen \in Nat /\ a.attempt \in Nat
    BY <1>3, BoundsAssumption DEF CallsSoFar, RunIsKept, Run
  <2>2. r \in 0 .. Runs
    BY BoundsAssumption DEF RunId
  <2>. QED
    <3>1. PICK g \in Nat, n \in Nat, c \in Nat : g = a.gen + 1 /\ n = a.attempt + 1 /\ c = CallsSoFar(r)
      BY <2>1
    <3>0. PICK i \in Memory : i = Idle
      BY IdleTyped
    <3>2. m = [i EXCEPT !.run = r, !.gen = g, !.attempt = n, !.calls = c]
      BY <3>0, <3>1
    <3>. HIDE DEF a, m
    <3>3. m \in Memory /\ m.run = r /\ m.gen = g /\ m.attempt = n /\ m.calls = c
      BY <2>2, <3>2 DEF Memory
    <3>. QED
      BY <2>1, <3>1, <3>3
<1>8. Goes(w, "load", m)
  BY <1>1
<1>9. b.gen = a.gen + 1 /\ b.attempt = a.attempt + 1 /\ b.calls = a.calls /\ b.status = "RUNNING" /\ a.gen \in Nat
  BY <1>3, <1>5 DEF Start, Run
<1>. HIDE DEF b, m
<1>10. runs' \in [RunId -> Run] /\ runs'[r] = b /\ \A q \in RunId \ {r} : runs'[q] = runs[q]
  BY <1>3, <1>5, <1>6
<1>11. Moves(r)
  BY <1>2, <1>3, <1>5, <1>10 DEF Moves, Move
<1>12. RunsSound'
  BY <1>11, MovesSound DEF Inductive
<1>13. ~ Pay(a, b, events[r], events[r])
  BY <1>9 DEF Pay, Kept
<1>14. \A v \in Worker : Stays(v)
  BY <1>2, <1>10, <1>11, <1>13, MovesStay DEF Inductive
<1>15. \A v \in Worker : mem[v].run = r => mem[v].gen # m.gen
  <2>1. \A v \in Worker : mem[v].run = r => mem[v].gen \in Nat /\ mem[v].gen <= a.gen
    BY BoundsAssumption DEF Inductive, WorkersSound, WorkersKnow, Knows, RunId, Memory
  <2>. QED
    BY <1>7, <1>9, <2>1
<1>16. m.run # 0 /\ Knows("load", m, runs'[r])
  BY <1>7, <1>9, <1>10 DEF Knows, RunId
<1>17. WorkersSound'
  BY <1>7, <1>8, <1>14, <1>15, <1>16, WorkerMoves DEF Inductive, Place
<1>18. CallsReserved'
  <2>1. \A v \in Worker : (pc'[v] = "call" <=> pc[v] = "call") /\ (pc[v] = "call" => mem'[v].run = mem[v].run)
    BY <1>2, <1>8 DEF Goes, Inductive, WorkersSound
  <2>2. \A q \in RunId : runs'[q].calls = runs[q].calls
    BY <1>9, <1>10
  <2>. QED
    BY <1>2, <2>1, <2>2, NothingReserved DEF Inductive
<1>19. RestSound'
  BY <1>2 DEF clientVars, Inductive, RestSound
<1>. QED
  BY <1>11, <1>12, <1>17, <1>18, <1>19 DEF Inductive, MovesSome

\* What an admission does to run q: the stale ones end, and one may be made.
Made(q, snap) == runs[q] = NoRun /\ runs'[q] = [NoRun EXCEPT !.status = "QUEUED", !.snap = snap] /\ events'[q] = events[q]

LEMMA AdmitRuns ==
  ASSUME RunsSound, NEW c \in Client, asked[c] \in Nat, Admit(c)
  PROVE  /\ runs' \in [RunId -> Run] /\ events' \in [RunId -> SUBSET Event]
         /\ \A q \in RunId :
              \/ /\ Stale(q, asked[c]) /\ runs'[q].status = "SUPERSEDED"
                 /\ End(runs[q], runs'[q], events[q], events'[q])
              \/ ~ Stale(q, asked[c]) /\ runs'[q] = runs[q] /\ events'[q] = events[q]
              \/ Made(q, asked[c])
         /\ \A p, q \in RunId : Made(p, asked[c]) /\ Made(q, asked[c]) => p = q
         /\ (\E q \in RunId : Made(q, asked[c])) => \A q \in RunId : runs'[q].status \in Active => Made(q, asked[c])
<1>. DEFINE snap == asked[c]
            stale == {r \in RunId : Stale(r, snap)}
            same == {r \in RunId : runs[r].status \in Active /\ runs[r].snap = snap}
            free == {r \in RunId : runs[r].status = "NONE"}
            new == CHOOSE r \in free : TRUE
            first == [NoRun EXCEPT !.status = "QUEUED", !.snap = snap]
<1>1. /\ runs' = [r \in RunId |-> CASE r \in stale -> Counted(Over(runs[r], "SUPERSEDED"))
                                    [] same = {} /\ r = new -> first
                                    [] OTHER -> runs[r]]
      /\ events' = [r \in RunId |-> IF r \in stale THEN Published(r, "SUPERSEDED") ELSE events[r]]
      /\ same = {} => free # {}
  BY DEF Admit
<1>2. runs \in [RunId -> Run] /\ events \in [RunId -> SUBSET Event] /\ \A q \in RunId : RunIsKept(runs[q])
  BY DEF RunsSound
<1>3. same = {} => new \in free
  BY <1>1
<1>4. \A q \in stale : q \notin free
  BY DEF Stale, Active
<1>5. first \in Run /\ first.status = "QUEUED" /\ first.snap = snap
  <2>1. NoRun \in Run
    BY BoundsAssumption DEF NoRun, Run
  <2>2. first.status = "QUEUED" /\ first.snap = snap
    BY DEF NoRun
  <2>. HIDE DEF snap
  <2>3. snap \in Nat
    BY DEF snap
  <2>4. first \in Run
    BY <2>1, <2>3 DEF Run, Active
  <2>. QED
    BY <2>2, <2>4
<1>. HIDE DEF new, first, stale, same, free
<1>6. ASSUME NEW q \in RunId, q \in stale
      PROVE  /\ runs'[q] \in Run /\ events'[q] \in SUBSET Event /\ runs'[q].status = "SUPERSEDED"
             /\ End(runs[q], runs'[q], events[q], events'[q])
  <2>. DEFINE a == runs[q]
              o == Over(a, "SUPERSEDED")
              y == Published(q, "SUPERSEDED")
  <2>1. a \in Run /\ a.status \in Active /\ events[q] \in SUBSET Event
    BY <1>2, <1>6 DEF Stale, stale
  <2>2. runs'[q] = Counted(o) /\ events'[q] = y
    <3>. HIDE DEF y, o
    <3>1. events'[q] = y
      BY <1>1, <1>6 DEF y
    <3>2. runs'[q] = Counted(o)
      BY <1>1, <1>3, <1>4, <1>6 DEF o
    <3>. QED
      BY <3>1, <3>2
  <2>3. o \in Run /\ Kept(a, o) /\ o.status = "SUPERSEDED" /\ o.calls = a.calls /\ o.seq = a.seq
    BY <2>1, OverIs DEF Ended
  <2>. HIDE DEF o
  <2>4. Counted(o) \in Run /\ Kept(o, Counted(o)) /\ Counted(o).status = "SUPERSEDED" /\ Counted(o).calls = a.calls
        /\ Counted(o).seq = a.seq + 1
    BY <2>3, CountedIs
  <2>5. y = events[q] \cup {[seq |-> a.seq + 1, type |-> "SUPERSEDED"]} /\ y \in SUBSET Event
    BY <2>1 DEF Published, Event, Run, Ended
  <2>. HIDE DEF y
  <2>6. Kept(a, Counted(o))
    BY <2>3, <2>4 DEF Kept
  <2>7. End(a, Counted(o), events[q], y)
    BY <2>1, <2>4, <2>5, <2>6 DEF End, Tells, Ended
  <2>. QED
    BY <2>2, <2>4, <2>5, <2>7
<1>7. ASSUME NEW q \in RunId, q \notin stale
      PROVE  /\ events'[q] = events[q]
             /\ IF same = {} /\ q = new THEN runs'[q] = first ELSE runs'[q] = runs[q]
  BY <1>1, <1>7
<1>8. same = {} => Made(new, snap)
  BY <1>2, <1>3, <1>4, <1>7 DEF Made, RunIsKept, first, free
<1>9. \A q \in RunId : Made(q, snap) => same = {} /\ q = new
  <2>. SUFFICES ASSUME NEW q \in RunId, Made(q, snap) PROVE same = {} /\ q = new
    OBVIOUS
  <2>1. runs[q].status = "NONE" /\ runs'[q].status = "QUEUED"
    <3>1. runs[q] = NoRun /\ runs'[q] = first
      BY DEF Made, first
    <3>. QED
      BY <1>5, <3>1 DEF NoRun
  <2>2. q \notin stale
    BY <2>1 DEF Stale, Active, stale
  <2>. QED
    BY <1>7, <2>1, <2>2
<1>10. \A q \in RunId : runs'[q] \in Run /\ events'[q] \in SUBSET Event
  BY <1>2, <1>5, <1>6, <1>7
<1>11. runs' \in [RunId -> Run] /\ events' \in [RunId -> SUBSET Event]
  <2>1. runs' = [q \in RunId |-> runs'[q]] /\ events' = [q \in RunId |-> events'[q]]
    BY <1>1
  <2>. QED
    BY <1>10, <2>1
<1>12. \A q \in RunId :
         \/ /\ Stale(q, asked[c]) /\ runs'[q].status = "SUPERSEDED"
            /\ End(runs[q], runs'[q], events[q], events'[q])
         \/ ~ Stale(q, asked[c]) /\ runs'[q] = runs[q] /\ events'[q] = events[q]
         \/ Made(q, asked[c])
  BY <1>6, <1>7, <1>8 DEF stale
<1>13. ASSUME same = {}, NEW q \in RunId, runs'[q].status \in Active PROVE q = new
  <2>1. q \notin stale
    BY <1>6, <1>13 DEF End, Active, Ended
  <2>2. runs[q].status \notin Active
    BY <1>13, <2>1 DEF Stale, stale, same
  <2>. QED
    BY <1>7, <1>13, <2>1, <2>2
<1>. QED
  BY <1>8, <1>9, <1>11, <1>12, <1>13

LEMMA AdmitStep ==
  ASSUME Inductive, NEW c \in Client, Admit(c)
  PROVE  Inductive'
<1>. DEFINE snap == asked[c]
<1>1. RunsSound /\ WorkersSound /\ CallsReserved /\ RestSound /\ snap \in Nat
  BY BoundsAssumption DEF Inductive, RestSound
<1>2. UNCHANGED <<pc, mem, spent, source, mandates, binding, sweep>> /\ asked' = [asked EXCEPT ![c] = 0]
  BY DEF Admit, workerVars
<1>3. /\ runs' \in [RunId -> Run] /\ events' \in [RunId -> SUBSET Event]
      /\ \A q \in RunId :
           \/ End(runs[q], runs'[q], events[q], events'[q])
           \/ runs'[q] = runs[q] /\ events'[q] = events[q]
           \/ Made(q, snap)
      /\ \A p, q \in RunId : Made(p, snap) /\ Made(q, snap) => p = q
      /\ (\E q \in RunId : Made(q, snap)) => \A q \in RunId : runs'[q].status \in Active => Made(q, snap)
  BY <1>1, AdmitRuns
<1>. HIDE DEF snap
<1>4. \A q \in RunId : ~ Made(q, snap) => (runs'[q].status \in Active => runs[q].status \in Active)
  BY <1>3 DEF End, Active, Ended
<1>5. OneActiveReview'
  <2>1. CASE \E q \in RunId : Made(q, snap)
    BY <1>3, <2>1 DEF OneActiveReview
  <2>2. CASE \A q \in RunId : ~ Made(q, snap)
    BY <1>1, <1>4, <2>2 DEF OneActiveReview, RunsSound
  <2>. QED
    BY <2>1, <2>2
<1>6. ASSUME NEW q \in RunId PROVE StreamIsTold(runs'[q], events'[q]) /\ RunIsKept(runs'[q])
  <2>1. CASE End(runs[q], runs'[q], events[q], events'[q])
    BY <1>1, <1>3, <2>1, MoveKeeps DEF RunsSound, Move
  <2>2. CASE runs'[q] = runs[q] /\ events'[q] = events[q]
    BY <1>1, <2>2 DEF RunsSound
  <2>3. CASE Made(q, snap)
    <3>1. runs'[q].seq = runs[q].seq /\ runs[q].seq = 0
      BY <2>3 DEF Made, NoRun
    <3>2. StreamIsTold(runs[q], events[q])
      BY <1>1 DEF RunsSound
    <3>3. events[q] = {}
      BY <3>1, <3>2 DEF StreamIsTold
    <3>4. StreamIsTold(runs'[q], events'[q])
      <4>1. runs'[q].status = "QUEUED" /\ events'[q] = events[q]
        BY <2>3 DEF Made, NoRun
      <4>. QED
        BY <3>1, <3>2, <3>3, <4>1 DEF StreamIsTold, Ended
    <3>5. RunIsKept(runs'[q])
      BY <2>3, BoundsAssumption DEF Made, NoRun, RunIsKept
    <3>. QED
      BY <3>4, <3>5
  <2>. QED
    BY <1>3, <2>1, <2>2, <2>3
<1>7. RunsSound'
  BY <1>3, <1>5, <1>6 DEF RunsSound
<1>8. ASSUME NEW v \in Worker PROVE Stays(v)
  <2>. SUFFICES ASSUME mem[v].run # 0 PROVE Knows(pc[v], mem[v], runs'[mem[v].run])
    BY DEF Stays
  <2>1. mem[v] \in Memory /\ mem[v].run \in RunId /\ Knows(pc[v], mem[v], runs[mem[v].run])
    BY <1>1, BoundsAssumption DEF WorkersSound, WorkersKnow, Memory, RunId
  <2>2. PICK q \in RunId : q = mem[v].run
    BY <2>1
  <2>3. ~ Made(q, snap)
    BY <2>1, <2>2 DEF Made, NoRun, Knows
  <2>4. CASE End(runs[q], runs'[q], events[q], events'[q])
    <3>1. ~ Pay(runs[q], runs'[q], events[q], events'[q])
      BY <2>4 DEF End, Pay, Ended
    <3>2. Move(runs[q], runs'[q], events[q], events'[q]) /\ runs[q] \in Run /\ runs'[q] \in Run
      BY <1>1, <1>3, <2>4 DEF Move, RunsSound
    <3>. QED
      BY <2>1, <2>2, <3>1, <3>2, KnowsLater
  <2>5. CASE runs'[q] = runs[q]
    BY <2>1, <2>2, <2>5
  <2>. QED
    BY <1>3, <2>3, <2>4, <2>5
<1>9. WorkersSound'
  BY <1>1, <1>2, <1>8 DEF WorkersSound, WorkersKnow, GenerationsDiffer, Stays
<1>10. CallsReserved'
  <2>1. \A q \in RunId : runs'[q].calls = runs[q].calls
    <3>. SUFFICES ASSUME NEW q \in RunId PROVE runs'[q].calls = runs[q].calls
      OBVIOUS
    <3>1. End(runs[q], runs'[q], events[q], events'[q]) => runs'[q].calls = runs[q].calls
      BY DEF End
    <3>2. Made(q, snap) => runs'[q].calls = runs[q].calls
      BY DEF Made, NoRun
    <3>. QED
      BY <1>3, <3>1, <3>2
  <2>. QED
    BY <1>1, <1>2, <2>1, NothingReserved
<1>11. RestSound'
  <2>1. asked' \in [Client -> 0 .. MaxChanges + 1]
    BY <1>1, <1>2, BoundsAssumption DEF RestSound
  <2>. QED
    BY <1>1, <1>2, <2>1 DEF RestSound
<1>. QED
  BY <1>7, <1>9, <1>10, <1>11 DEF Inductive

-----------------------------------------------------------------------------
(* The theorems.                                                           *)

LEMMA InductiveInit == Init => Inductive
<1>. SUFFICES ASSUME Init PROVE Inductive
  OBVIOUS
<1>1. NoRun \in Run /\ NoRun.status = "NONE" /\ NoRun.calls = 0 /\ NoRun.seq = 0
  BY BoundsAssumption DEF NoRun, Run
<1>2. runs = [r \in RunId |-> NoRun] /\ events = [r \in RunId |-> {}] /\ spent = [r \in RunId |-> 0]
  BY DEF Init
<1>3. RunsSound
  <2>1. StreamIsTold(NoRun, {})
    <3>1. {i.seq : i \in {}} = 1 .. 0
      OBVIOUS
    <3>. QED
      BY <1>1, <3>1, FS_EmptySet DEF StreamIsTold, Ended
  <2>2. RunIsKept(NoRun)
    BY <1>1 DEF RunIsKept
  <2>3. OneActiveReview
    BY <1>1, <1>2 DEF OneActiveReview, Active
  <2>. QED
    BY <1>1, <1>2, <2>1, <2>2, <2>3 DEF RunsSound
<1>4. \A w \in Worker : pc[w] = "idle" /\ mem[w] = Idle
  BY DEF Init
<1>5. WorkersSound
  <2>1. pc \in [Worker -> Place] /\ mem \in [Worker -> Memory]
    BY IdleTyped DEF Init, Place
  <2>. QED
    BY <1>4, <2>1, IdleTyped DEF WorkersSound, WorkersKnow, GenerationsDiffer
<1>6. CallsReserved
  <2>1. \A r \in RunId : Pending(r) = {}
    BY <1>4 DEF Pending
  <2>. QED
    BY <1>1, <1>2, <2>1, FS_EmptySet DEF CallsReserved
<1>7. RestSound
  BY <1>2, BoundsAssumption DEF Init, RestSound
<1>. QED
  BY <1>3, <1>5, <1>6, <1>7 DEF Inductive

\* Every step but an admission moves one run at most, and keeps the invariant.
LEMMA StepKinds ==
  ASSUME Inductive, [Next]_vars
  PROVE  Inductive' /\ (MovesSome \/ \E c \in Client : Admit(c))
<1>1. CASE UNCHANGED vars
  <2>1. UNCHANGED <<runs, events, spent, source, asked, pc, mem, mandates, binding, sweep>>
    BY <1>1 DEF vars, clientVars
  <2>2. MovesOne /\ RestSound'
    BY <2>1 DEF MovesOne, Inductive, RestSound
  <2>. QED
    BY <2>1, <2>2, SharedStep
<1>2. ASSUME NEW c \in Client, Admit(c) PROVE Inductive'
  BY <1>2, AdmitStep
<1>3. ASSUME NEW r \in RunId,
             Supersede(r) \/ Cancel(r) \/ LeaseExpires(r) \/ RetryDue(r) \/ Recover(r) \/ Decide(r)
      PROVE  Inductive' /\ MovesSome
  BY <1>3, UserStep
<1>4. CASE \/ SourceChanges \/ ApprovalLost \/ SweepMark \/ Bind
           \/ \E c \in Client : ReadSource(c)
           \/ \E r \in RunId : CreateMandate(r)
           \/ \E m \in 1 .. Mandates : MandateEnds(m) \/ MandateExpires(m) \/ SweepMandate(m)
  BY <1>4, MandateStep
<1>5. ASSUME NEW w \in Worker, Claim(w) \/ Work(w) \/ WorkFails(w) \/ WorkerStops(w)
      PROVE  Inductive' /\ MovesSome
  BY <1>5, ClaimStep, WorkerReads, CheckpointStep, AppendEventStep, ReserveStep, PublishStep, FailRunStep DEF Work
<1>6. ASSUME NEW r \in RunId, NumberNote(r) \/ CreateNote(r)
      PROVE  Inductive' /\ MovesSome
  BY <1>6, NoteStep
<1>. QED
  BY <1>1, <1>2, <1>3, <1>4, <1>5, <1>6 DEF Next

LEMMA InductiveHolds == Spec => []Inductive
<1>1. Inductive /\ [Next]_vars => Inductive'
  BY StepKinds
<1>. QED
  BY <1>1, InductiveInit, PTL DEF Spec

LEMMA InductiveTyped == Inductive => TypeOK
  BY DEF Inductive, RunsSound, WorkersSound, RestSound, TypeOK, Event, Place

\* Every variable keeps its type in every reachable state.
THEOREM ReviewTypeCorrect == Spec => []TypeOK
  BY InductiveTyped, InductiveHolds, PTL

\* However many clients ask and however many workers take over, cancel or retire, a profile
\* has one review that is queued, running or waiting.
THEOREM OneReviewIsActive == Spec => []OneActiveReview
<1>1. Inductive => OneActiveReview
  BY DEF Inductive, RunsSound
<1>. QED
  BY <1>1, InductiveHolds, PTL

\* Whoever writes to the event stream of a review, each of its numbers is allocated once, only
\* authorization events follow its terminal event, which names the status of the review, and a
\* review without one was ended by its user or a mandate.
THEOREM StreamTellsTheEnd == Spec => []EventsTellTheEnd
<1>1. Inductive => EventsTellTheEnd
  BY DEF Inductive, RunsSound, StreamIsTold, EventsTellTheEnd
<1>. QED
  BY <1>1, InductiveHolds, PTL

\* No review makes more provider calls over all its attempts and workers than its budget:
\* a call is counted before it is made, also when its worker is lost in between.
THEOREM BudgetIsKept == Spec => []CallsStayInBudget
<1>1. Inductive => CallsStayInBudget
  <2>. SUFFICES ASSUME Inductive, NEW r \in RunId PROVE spent[r] <= MaxCalls
    BY DEF CallsStayInBudget
  <2>1. runs[r].calls \in 0 .. MaxCalls /\ spent[r] \in Nat
    BY DEF Inductive, RunsSound, RestSound, Run
  <2>2. spent[r] + Cardinality(Pending(r)) <= runs[r].calls /\ Cardinality(Pending(r)) \in Nat
    BY FS_CardinalityType DEF Inductive, CallsReserved
  <2>. QED
    BY <2>1, <2>2, BoundsAssumption
<1>. QED
  BY <1>1, InductiveHolds, PTL

\* A step that moves worker w is a step of w.
LEMMA MoverMoves ==
  ASSUME Inductive, [Next]_vars, NEW w \in Worker, pc'[w] # pc[w]
  PROVE  Claim(w) \/ Work(w) \/ WorkFails(w) \/ WorkerStops(w)
<1>1. pc \in [Worker -> Place] /\ pc' # pc
  BY DEF Inductive, WorkersSound
<1>2. ~ UNCHANGED vars
  BY <1>1 DEF vars
<1>3. ~ (\E c \in Client : ReadSource(c) \/ Admit(c)) /\ ~ SourceChanges /\ ~ Bind /\ ~ ApprovalLost /\ ~ SweepMark
  BY <1>1 DEF ReadSource, Admit, SourceChanges, Bind, ApprovalLost, SweepMark, workerVars
<1>4. \A r \in RunId : ~ (\/ Supersede(r) \/ Cancel(r) \/ LeaseExpires(r) \/ RetryDue(r) \/ Recover(r)
                          \/ Decide(r) \/ CreateMandate(r) \/ NumberNote(r) \/ CreateNote(r))
  BY <1>1 DEF Supersede, Cancel, LeaseExpires, RetryDue, Recover, Decide, CreateMandate, NumberNote, CreateNote, workerVars
<1>5. \A m \in 1 .. Mandates : ~ (MandateEnds(m) \/ MandateExpires(m) \/ SweepMandate(m))
  BY <1>1 DEF MandateEnds, MandateExpires, SweepMandate, workerVars
<1>6. PICK v \in Worker : Claim(v) \/ Work(v) \/ WorkFails(v) \/ WorkerStops(v)
  BY <1>2, <1>3, <1>4, <1>5 DEF Next
<1>7. \E p, m : Goes(v, p, m)
  <2>1. CASE Claim(v) \/ LoadContext(v) \/ Checkpoint(v) \/ AppendEvent(v) \/ Reserve(v) \/ Call(v)
    BY <2>1 DEF Claim, LoadContext, Checkpoint, AppendEvent, Reserve, Call
  <2>2. CASE ReadForFinish(v) \/ Publish(v) \/ FailRun(v) \/ WorkFails(v) \/ WorkerStops(v)
    BY <2>2 DEF ReadForFinish, Publish, FailRun, WorkFails, WorkerStops
  <2>. QED
    BY <1>6, <2>1, <2>2 DEF Work
<1>8. v = w
  BY <1>1, <1>7 DEF Goes
<1>. QED
  BY <1>6, <1>8

\* A worker whose run was claimed by another, retired or recovered writes nothing more to it.
THEOREM FencedReviewerStaysOut == Spec => FencedWorkerWritesNothing
<1>. DEFINE Fenced(w) ==
       pc[w] # "idle" /\ pc'[w] # pc[w] /\ (mem[w].gen # Held(w).gen \/ Held(w).status \in Ended)
            Silenced(w) == runs'[mem[w].run] = runs[mem[w].run] /\ events'[mem[w].run] = events[mem[w].run]
<1>1. ASSUME Inductive, [Next]_vars, NEW w \in Worker, Fenced(w)
      PROVE  Silenced(w)
  <2>1. Claim(w) \/ Work(w) \/ WorkFails(w) \/ WorkerStops(w)
    BY <1>1, MoverMoves
  <2>2. ~ Holds(w)
    BY <1>1 DEF Holds, Ended
  <2>3. CASE LoadContext(w) \/ Call(w) \/ ReadForFinish(w) \/ WorkFails(w) \/ WorkerStops(w)
    BY <2>3 DEF LoadContext, Call, ReadForFinish, WorkFails, WorkerStops
  <2>4. CASE Checkpoint(w) \/ AppendEvent(w) \/ Reserve(w) \/ Publish(w) \/ FailRun(w)
    BY <2>2, <2>4 DEF Checkpoint, AppendEvent, Reserve, MayReserve, Publish, Publishes, FailRun
  <2>5. ~ Claim(w)
    BY <1>1 DEF Claim
  <2>. QED
    BY <2>1, <2>3, <2>4, <2>5 DEF Work
<1>2. Inductive /\ [Next]_vars => [\A w \in Worker : Fenced(w) => Silenced(w)]_vars
  BY <1>1
<1>. QED
  BY <1>2, InductiveHolds, PTL DEF Spec, FencedWorkerWritesNothing

\* The phases that the statuses of a run mean.
LEMMA PhaseIs ==
  ASSUME NEW r \in RunId, runs[r].status \in Active \cup Ended \cup {"NONE"}
  PROVE  /\ Phase(r) = "absent" <=> runs[r].status = "NONE"
         /\ Phase(r) = "queued" <=> runs[r].status = "QUEUED"
         /\ Phase(r) = "running" <=> runs[r].status = "RUNNING"
         /\ Phase(r) = "waiting" <=> runs[r].status = "WAITING_FOR_APPROVAL"
         /\ runs[r].status \in Ended => Phase(r) = runs[r].status
  BY DEF Phase, Active, Ended

\* The same after a step.
LEMMA PhaseWillBe ==
  ASSUME NEW r \in RunId, runs'[r].status \in Active \cup Ended \cup {"NONE"}
  PROVE  /\ Phase(r)' = "absent" <=> runs'[r].status = "NONE"
         /\ Phase(r)' = "queued" <=> runs'[r].status = "QUEUED"
         /\ Phase(r)' = "running" <=> runs'[r].status = "RUNNING"
         /\ Phase(r)' = "waiting" <=> runs'[r].status = "WAITING_FOR_APPROVAL"
         /\ runs'[r].status \in Ended => Phase(r)' = runs'[r].status
  BY DEF Phase, Active, Ended

phases == [r \in RunId |-> Phase(r)]
starts == [r \in RunId |-> runs[r].attempt]
States == Active \cup Ended \cup {"NONE"}

\* What a step changes that moves run r alone.
LEMMA OnePhase ==
  ASSUME NEW r \in RunId, \A q \in RunId \ {r} : runs'[q] = runs[q]
  PROVE  /\ phases' = [phases EXCEPT ![r] = Phase(r)']
         /\ starts' = [starts EXCEPT ![r] = runs'[r].attempt]
<1>1. \A q \in RunId \ {r} : Phase(q)' = Phase(q)
  BY DEF Phase
<1>2. phases' = [q \in RunId |-> Phase(q)'] /\ starts' = [q \in RunId |-> runs'[q].attempt]
  BY DEF phases, starts
<1>3. [phases EXCEPT ![r] = Phase(r)'] = [q \in RunId |-> Phase(q)']
  BY <1>1 DEF phases
<1>4. [starts EXCEPT ![r] = runs'[r].attempt] = [q \in RunId |-> runs'[q].attempt]
  BY DEF starts
<1>. QED
  BY <1>2, <1>3, <1>4

\* The move of one run is a step of its life.
LEMMA MoveFollows ==
  ASSUME RunsSound, NEW r \in RunId, Moves(r)
  PROVE  [Lifecycle!LNext]_<<phases, starts>>
<1>. DEFINE a == runs[r]
            b == runs'[r]
            old == Phase(r)
            new == Phase(r)'
<1>1. a \in Run /\ b \in Run /\ Move(a, b, events[r], events'[r])
  BY DEF Moves, RunsSound
<1>2. a.status \in States /\ b.status \in States
  BY <1>1 DEF Run, States
<1>3. phases' = [phases EXCEPT ![r] = new] /\ starts' = [starts EXCEPT ![r] = b.attempt]
  BY OnePhase DEF Moves
<1>4. phases[r] = old /\ starts[r] = a.attempt
  BY DEF phases, starts
<1>5. /\ old = "queued" <=> a.status = "QUEUED"
      /\ old = "running" <=> a.status = "RUNNING"
      /\ old = "waiting" <=> a.status = "WAITING_FOR_APPROVAL"
  BY <1>2, PhaseIs DEF States
<1>6. /\ new = "queued" <=> b.status = "QUEUED"
      /\ new = "running" <=> b.status = "RUNNING"
      /\ new = "waiting" <=> b.status = "WAITING_FOR_APPROVAL"
      /\ b.status \in Ended => new = b.status
  BY <1>2, PhaseWillBe DEF States
<1>7. a.status = b.status => old = new
  BY DEF Phase
<1>8. b.attempt = a.attempt => starts' = starts
  BY <1>3, <1>4 DEF starts
<1>9. old = new => phases' = phases
  BY <1>3, <1>4 DEF phases
<1>. HIDE DEF old, new, a, b
<1>10. CASE \/ Touch(a, b, events[r], events'[r]) \/ Progress(a, b, events[r], events'[r])
            \/ Pay(a, b, events[r], events'[r]) \/ Noted(a, b, events[r], events'[r])
            \/ Fill(a, b, events[r], events'[r])
  BY <1>7, <1>8, <1>9, <1>10 DEF Touch, Progress, Pay, Noted, Fill, Kept
<1>11. CASE Start(a, b, events[r], events'[r])
  <2>1. Lifecycle!Run(r)
    BY <1>3, <1>4, <1>5, <1>6, <1>11 DEF Start, Lifecycle!Run, Lifecycle!Move, phases, starts
  <2>. QED
    BY <2>1 DEF Lifecycle!LNext
<1>12. CASE Queue(a, b, events[r], events'[r])
  <2>1. Lifecycle!Requeue(r)
    BY <1>3, <1>4, <1>5, <1>6, <1>8, <1>12 DEF Queue, Kept, Lifecycle!Requeue, Lifecycle!Move, phases, starts
  <2>. QED
    BY <2>1 DEF Lifecycle!LNext
<1>13. CASE Wait(a, b, events[r], events'[r])
  <2>1. Lifecycle!Answer(r)
    BY <1>3, <1>4, <1>5, <1>6, <1>8, <1>13 DEF Wait, Kept, Lifecycle!Answer, Lifecycle!Move, phases, starts
  <2>. QED
    BY <2>1 DEF Lifecycle!LNext
<1>14. CASE End(a, b, events[r], events'[r])
  <2>0. /\ old \in {"queued", "running", "waiting"} /\ new = b.status /\ starts' = starts
        /\ b.status \notin {"CANCELLED", "SUPERSEDED"} => old = "running"
    BY <1>5, <1>6, <1>8, <1>14 DEF End, Kept, Active
  <2>1. b.status \in {"CANCELLED", "SUPERSEDED"} => Lifecycle!Retire(r)
    BY <1>3, <1>4, <2>0 DEF Lifecycle!Retire, Lifecycle!Move, phases, starts
  <2>2. b.status \in {"COMPLETED", "FAILED", "BUDGET_EXCEEDED"} => Lifecycle!Answer(r)
    BY <1>3, <1>4, <2>0 DEF Lifecycle!Answer, Lifecycle!Move, phases, starts
  <2>. QED
    BY <1>14, <2>1, <2>2 DEF End, Ended, Lifecycle!LNext
<1>15. CASE Close(a, b, events[r], events'[r])
  <2>1. b.status = "CANCELLED" => Lifecycle!Retire(r)
    BY <1>3, <1>4, <1>5, <1>6, <1>8, <1>15
       DEF Close, Kept, Ended, Lifecycle!Retire, Lifecycle!Move, phases, starts
  <2>2. b.status \in {"COMPLETED", "FAILED"} => Lifecycle!Close(r)
    BY <1>3, <1>4, <1>5, <1>6, <1>8, <1>15
       DEF Close, Kept, Ended, Lifecycle!Close, Lifecycle!Move, phases, starts
  <2>. QED
    BY <1>15, <2>1, <2>2 DEF Close, Lifecycle!LNext
<1>. QED
  BY <1>1, <1>10, <1>11, <1>12, <1>13, <1>14, <1>15 DEF Move

\* An admission ends the stale review, if there is one, and asks for a new one, if none is active.
LEMMA AdmitFollows ==
  ASSUME Inductive, NEW c \in Client, Admit(c)
  PROVE  [Lifecycle!LNext]_<<phases, starts>>
<1>. DEFINE snap == asked[c]
<1>1. RunsSound /\ snap \in Nat
  BY BoundsAssumption DEF Inductive, RestSound
<1>2. /\ \A q \in RunId :
           \/ /\ Stale(q, snap) /\ runs'[q].status = "SUPERSEDED"
              /\ End(runs[q], runs'[q], events[q], events'[q])
           \/ ~ Stale(q, snap) /\ runs'[q] = runs[q] /\ events'[q] = events[q]
           \/ Made(q, snap)
      /\ \A p, q \in RunId : Made(p, snap) /\ Made(q, snap) => p = q
      /\ runs' \in [RunId -> Run] /\ events' \in [RunId -> SUBSET Event]
      /\ runs \in [RunId -> Run] /\ OneActiveReview
  BY <1>1, AdmitRuns DEF RunsSound
<1>. HIDE DEF snap
<1>3. \A p, q \in RunId : Stale(p, snap) /\ Stale(q, snap) => p = q
  BY <1>2 DEF OneActiveReview, Stale
<1>4. \A q \in RunId : Made(q, snap) => ~ Stale(q, snap)
  BY DEF Made, NoRun, Stale, Active
<1>5. CASE \A q \in RunId : ~ Stale(q, snap) /\ ~ Made(q, snap)
  <2>1. \A q \in RunId : runs'[q] = runs[q]
    BY <1>2, <1>5
  <2>. QED
    BY <2>1 DEF phases, starts, Phase
<1>6. ASSUME NEW p \in RunId, Stale(p, snap), \A q \in RunId : ~ Made(q, snap)
      PROVE  [Lifecycle!LNext]_<<phases, starts>>
  <2>1. Moves(p)
    BY <1>2, <1>3, <1>6 DEF Moves, Move
  <2>. QED
    BY <1>1, <2>1, MoveFollows
<1>7. ASSUME NEW q \in RunId, Made(q, snap), \A p \in RunId : ~ Stale(p, snap)
      PROVE  [Lifecycle!LNext]_<<phases, starts>>
  <2>1. \A p \in RunId \ {q} : runs'[p] = runs[p]
    BY <1>2, <1>7
  <2>2. phases' = [phases EXCEPT ![q] = Phase(q)'] /\ starts' = [starts EXCEPT ![q] = runs'[q].attempt]
    BY <2>1, OnePhase
  <2>3. runs[q].status = "NONE" /\ runs'[q].status = "QUEUED" /\ runs'[q].attempt = runs[q].attempt
    BY <1>7 DEF Made, NoRun
  <2>4. phases[q] = "absent" /\ Phase(q)' = "queued" /\ starts[q] = runs[q].attempt
    BY <2>3 DEF phases, starts, Phase
  <2>5. starts' = starts
    BY <2>2, <2>3, <2>4 DEF starts
  <2>6. Lifecycle!Ask(q)
    BY <2>2, <2>4, <2>5 DEF Lifecycle!Ask, Lifecycle!Move, phases, starts
  <2>. QED
    BY <2>6 DEF Lifecycle!LNext
<1>8. ASSUME NEW q \in RunId, Made(q, snap), NEW p \in RunId, Stale(p, snap)
      PROVE  [Lifecycle!LNext]_<<phases, starts>>
  <2>1. p # q /\ \A z \in RunId \ {p, q} : runs'[z] = runs[z]
    BY <1>2, <1>3, <1>4, <1>8
  <2>2. /\ runs[q].status = "NONE" /\ runs'[q].status = "QUEUED" /\ runs'[q].attempt = runs[q].attempt
    BY <1>8 DEF Made, NoRun
  <2>3. runs[p].status \in Active /\ runs'[p].status = "SUPERSEDED" /\ runs'[p].attempt = runs[p].attempt
    <3>1. End(runs[p], runs'[p], events[p], events'[p]) /\ runs'[p].status = "SUPERSEDED"
      BY <1>2, <1>4, <1>8
    <3>. QED
      BY <3>1 DEF End, Kept
  <2>4. Phase(q) = "absent" /\ Phase(q)' = "queued" /\ Phase(p) \in {"queued", "running", "waiting"}
        /\ Phase(p)' = "SUPERSEDED"
    BY <2>2, <2>3 DEF Phase, Active
  <2>5. \A z \in RunId \ {p, q} : Phase(z)' = Phase(z)
    BY <2>1 DEF Phase
  <2>6. phases' = [phases EXCEPT ![p] = "SUPERSEDED", ![q] = "queued"]
    BY <2>1, <2>4, <2>5 DEF phases
  <2>7. starts' = starts
    BY <2>1, <2>2, <2>3 DEF starts
  <2>8. Lifecycle!Replace(p, q)
    BY <2>4, <2>6, <2>7 DEF Lifecycle!Replace, phases, starts
  <2>. QED
    BY <2>8 DEF Lifecycle!LNext
<1>. QED
  BY <1>5, <1>6, <1>7, <1>8

\* Each review is started MaxAttempts times at most and ends once, whoever of its worker, its
\* user, an admission and the sweeps ends it.
THEOREM ReviewFollowsLifecycle == Spec => ImplementsLifecycle
<1>1. Init => Lifecycle!LInit
  BY DEF Init, Lifecycle!LInit, Phase, NoRun
<1>2. Inductive /\ [Next]_vars => [Lifecycle!LNext]_<<phases, starts>>
  <2>. SUFFICES ASSUME Inductive, [Next]_vars PROVE [Lifecycle!LNext]_<<phases, starts>>
    OBVIOUS
  <2>1. CASE MovesSome
    <3>1. CASE UNCHANGED <<runs, events>>
      BY <3>1 DEF phases, starts, Phase
    <3>2. CASE \E r \in RunId : Moves(r)
      BY <3>2, MoveFollows DEF Inductive
    <3>. QED
      BY <2>1, <3>1, <3>2 DEF MovesSome
  <2>2. CASE \E c \in Client : Admit(c)
    BY <2>2, AdmitFollows
  <2>. QED
    BY <2>1, <2>2, StepKinds
<1>. QED
  BY <1>1, <1>2, InductiveHolds, PTL DEF Spec, ImplementsLifecycle, Lifecycle!LSpec, phases, starts
=============================================================================
