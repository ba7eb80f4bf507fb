-------------------------- MODULE ServicesProofs --------------------------
(***************************************************************************)
(* Proofs about Services, for every set of servers, requests and tasks and *)
(* every bound.  Each service has an inductive invariant of its own, and a *)
(* step of one leaves the others at rest.                                  *)
(***************************************************************************)
EXTENDS Services, Sequences, FiniteSetTheorems, TLAPS

-----------------------------------------------------------------------------
(* The inductive invariants *)

Writer ==
  [at : {"idle", "state", "claim", "generate", "persist", "respond", "fail"}, saw : 0 .. Portfolios, ready : 0 .. Portfolios,
   text : 0 .. Portfolios]

\* The request that writes the text holds the claim.
TextInv == Text!TypeOK /\ \A w \in Worker : Text!Writes(w) => advice.status = "GENERATING" /\ advice.token = w

Call == Worker \cup {None}

\* A call whose permit counts is one of the breaker's state; only a probe goes while it is half open.
Counting ==
  /\ \A c \in Call :
       /\ calls[c].overtaken => ~calls[c].current
       /\ calls[c].current => calls[c].out /\ breaker.state # "OPEN"
       /\ calls[c].current => (calls[c].probe <=> breaker.state = "HALF_OPEN")
  /\ breaker.state = "HALF_OPEN" =>
       /\ breaker.probing <=> \E c \in Call : calls[c].current
       /\ \A c, d \in Call : calls[c].current /\ calls[d].current => c = d

Breaker == [state : {"CLOSED", "OPEN", "HALF_OPEN"}, cooled : BOOLEAN, failures : 0 .. Threshold, probing : BOOLEAN]
Permit == [out : BOOLEAN, current : BOOLEAN, probe : BOOLEAN, overtaken : BOOLEAN]

CircuitInv == Circuit!TypeOK /\ Counting

\* What the calls that are under way may still cost.
Callers == {w \in Worker : turns[w].at = "call"}
Owed == used + UpperBound * Cardinality(Callers)

\* What a turn holds was reserved by it; it is charged if a provider was asked.
Turn(w) ==
  LET turn == turns[w] IN
  /\ turn.at \in {"idle", "claim", "reserve", "call"} => turn.tokens = 0
  /\ turn.at = "reserve" => turn.held = 0 \/ turn.failed
  /\ turn.at \in {"idle", "claim"} => turn.held = 0 /\ ~turn.failed /\ ~turn.tried
  /\ turn.at = "call" /\ ~turn.failed => turn.held = UpperBound
  /\ turn.failed => turn.tried
  /\ turn.at # "call" => turn.held = 0 \/ turn.tried

\* The turn that owns the session knows what is reserved, except when the answer to a reservation was lost.
Owner(w) ==
  LET turn == turns[w] IN
  /\ turn.at \in {"reserve", "call", "complete", "release"}
  /\ turn.held <= turn.reserved /\ turn.reserved <= chat.reserved
  /\ turn.at # "release" => turn.reserved = chat.reserved
  /\ Owed <= chat.spent + turn.reserved
  /\ turn.at = "complete" /\ ~turn.failed /\ turn.tokens > 0 =>
       turn.tokens <= turn.held /\ Owed + (turn.held - turn.tokens) <= chat.spent + chat.reserved

Session ==
  [spent : Nat, reserved : Nat, owner : Worker \cup {None, Gone}, live : BOOLEAN, active : BOOLEAN,
   sequence : Nat, numbers : Seq(Nat)]
Message ==
  [at : {"idle", "claim", "reserve", "call", "complete", "release"}, late : BOOLEAN, saw : Nat,
   reserved : Nat, held : Nat, tried : BOOLEAN, failed : BOOLEAN, tokens : Nat]

ChatInv ==
  /\ Chat!TypeOK
  /\ IsFiniteSet(Callers)
  /\ Owed <= chat.spent + chat.reserved /\ chat.spent + chat.reserved <= Cap
  /\ ~chat.active => chat.owner = None
  /\ \A w \in Worker : Turn(w) /\ (chat.owner = w => Owner(w))

Edit ==
  [kind : Goals!Kind, copy : Goals!GoalDoc, source : Goals!Source, tries : 0 .. Attempts - 1,
   answer : {"none", "ok", "deleted", "unverified", "refused"},
   at : {"idle", "plan", "recheck", "advise", "save", "delete", "snapshot", "confirm", "end"}]

\* A request's copy is of a goal that existed, and of this one if nobody has saved it since.
CopyOf(e) ==
  /\ e.at = "plan" => e.kind \in {"target", "advice"}
  /\ e.at = "recheck" => e.kind \in {"target", "priority"}
  /\ e.at = "advise" => e.kind \in {"target", "advice"}
  /\ e.at \in {"plan", "recheck", "advise", "save"} =>
       /\ e.kind # "delete" /\ e.copy.exists /\ e.copy.version <= goal.version
       /\ e.copy.version = goal.version =>
            /\ e.kind # "target" => e.copy.target = goal.target /\ e.copy.plan = goal.plan
            /\ e.kind # "priority" => e.copy.priority = goal.priority
            /\ e.kind = "priority" => e.copy.advice = goal.advice
  /\ e.at \in {"advise", "save"} /\ e.kind # "priority" => e.copy.plan.source = e.source.state
  /\ e.at = "save" /\ e.kind # "priority" => e.copy.advice.source = e.source.state

GoalsInv == Goals!TypeOK /\ \A r \in Request : CopyOf(edits[r])

Document == [status : {"NONE", "SUBMITTED", "WORKING", "COMPLETED", "FAILED", "CANCELED"}, fence : Nat,
             token : Worker \cup {None}, live : BOOLEAN]
Slot == [task : Task, token : Worker \cup {None}, fence : Nat, left : {"live", "closing"}]
Runner == [at : {"idle", "acquire", "take", "undo", "work", "renew", "free"}, task : Task \cup {None}, fence : Nat]

\* A worker that runs its task under a live lease has the slot of its claim, with time left.
Placed(w) ==
  LET r == runner[w] IN
  /\ r.at # "idle" => r.task \in Task
  /\ r.at \in {"undo", "work", "renew"} /\ tasks[r.task].live /\ tasks[r.task].token = w /\ tasks[r.task].fence = r.fence =>
       \E s \in slots : s.task = r.task /\ s.token = w /\ s.fence = r.fence /\ s.left = "live"

\* The tasks that have a slot.
Slotted == {t \in Task : \E s \in slots : s.task = t}

ResearchInv ==
  /\ Research!TypeOK
  /\ \A s, q \in slots : s.task = q.task => s = q
  /\ IsFiniteSet(Slotted) /\ Cardinality(Slotted) <= Capacity
  /\ \A s \in freeing : s.fence < tasks[s.task].fence
  /\ \A w \in Worker : Placed(w)

Lease == [status : {"PENDING", "RUNNING", "FAILED", "COMPLETED", "COMPLETED_WITH_ERRORS"}, generation : 0 .. Claims, live : BOOLEAN,
          cursor : 0 .. Users, failed : BOOLEAN]
Sweep == [at : {"idle", "list", "inspect"}, generation : 0 .. Claims, cursor : 0 .. Users, failed : BOOLEAN]
Fence == {"NONE", "RUNNING", "PUBLISHED", "TIMED_OUT", "STALE", "CANCELLED", "FAILED"}
Inspection == [at : {"none", "read", "write", "written", "over"}, revision : 0 .. Revisions, late : BOOLEAN,
               fence : Fence, outcome : {"none", "ok", "failed"}]

\* The plan of user u was inspected, and the result published.
Inspected(u) == \E g \in 1 .. Claims : looks[<<g, u>>].fence = "PUBLISHED"
Untouched(i) == looks[i].at = "none" /\ looks[i].fence = "NONE" /\ looks[i].outcome = "none"

\* A scan goes on where the lease is, in a generation of its own.
Scanning(w) ==
  LET s == scans[w] IN
  /\ s.generation \in 1 .. lease.generation
  /\ s.generation = lease.generation => s.cursor = lease.cursor /\ s.failed = lease.failed
  /\ ~s.failed => \A u \in 1 .. s.cursor : Inspected(u)
  /\ s.at = "inspect" => s.cursor < Users /\ looks[<<s.generation, s.cursor + 1>>].fence # "NONE"
  /\ \A u \in 1 .. Users : u > s.cursor + (IF s.at = "inspect" THEN 1 ELSE 0) => Untouched(<<s.generation, u>>)
  /\ \A v \in Worker : v # w /\ scans[v].at # "idle" => scans[v].generation # s.generation

\* An inspection counts as made only once it is published.
Outcome(i) ==
  /\ looks[i].outcome = "ok" \/ looks[i].at = "written" => looks[i].fence = "PUBLISHED"
  /\ looks[i].outcome = "none" => looks[i].fence \in {"NONE", "RUNNING", "PUBLISHED"}
  /\ looks[i].fence = "NONE" => looks[i].at \in {"none", "over"}

ScanInv ==
  /\ Scan!TypeOK
  /\ Scan!CompletedMeansInspected
  /\ ~lease.failed => \A u \in 1 .. lease.cursor : Inspected(u)
  /\ \A w \in Worker : scans[w].at # "idle" => Scanning(w)
  /\ \A i \in Scan!Look : Outcome(i) /\ (i[1] > lease.generation => Untouched(i))

-----------------------------------------------------------------------------
(* A step is one of the service that a behaviour is of *)

\* The part of a behaviour never changes.
LEMMA PartStays == [Next]_<<part, troubles, services>> => part' = part
  BY DEF Next, services

LEMMA TextMoves ==
  ASSUME [Next]_<<part, troubles, services>>, part = "text"
  PROVE  Text!Next \/ UNCHANGED <<advice, writers, portfolio, troubles>>
  BY DEF Next, services, textVars

LEMMA CircuitMoves ==
  ASSUME [Next]_<<part, troubles, services>>, part = "circuit"
  PROVE  Circuit!Next \/ UNCHANGED <<breaker, calls>>
  BY DEF Next, services, circuitVars

LEMMA ChatMoves ==
  ASSUME [Next]_<<part, troubles, services>>, part = "chat"
  PROVE  Chat!Next \/ UNCHANGED <<chat, turns, used, troubles>>
  BY DEF Next, services, chatVars

LEMMA GoalsMoves ==
  ASSUME [Next]_<<part, troubles, services>>, part = "goals"
  PROVE  Goals!Next \/ UNCHANGED <<goal, edits, source>>
  BY DEF Next, services, goalVars

LEMMA ResearchMoves ==
  ASSUME [Next]_<<part, troubles, services>>, part = "research"
  PROVE  Research!Next \/ UNCHANGED <<tasks, slots, runner, freeing, troubles>>
  BY DEF Next, services, researchVars

LEMMA ScanMoves ==
  ASSUME [Next]_<<part, troubles, services>>, part = "scan"
  PROVE  Scan!Next \/ UNCHANGED <<lease, scans, looks, revision, troubles>>
  BY DEF Next, services, scanVars

-----------------------------------------------------------------------------
(* The deferred advisory text *)

LEMMA TextInit == Text!Init => TextInv
  BY NobodyAssumption, BoundsAssumption
  DEF Text!Init, TextInv, Text!TypeOK, Text!Writes, Text!State, Text!Idle

Advice == [status : {"PENDING", "GENERATING", "READY", "FAILED"}, bound : 0 .. Portfolios, text : 0 .. Portfolios,
           token : Worker \cup {None}]

LEMMA TextStep ==
  ASSUME TextInv, Text!Next
  PROVE  TextInv'
<1>. DEFINE Kept == /\ advice' \in Advice /\ writers' \in [Worker -> Writer]
                    /\ portfolio' \in 0 .. Portfolios /\ troubles' \in 0 .. Troubles
                    /\ \A v \in Worker : writers'[v].at \in {"generate", "persist"} =>
                         advice'.status = "GENERATING" /\ advice'.token = v
<1>0. /\ advice \in Advice /\ portfolio \in 0 .. Portfolios /\ troubles \in 0 .. Troubles /\ writers \in [Worker -> Writer]
      /\ \A w \in Worker : writers[w].at \in {"generate", "persist"} => advice.status = "GENERATING" /\ advice.token = w
      /\ \A w \in Worker : writers[w] \in Writer
  BY DEF TextInv, Text!TypeOK, Text!State, Text!Writes, Writer, Advice
<1>. SUFFICES Kept
  BY DEF TextInv, Text!TypeOK, Text!State, Text!Writes, Writer, Advice
<1>. USE BoundsAssumption DEF Text!At, Writer, Advice
<1>1. ASSUME NEW w \in Worker, Text!Load(w) PROVE Kept
  BY <1>0, <1>1 DEF Text!Load
<1>2. ASSUME NEW w \in Worker, Text!ReadState(w) PROVE Kept
  BY <1>0, <1>2 DEF Text!ReadState, Text!Answer, Text!Idle
<1>3. ASSUME NEW w \in Worker, Text!Claim(w) PROVE Kept
  <2>1. advice.status # "GENERATING"
    BY <1>3 DEF Text!Claim, Text!Claimable
  <2>2. advice' = [advice EXCEPT !.status = "GENERATING", !.bound = writers[w].saw, !.token = w]
        /\ writers' = [writers EXCEPT ![w].at = "generate"] /\ UNCHANGED <<portfolio, troubles>>
    BY <1>3 DEF Text!Claim, Text!Goto
  <2>3. writers[w].saw \in 0 .. Portfolios /\ writers' \in [Worker -> Writer]
    BY <1>0, <2>2
  <2>4. advice' \in Advice /\ advice'.status = "GENERATING" /\ advice'.token = w
    BY <1>0, <2>2, <2>3
  <2>5. \A v \in Worker : v # w => writers'[v].at \notin {"generate", "persist"}
    BY <1>0, <2>1, <2>2
  <2>. QED
    BY <1>0, <2>2, <2>3, <2>4, <2>5
<1>4. ASSUME NEW w \in Worker, Text!ClaimRefused(w) PROVE Kept
  BY <1>0, <1>4 DEF Text!ClaimRefused, Text!Answer, Text!Idle
<1>5. ASSUME NEW w \in Worker, Text!Generate(w) PROVE Kept
  <2>1. CASE writers' = [writers EXCEPT ![w].at = "persist", ![w].text = portfolio]
    <3>1. writers' = [writers EXCEPT ![w] = [@ EXCEPT !.at = "persist", !.text = portfolio]]
      BY <1>0, <2>1
    <3>. QED
      BY <1>0, <1>5, <3>1 DEF Text!Generate
  <2>2. CASE writers' = [writers EXCEPT ![w].at = "fail"]
    BY <1>0, <1>5, <2>2 DEF Text!Generate
  <2>. QED
    BY <1>5, <2>1, <2>2 DEF Text!Generate, Text!Goto
<1>6. ASSUME NEW w \in Worker, Text!Persist(w) PROVE Kept
  <2>1. /\ portfolio' = portfolio /\ troubles' \in 0 .. Troubles
        /\ \E place \in {"respond", "fail"} : writers' = [writers EXCEPT ![w].at = place]
        /\ \/ advice' = advice
           \/ advice' = [advice EXCEPT !.status = "READY", !.text = writers[w].text, !.bound = writers[w].text]
    BY <1>0, <1>6 DEF Text!Persist, Text!Goto, Text!Trouble
  <2>2. \A v \in Worker : v # w => writers[v].at \notin {"generate", "persist"}
    BY <1>0, <1>6 DEF Text!Persist
  <2>3. writers' \in [Worker -> Writer] /\ \A v \in Worker : writers'[v].at \notin {"generate", "persist"}
    BY <1>0, <2>1, <2>2
  <2>4. advice' \in Advice
    BY <1>0, <2>1
  <2>. QED
    BY <1>0, <2>1, <2>3, <2>4
<1>7. ASSUME NEW w \in Worker, Text!Respond(w) PROVE Kept
  BY <1>0, <1>7 DEF Text!Respond, Text!Goto, Text!Answer, Text!Idle
<1>8. ASSUME NEW w \in Worker, Text!Fail(w) PROVE Kept
  BY <1>0, <1>8 DEF Text!Fail, Text!Trouble, Text!Answer, Text!Idle
<1>9. ASSUME NEW w \in Worker, Text!Crash(w) PROVE Kept
  BY <1>0, <1>9 DEF Text!Crash, Text!Trouble, Text!Answer, Text!Idle
<1>10. CASE Text!Change
  BY <1>0, <1>10 DEF Text!Change
<1>. QED
  BY <1>1, <1>2, <1>3, <1>4, <1>5, <1>6, <1>7, <1>8, <1>9, <1>10 DEF Text!Next, Text!Serve

LEMMA TextAlways == Spec => [](part = "text" => TextInv)
<1>. DEFINE Inv == part = "text" => TextInv
<1>1. Init => Inv
  BY TextInit DEF Init
<1>2. Inv /\ [Next]_<<part, troubles, services>> => Inv'
  <2>. SUFFICES ASSUME part = "text", TextInv, [Next]_<<part, troubles, services>> PROVE TextInv'
    BY PartStays
  <2>1. CASE UNCHANGED <<advice, writers, portfolio, troubles>>
    BY <2>1 DEF TextInv, Text!TypeOK, Text!Writes
  <2>. QED
    BY <2>1, TextMoves, TextStep
<1>. QED
  BY <1>1, <1>2, PTL DEF Spec

\* One request at a time writes the text of a recommendation: who writes holds the claim, and
\* no failure of another's gives it away.
THEOREM OneWriterOfText == Spec => []OneWrites
<1>1. (part = "text" => TextInv) => OneWrites
  BY DEF TextInv, OneWrites, Text!OneWrites
<1>. QED
  BY <1>1, TextAlways, PTL

-----------------------------------------------------------------------------
(* The circuit breaker *)

LEMMA CircuitInit == Circuit!Init => CircuitInv
  BY BoundsAssumption DEF Circuit!Init, CircuitInv, Circuit!TypeOK, Circuit!Idle, Circuit!Closed, Call, Counting

\* A call that ends takes its permit with it, whatever becomes of the circuit.
LEMMA CallEnds ==
  ASSUME CircuitInv, NEW c \in Call,
         \/ calls' = Circuit!Consumed(c)
         \/ calls' = Circuit!Outdated(c)
  PROVE  /\ calls' \in [Call -> Permit] /\ calls'[c] = Circuit!Idle
         /\ calls' = Circuit!Consumed(c) => \A d \in Call : d # c => calls'[d] = calls[d]
         /\ calls' = Circuit!Outdated(c) => \A d \in Call : ~calls'[d].current
<1>1. calls \in [Call -> Permit]
  BY DEF CircuitInv, Circuit!TypeOK, Permit, Call
<1>2. CASE calls' = Circuit!Consumed(c)
  BY <1>1, <1>2 DEF Circuit!Consumed, Circuit!Outdated, Circuit!Idle, Permit, Call
<1>3. CASE calls' = Circuit!Outdated(c)
  BY <1>1, <1>3 DEF Circuit!Consumed, Circuit!Outdated, Circuit!Idle, Permit, Call
<1>. QED
  BY <1>2, <1>3

LEMMA CircuitStep ==
  ASSUME CircuitInv, Circuit!Next
  PROVE  CircuitInv'
<1>0. breaker \in Breaker /\ calls \in [Call -> Permit] /\ Counting
  BY DEF CircuitInv, Circuit!TypeOK, Breaker, Permit, Call
<1>. SUFFICES breaker' \in Breaker /\ calls' \in [Call -> Permit] /\ Counting'
  BY DEF CircuitInv, Circuit!TypeOK, Breaker, Permit, Call
<1>. USE BoundsAssumption
<1>. DEFINE Goal == breaker' \in Breaker /\ calls' \in [Call -> Permit] /\ Counting'
<1>1. ASSUME NEW c \in Call, Circuit!Ask(c) PROVE Goal
  <2>. DEFINE b == Circuit!Refreshed(breaker)
              probe == b.state = "HALF_OPEN"
  <2>0. b \in Breaker
    BY <1>0 DEF Circuit!Refreshed, Breaker
  <2>1. CASE Circuit!Admits(b)
    <3>1. /\ breaker' = [b EXCEPT !.probing = probe]
          /\ calls' = [calls EXCEPT ![c] = [out |-> TRUE, current |-> TRUE, probe |-> probe, overtaken |-> FALSE]]
          /\ ~calls[c].out
      BY <1>1, <2>1 DEF Circuit!Ask
    <3>2. breaker' \in Breaker /\ breaker'.state = b.state /\ (breaker'.probing <=> probe)
      BY <2>0, <3>1 DEF Breaker
    <3>3. /\ calls' \in [Call -> Permit] /\ \A d \in Call : d # c => calls'[d] = calls[d]
          /\ calls'[c].out /\ calls'[c].current /\ ~calls'[c].overtaken /\ (calls'[c].probe <=> probe)
      BY <1>0, <3>1 DEF Permit
    <3>4. probe => \A d \in Call : ~calls[d].current
      BY <1>0, <2>1 DEF Counting, Circuit!Refreshed, Circuit!Admits, Breaker
    <3>5. b.state # "OPEN" /\ (~probe => b = breaker)
      BY <1>0, <2>1 DEF Circuit!Refreshed, Circuit!Admits, Breaker
    <3>6. CASE probe
      BY <1>0, <3>2, <3>3, <3>4, <3>6 DEF Counting
    <3>7. CASE ~probe
      BY <1>0, <3>2, <3>3, <3>5, <3>7 DEF Counting, Breaker
    <3>. QED
      BY <3>6, <3>7
  <2>2. CASE ~Circuit!Admits(b)
    <3>1. breaker' = b /\ calls' = calls
      BY <1>1, <2>2 DEF Circuit!Ask
    <3>2. b = breaker
      BY <1>0, <2>2 DEF Circuit!Refreshed, Circuit!Admits, Breaker
    <3>. QED
      BY <1>0, <3>1, <3>2 DEF Counting
  <2>. QED
    BY <2>1, <2>2
<1>2. ASSUME NEW c \in Call, Circuit!Answered(c) PROVE Goal
  <2>1. CASE calls[c].current /\ calls[c].probe
    <3>1. breaker' = Circuit!Closed /\ calls' = Circuit!Outdated(c)
      BY <1>2, <2>1 DEF Circuit!Answered
    <3>2. breaker' \in Breaker /\ breaker'.state = "CLOSED"
      BY <3>1 DEF Circuit!Closed, Breaker
    <3>. QED
      BY <3>1, <3>2, CallEnds DEF Counting
  <2>2. CASE ~(calls[c].current /\ calls[c].probe)
    <3>1. /\ breaker' \in Breaker /\ breaker'.state = breaker.state /\ breaker'.probing = breaker.probing
          /\ calls' = Circuit!Consumed(c)
      BY <1>0, <1>2, <2>2 DEF Circuit!Answered, Breaker
    <3>2. breaker.state = "HALF_OPEN" => ~calls[c].current
      BY <1>0, <2>2 DEF Counting
    <3>. QED
      BY <1>0, <3>1, <3>2, CallEnds DEF Counting, Circuit!Idle
  <2>. QED
    BY <2>1, <2>2
<1>3. ASSUME NEW c \in Call, Circuit!Failed(c) PROVE Goal
  <2>. DEFINE failures == IF breaker.failures < Threshold THEN breaker.failures + 1 ELSE Threshold
  <2>0. failures \in 0 .. Threshold
    BY <1>0 DEF Breaker
  <2>1. CASE ~calls[c].current
    <3>1. breaker' = breaker /\ calls' = Circuit!Consumed(c)
      BY <1>3, <2>1 DEF Circuit!Failed
    <3>. QED
      BY <1>0, <2>1, <3>1, CallEnds DEF Counting, Circuit!Idle
  <2>2. CASE calls[c].current /\ (calls[c].probe \/ (breaker.state = "CLOSED" /\ failures = Threshold))
    <3>1. /\ breaker' = [state |-> "OPEN", cooled |-> FALSE, failures |-> failures, probing |-> FALSE]
          /\ calls' = Circuit!Outdated(c)
      BY <1>3, <2>2 DEF Circuit!Failed
    <3>2. breaker' \in Breaker /\ breaker'.state = "OPEN"
      BY <2>0, <3>1 DEF Breaker
    <3>. QED
      BY <3>1, <3>2, CallEnds DEF Counting
  <2>3. CASE calls[c].current /\ ~(calls[c].probe \/ (breaker.state = "CLOSED" /\ failures = Threshold))
    <3>1. breaker' = [breaker EXCEPT !.failures = failures] /\ calls' = Circuit!Consumed(c)
      BY <1>3, <2>3 DEF Circuit!Failed
    <3>2. breaker' \in Breaker /\ breaker'.state = breaker.state /\ breaker'.probing = breaker.probing
      BY <1>0, <2>0, <3>1 DEF Breaker
    <3>3. breaker.state # "HALF_OPEN"
      BY <1>0, <2>3 DEF Counting
    <3>. QED
      BY <1>0, <3>1, <3>2, <3>3, CallEnds DEF Counting, Circuit!Idle
  <2>. QED
    BY <2>1, <2>2, <2>3
<1>4. ASSUME NEW c \in Call, Circuit!Released(c) PROVE Goal
  <2>1. /\ calls' = Circuit!Consumed(c) /\ breaker' \in Breaker /\ breaker'.state = breaker.state
        /\ breaker.state = "HALF_OPEN" => (breaker'.probing <=> breaker.probing /\ ~calls[c].current)
    BY <1>0, <1>4 DEF Circuit!Released, Breaker, Counting
  <2>2. /\ calls' \in [Call -> Permit] /\ calls'[c] = Circuit!Idle
        /\ \A d \in Call : d # c => calls'[d] = calls[d]
    BY <2>1, CallEnds
  <2>. QED
    BY <1>0, <2>1, <2>2 DEF Counting, Circuit!Idle
<1>5. CASE Circuit!Cools
  <2>1. breaker' \in Breaker /\ breaker'.state = breaker.state /\ breaker'.probing = breaker.probing /\ calls' = calls
    BY <1>0, <1>5 DEF Circuit!Cools, Breaker
  <2>. QED
    BY <1>0, <2>1 DEF Counting
<1>. QED
  BY <1>1, <1>2, <1>3, <1>4, <1>5 DEF Circuit!Next, Call

LEMMA CircuitAlways == Spec => [](part = "circuit" => CircuitInv)
<1>. DEFINE Inv == part = "circuit" => CircuitInv
<1>1. Init => Inv
  BY CircuitInit DEF Init
<1>2. Inv /\ [Next]_<<part, troubles, services>> => Inv'
  <2>. SUFFICES ASSUME part = "circuit", CircuitInv, [Next]_<<part, troubles, services>> PROVE CircuitInv'
    BY PartStays
  <2>1. CASE UNCHANGED <<breaker, calls>>
    BY <2>1 DEF CircuitInv, Circuit!TypeOK, Counting
  <2>. QED
    BY <2>1, CircuitMoves, CircuitStep
<1>. QED
  BY <1>1, <1>2, PTL DEF Spec

LEMMA CircuitCardinality == \A S : Circuit!Cardinality(S) = Cardinality(S)
  BY DEF Circuit!Cardinality, Cardinality

\* A half-open circuit has one probe under way or none, as it believes, and no call that was
\* overtaken by a change of the circuit counts.
THEOREM OneProbe == Spec => []ProbeIsTheOneCall
<1>1. ASSUME CircuitInv PROVE Circuit!ProbeIsTheOneCall
  <2>. DEFINE Out == {c \in Call : calls[c].out /\ calls[c].current}
  <2>1. ASSUME breaker.state = "HALF_OPEN" PROVE Cardinality(Out) = IF breaker.probing THEN 1 ELSE 0
    <3>1. CASE breaker.probing
      <4>1. PICK c \in Call : calls[c].current
        BY <1>1, <2>1, <3>1 DEF CircuitInv, Counting
      <4>2. Out = {c}
        BY <1>1, <2>1, <4>1 DEF CircuitInv, Counting
      <4>. QED
        BY <3>1, <4>2, FS_Singleton
    <3>2. CASE ~breaker.probing
      <4>1. Out = {}
        BY <1>1, <2>1, <3>2 DEF CircuitInv, Counting
      <4>. QED
        BY <3>2, <4>1, FS_EmptySet
    <3>. QED
      BY <3>1, <3>2
  <2>2. \A c \in Worker \cup {None} : calls[c].overtaken => ~calls[c].current
    BY <1>1 DEF CircuitInv, Counting, Call
  <2>3. Out = {c \in Worker \cup {None} : calls[c].out /\ calls[c].current}
    BY DEF Call
  <2>. HIDE DEF Out
  <2>. QED
    BY <2>1, <2>2, <2>3, CircuitCardinality DEF Circuit!ProbeIsTheOneCall
<1>2. (part = "circuit" => CircuitInv) => ProbeIsTheOneCall
  BY <1>1 DEF ProbeIsTheOneCall
<1>. QED
  BY <1>2, CircuitAlways, PTL
-----------------------------------------------------------------------------
(* The chat session *)

LEMMA ChatInit == Chat!Init => ChatInv
<1>. SUFFICES ASSUME Chat!Init PROVE ChatInv
  OBVIOUS
<1>1. Callers = {}
  BY DEF Chat!Init, Chat!Idle, Callers
<1>2. IsFiniteSet(Callers) /\ Owed = 0
  BY <1>1, FS_EmptySet, BoundsAssumption DEF Chat!Init, Owed
<1>3. Chat!TypeOK
  BY BoundsAssumption DEF Chat!Init, Chat!TypeOK, Chat!Idle
<1>4. \A w \in Worker : Turn(w)
  BY DEF Chat!Init, Chat!Idle, Turn
<1>. QED
  BY <1>2, <1>3, <1>4, NobodyAssumption, BoundsAssumption DEF Chat!Init, ChatInv

\* The fields of session and turns have their types.
LEMMA ChatTypes ==
  ASSUME ChatInv
  PROVE  /\ chat \in Session /\ turns \in [Worker -> Message] /\ used \in Nat /\ troubles \in 0 .. Troubles
         /\ chat.spent \in Nat /\ chat.reserved \in Nat /\ chat.owner \in Worker \cup {None, Gone}
         /\ \A w \in Worker : /\ turns[w] \in Message /\ turns[w].reserved \in Nat /\ turns[w].held \in Nat
                              /\ turns[w].tokens \in Nat /\ turns[w].saw \in Nat
         /\ UpperBound * Cardinality(Callers) \in Nat /\ Owed \in Nat
<1>1. chat \in Session /\ turns \in [Worker -> Message] /\ used \in Nat /\ troubles \in 0 .. Troubles
  BY DEF ChatInv, Chat!TypeOK, Session, Message
<1>2. Cardinality(Callers) \in Nat
  BY FS_CardinalityType DEF ChatInv
<1>3. UpperBound * Cardinality(Callers) \in Nat
  BY <1>2, BoundsAssumption
<1>4. Owed \in Nat
  BY <1>1, <1>3 DEF Owed
<1>. QED
  BY <1>1, <1>3, <1>4 DEF Session, Message

\* A call that begins may cost the upper bound, one that ends no longer.
LEMMA CallersMove ==
  ASSUME ChatInv, NEW w \in Worker, NEW m \in Message, turns' = [turns EXCEPT ![w] = m], used' \in Nat
  PROVE  /\ IsFiniteSet(Callers')
         /\ turns[w].at # "call" /\ m.at = "call" => Owed' = used' + (Owed - used) + UpperBound
         /\ turns[w].at = "call" /\ m.at # "call" =>
              Owed' = used' + (Owed - used) - UpperBound /\ Owed - used >= UpperBound
         /\ (turns[w].at = "call" <=> m.at = "call") => Owed' = used' + (Owed - used)
<1>. DEFINE n == Cardinality(Callers)
<1>0. IsFiniteSet(Callers) /\ n \in Nat /\ turns \in [Worker -> Message] /\ used \in Nat /\ UpperBound \in Nat
  BY ChatTypes, FS_CardinalityType, BoundsAssumption DEF ChatInv
<1>1. CASE turns[w].at # "call" /\ m.at = "call"
  <2>1. Callers' = Callers \cup {w} /\ w \notin Callers
    BY <1>0, <1>1 DEF Callers
  <2>2. IsFiniteSet(Callers') /\ Cardinality(Callers') = n + 1
    BY <1>0, <2>1, FS_AddElement
  <2>3. UpperBound * (n + 1) = UpperBound * n + UpperBound /\ UpperBound * n \in Nat
    BY <1>0
  <2>. QED
    BY <1>0, <1>1, <2>2, <2>3 DEF Owed
<1>2. CASE turns[w].at = "call" /\ m.at # "call"
  <2>1. Callers' = Callers \ {w} /\ w \in Callers
    BY <1>0, <1>2 DEF Callers
  <2>2. IsFiniteSet(Callers') /\ Cardinality(Callers') = n - 1
    BY <1>0, <2>1, FS_RemoveElement
  <2>3. n - 1 \in Nat
    BY <1>0, <2>2, FS_CardinalityType
  <2>4. UpperBound * n = UpperBound * (n - 1) + UpperBound /\ UpperBound * (n - 1) \in Nat
    BY <1>0, <2>3
  <2>. QED
    BY <1>0, <1>2, <2>2, <2>4 DEF Owed
<1>3. CASE turns[w].at = "call" <=> m.at = "call"
  <2>1. Callers' = Callers
    BY <1>0, <1>3 DEF Callers
  <2>. QED
    BY <1>0, <1>3, <2>1 DEF Owed
<1>. QED
  BY <1>1, <1>2, <1>3

\* A turn that does not move keeps what it knows, unless the session is taken from it.
LEMMA OthersKeep ==
  ASSUME ChatInv, NEW v \in Worker, turns'[v] = turns[v], Owed' <= Owed, Owed' \in Nat,
         chat.owner = v, chat'.spent = chat.spent, chat'.reserved = chat.reserved
  PROVE  Owner(v)'
  BY ChatTypes DEF ChatInv, Owner


\* What a step of one turn has to leave behind.
LEMMA ChatMove ==
  ASSUME ChatInv, NEW w \in Worker, NEW m \in Message, turns' = [turns EXCEPT ![w] = m],
         chat' \in Session, used' \in Nat, troubles' \in 0 .. Troubles, Owed' \in Nat,
         Owed' <= chat'.spent + chat'.reserved, chat'.spent + chat'.reserved <= Cap,
         ~chat'.active => chat'.owner = None,
         \A v \in Worker : v # w /\ chat'.owner = v =>
           /\ chat.owner = v /\ chat'.spent = chat.spent /\ chat'.reserved = chat.reserved
           /\ Owed' <= Owed,
         Turn(w)', chat'.owner = w => Owner(w)'
  PROVE  ChatInv'
<1>1. turns \in [Worker -> Message]
  BY ChatTypes
<1>2. turns' \in [Worker -> Message] /\ \A v \in Worker : v # w => turns'[v] = turns[v]
  BY <1>1
<1>3. Chat!TypeOK'
  BY <1>2 DEF Chat!TypeOK, Session, Message
<1>4. IsFiniteSet(Callers')
  BY CallersMove
<1>5. \A v \in Worker : Turn(v)' /\ (chat'.owner = v => Owner(v)')
  <2>. SUFFICES ASSUME NEW v \in Worker, v # w PROVE Turn(v)' /\ (chat'.owner = v => Owner(v)')
    OBVIOUS
  <2>1. Turn(v)'
    BY <1>2 DEF ChatInv, Turn
  <2>2. ASSUME chat'.owner = v PROVE Owner(v)'
    BY <1>2, <2>2, OthersKeep
  <2>. QED
    BY <2>1, <2>2
<1>. QED
  BY <1>3, <1>4, <1>5 DEF ChatInv

\* The bookkeeping of ChatMove for a turn that neither begins nor ends a call.
LEMMA OwedStays ==
  ASSUME ChatInv, NEW w \in Worker, NEW m \in Message, turns' = [turns EXCEPT ![w] = m], used' = used,
         turns[w].at = "call" <=> m.at = "call"
  PROVE  Owed' = Owed /\ Owed' \in Nat /\ used' \in Nat
<1>1. used \in Nat /\ Owed \in Nat
  BY ChatTypes
<1>2. Owed' = used + (Owed - used)
  BY <1>1, CallersMove
<1>. QED
  BY <1>1, <1>2

\* Settling charges what is reserved, and changes no total.
LEMMA SettledType ==
  ASSUME ChatInv
  PROVE  /\ chat \in Session /\ Chat!Settled \in Session
         /\ Chat!Settled.spent = chat.spent + chat.reserved /\ Chat!Settled.reserved = 0
         /\ Chat!Settled.spent + Chat!Settled.reserved = chat.spent + chat.reserved
         /\ Chat!Settled.owner = None /\ Chat!Settled.active = chat.active
<1>1. chat \in Session /\ chat.spent \in Nat /\ chat.reserved \in Nat
  BY ChatTypes
<1>. DEFINE total == chat.spent + chat.reserved
<1>2. total \in Nat /\ total + 0 = total
  BY <1>1
<1>3. Chat!Settled = [chat EXCEPT !.spent = total, !.reserved = 0, !.owner = None, !.live = FALSE]
  BY DEF Chat!Settled
<1>. HIDE DEF total
<1>4. /\ Chat!Settled \in Session /\ Chat!Settled.spent = total /\ Chat!Settled.reserved = 0
      /\ Chat!Settled.owner = None /\ Chat!Settled.active = chat.active
  BY <1>1, <1>2, <1>3 DEF Session
<1>. QED
  BY <1>1, <1>2, <1>4 DEF total

LEMMA SettleKeeps == ASSUME ChatInv, NEW w \in Worker, Chat!Settle(w) PROVE ChatInv'
<1>. DEFINE m == [turns[w] EXCEPT !.at = "claim", !.late = (chat.owner # None /\ ~chat.live)]
<1>1. m \in Message /\ turns' = [turns EXCEPT ![w] = m] /\ turns[w].at = "idle" /\ m.at = "claim"
  BY ChatTypes DEF Chat!Settle, Chat!At, Message
<1>2. used' = used /\ troubles' = troubles
  BY DEF Chat!Settle
<1>3. chat' = chat \/ chat' = Chat!Settled
  BY DEF Chat!Settle
<1>4. /\ chat' \in Session /\ chat'.spent + chat'.reserved = chat.spent + chat.reserved
      /\ chat'.active = chat.active /\ (chat' = chat \/ chat'.owner = None)
  BY <1>3, SettledType
<1>5. Owed' = Owed /\ Owed' \in Nat /\ used' \in Nat
  BY <1>1, <1>2, OwedStays
<1>6. Turn(w)'
  BY <1>1, ChatTypes DEF ChatInv, Turn, Message
<1>7. chat'.owner \in Worker => chat' = chat /\ chat'.owner # w
  BY <1>1, <1>4, NobodyAssumption DEF ChatInv, Owner
<1>8. \A v \in Worker : v # w /\ chat'.owner = v =>
        chat.owner = v /\ chat'.spent = chat.spent /\ chat'.reserved = chat.reserved /\ Owed' <= Owed
  BY <1>5, <1>7
<1>9. /\ Owed' <= chat'.spent + chat'.reserved /\ chat'.spent + chat'.reserved <= Cap
      /\ ~chat'.active => chat'.owner = None
  BY <1>4, <1>5 DEF ChatInv
<1>. HIDE DEF m
<1>. QED
  BY <1>1, <1>2, <1>4, <1>5, <1>6, <1>7, <1>8, <1>9, ChatMove, ChatTypes
\* A turn that ends leaves nothing of itself behind, if the session is not its own.
LEMMA EndKeeps ==
  ASSUME ChatInv, NEW w \in Worker, turns' = [turns EXCEPT ![w] = Chat!Idle], chat' \in Session, used' = used,
         Owed <= chat'.spent + chat'.reserved,
         chat'.spent + chat'.reserved <= Cap,
         chat'.active = chat.active, troubles' \in 0 .. Troubles, chat'.owner # w,
         ~chat.active => chat'.owner = None,
         chat'.owner \in Worker => chat' = chat
  PROVE  ChatInv'
<1>0. /\ turns[w] \in Message /\ turns \in [Worker -> Message] /\ used \in Nat /\ Owed \in Nat
      /\ UpperBound \in Nat /\ Chat!Idle \in Message /\ Chat!Idle.at = "idle"
  BY ChatTypes, BoundsAssumption DEF Chat!Idle, Message
<1>1. Owed' \in Nat /\ Owed' <= Owed /\ Owed' <= chat'.spent + chat'.reserved
  <2>1. CASE turns[w].at = "call"
    <3>1. Owed' = used + (Owed - used) - UpperBound /\ Owed - used >= UpperBound
      BY <1>0, <2>1, CallersMove
    <3>. QED
      BY <1>0, <2>1, <3>1 DEF Session
  <2>2. CASE turns[w].at # "call"
    <3>1. Owed' = Owed /\ Owed' \in Nat
      BY <1>0, <2>2, OwedStays
    <3>. QED
      BY <1>0, <2>2, <3>1
  <2>. QED
    BY <2>1, <2>2
<1>2. Turn(w)'
  BY <1>0 DEF Turn, Chat!Idle
<1>. QED
  BY <1>0, <1>1, <1>2, ChatMove

\* A turn gives up its place for a later one.
LEMMA GotoKeeps ==
  ASSUME ChatInv, NEW w \in Worker, NEW place \in {"complete", "release"},
         turns' = [turns EXCEPT ![w].at = place], turns[w].at \in {"reserve", "complete"},
         place = "complete" => turns[w].at = "reserve",
         chat' = chat, used' = used, troubles' \in 0 .. Troubles
  PROVE  ChatInv'
<1>. DEFINE m == [turns[w] EXCEPT !.at = place]
<1>0. /\ turns[w] \in Message /\ turns \in [Worker -> Message] /\ chat \in Session /\ Turn(w)
      /\ chat.owner = w => Owner(w)
  BY ChatTypes DEF ChatInv
<1>1. turns' = [turns EXCEPT ![w] = m] /\ turns'[w] = m
  BY <1>0
<1>2. /\ m \in Message /\ m.at = place /\ m.reserved = turns[w].reserved /\ m.held = turns[w].held
      /\ m.tokens = turns[w].tokens /\ m.failed = turns[w].failed /\ m.tried = turns[w].tried
  BY <1>0 DEF Message
<1>. HIDE DEF m
<1>3. Owed' = Owed /\ Owed' \in Nat /\ used' \in Nat
  BY <1>0, <1>1, <1>2, OwedStays
<1>4. Turn(w)'
  BY <1>0, <1>1, <1>2, ChatTypes DEF Turn
<1>5. ASSUME chat'.owner = w PROVE Owner(w)'
  BY <1>0, <1>1, <1>2, <1>3, <1>5, ChatTypes DEF Owner, Turn
<1>6. /\ Owed' <= chat'.spent + chat'.reserved /\ chat'.spent + chat'.reserved <= Cap
      /\ ~chat'.active => chat'.owner = None
  BY <1>3 DEF ChatInv
<1>7. \A v \in Worker : v # w /\ chat'.owner = v =>
        chat.owner = v /\ chat'.spent = chat.spent /\ chat'.reserved = chat.reserved /\ Owed' <= Owed
  BY <1>0, <1>3
<1>. QED
  BY <1>0, <1>1, <1>2, <1>3, <1>4, <1>5, <1>6, <1>7, ChatMove

LEMMA TroubleType == ASSUME ChatInv, Chat!Trouble PROVE troubles' \in 0 .. Troubles
  BY ChatTypes, BoundsAssumption DEF Chat!Trouble

LEMMA ClaimKeeps == ASSUME ChatInv, NEW w \in Worker, Chat!Claim(w) PROVE ChatInv'
<1>0. /\ turns[w] \in Message /\ turns \in [Worker -> Message] /\ turns[w].at = "claim" /\ chat \in Session
      /\ used' = used /\ troubles' = troubles /\ chat.sequence \in Nat
  BY ChatTypes DEF Chat!Claim, Chat!At, Session
<1>1. CASE chat.active /\ (chat.owner = None \/ (turns[w].late /\ ~chat.live))
  <2>. DEFINE m == [turns[w] EXCEPT !.at = "reserve", !.saw = chat.sequence, !.reserved = chat.reserved]
  <2>1. chat' = [chat EXCEPT !.owner = w, !.live = TRUE] /\ turns' = [turns EXCEPT ![w] = m]
    BY <1>0, <1>1 DEF Chat!Claim
  <2>2. /\ m \in Message /\ m.at = "reserve" /\ m.reserved = chat.reserved /\ m.held = turns[w].held
        /\ m.tokens = turns[w].tokens /\ m.failed = turns[w].failed /\ m.tried = turns[w].tried
    BY <1>0, ChatTypes DEF Message
  <2>3. /\ chat' \in Session /\ chat'.owner = w /\ chat'.spent = chat.spent /\ chat'.reserved = chat.reserved
        /\ chat'.active
    BY <1>0, <1>1, <2>1 DEF Session
  <2>. HIDE DEF m
  <2>4. Owed' = Owed /\ Owed' \in Nat /\ used' \in Nat
    BY <1>0, <2>1, <2>2, OwedStays
  <2>5. turns'[w] = m
    BY <1>0, <2>1
  <2>6. Turn(w)'
    BY <1>0, <2>2, <2>5, ChatTypes DEF ChatInv, Turn
  <2>7. Owner(w)'
    BY <1>0, <2>2, <2>3, <2>4, <2>5, ChatTypes DEF ChatInv, Turn, Owner
  <2>8. Owed' <= chat'.spent + chat'.reserved /\ chat'.spent + chat'.reserved <= Cap
    BY <2>3, <2>4 DEF ChatInv
  <2>. QED
    BY <1>0, <2>1, <2>2, <2>3, <2>4, <2>6, <2>7, <2>8, ChatMove, ChatTypes
<1>2. CASE ~(chat.active /\ (chat.owner = None \/ (turns[w].late /\ ~chat.live)))
  <2>1. chat' = chat /\ turns' = [turns EXCEPT ![w] = Chat!Idle]
    BY <1>2 DEF Chat!Claim, Chat!Ends
  <2>2. chat.owner # w
    BY <1>0 DEF ChatInv, Owner
  <2>3. /\ Owed <= chat'.spent + chat'.reserved
        /\ chat'.spent + chat'.reserved <= Cap
        /\ ~chat.active => chat'.owner = None
    BY <1>0, <2>1, ChatTypes DEF ChatInv
  <2>4. /\ chat' \in Session /\ chat'.active = chat.active /\ troubles' \in 0 .. Troubles
        /\ chat'.owner # w
    BY <1>0, <2>1, <2>2, ChatTypes
  <2>. QED
    BY <1>0, <2>1, <2>3, <2>4, EndKeeps
<1>. QED
  BY <1>1, <1>2

LEMMA ReserveKeeps == ASSUME ChatInv, NEW w \in Worker, Chat!Reserve(w) PROVE ChatInv'
<1>0. /\ turns[w] \in Message /\ turns \in [Worker -> Message] /\ turns[w].at = "reserve" /\ chat \in Session
      /\ used' = used /\ UpperBound \in Nat /\ chat.spent \in Nat /\ chat.reserved \in Nat /\ Cap \in Nat
      /\ turns[w].held \in Nat /\ turns[w].tokens \in Nat /\ used \in Nat /\ Owed \in Nat
  BY ChatTypes, BoundsAssumption DEF Chat!Reserve, Chat!At
<1>1. CASE Chat!Holds(w) /\ Chat!Affordable
  <2>1. /\ chat' = [chat EXCEPT !.reserved = chat.reserved + UpperBound]
        /\ chat.owner = w /\ chat.active /\ chat.spent + chat.reserved + UpperBound <= Cap
    BY <1>1 DEF Chat!Reserve, Chat!Holds, Chat!Affordable
  <2>2. /\ chat' \in Session /\ chat'.owner = w /\ chat'.spent = chat.spent
        /\ chat'.reserved = chat.reserved + UpperBound /\ chat'.active
    <3>. DEFINE n == chat.reserved + UpperBound
    <3>1. n \in Nat /\ chat' = [chat EXCEPT !.reserved = n]
      BY <1>0, <2>1
    <3>. HIDE DEF n
    <3>2. chat' \in Session /\ chat'.owner = w /\ chat'.spent = chat.spent /\ chat'.reserved = n /\ chat'.active
      BY <1>0, <2>1, <3>1 DEF Session
    <3>. QED
      BY <3>2 DEF n
  <2>3. Owner(w) /\ Turn(w) /\ Owed <= chat.spent + chat.reserved
    BY <2>1 DEF ChatInv
  <2>4. chat'.spent + chat'.reserved <= Cap
    BY <1>0, <2>1, <2>2
  <2>5. CASE turns' = [turns EXCEPT ![w].at = "call", ![w].held = @ + UpperBound, ![w].reserved = chat'.reserved]
             /\ troubles' = troubles
    <3>. DEFINE m == [turns[w] EXCEPT !.at = "call", !.held = turns[w].held + UpperBound,
                                      !.reserved = chat.reserved + UpperBound]
    <3>1. turns' = [turns EXCEPT ![w] = m]
      BY <1>0, <2>2, <2>5
    <3>2. /\ m \in Message /\ m.at = "call" /\ m.reserved = chat.reserved + UpperBound
          /\ m.held = turns[w].held + UpperBound
          /\ m.tokens = turns[w].tokens /\ m.failed = turns[w].failed /\ m.tried = turns[w].tried
      <4>. DEFINE h == turns[w].held + UpperBound
                  n == chat.reserved + UpperBound
      <4>1. h \in Nat /\ n \in Nat /\ m = [turns[w] EXCEPT !.at = "call", !.held = h, !.reserved = n]
        BY <1>0
      <4>. HIDE DEF h, n, m
      <4>2. /\ m \in Message /\ m.at = "call" /\ m.reserved = n /\ m.held = h
            /\ m.tokens = turns[w].tokens /\ m.failed = turns[w].failed /\ m.tried = turns[w].tried
        BY <1>0, <4>1 DEF Message
      <4>. QED
        BY <4>2 DEF h, n
    <3>. HIDE DEF m
    <3>3. Owed' = Owed + UpperBound /\ Owed' \in Nat /\ used' \in Nat
      <4>1. Owed' = used + (Owed - used) + UpperBound
        BY <1>0, <3>1, <3>2, CallersMove
      <4>. QED
        BY <1>0, <4>1
    <3>4. turns'[w] = m
      BY <1>0, <3>1
    <3>5. Turn(w)'
      BY <1>0, <2>3, <3>2, <3>4 DEF Turn
    <3>6. Owner(w)'
      BY <1>0, <2>2, <2>3, <3>2, <3>3, <3>4 DEF Owner
    <3>7. Owed' <= chat'.spent + chat'.reserved
      BY <1>0, <2>2, <2>3, <3>3
    <3>. QED
      BY <1>0, <2>2, <2>4, <2>5, <3>1, <3>2, <3>3, <3>5, <3>6, <3>7, ChatMove, ChatTypes
  <2>6. CASE Chat!Trouble /\ turns' = [turns EXCEPT ![w].at = "release"]
    <3>. DEFINE m == [turns[w] EXCEPT !.at = "release"]
    <3>1. turns' = [turns EXCEPT ![w] = m]
      BY <1>0, <2>6
    <3>2. /\ m \in Message /\ m.at = "release" /\ m.reserved = turns[w].reserved /\ m.held = turns[w].held
          /\ m.tokens = turns[w].tokens /\ m.failed = turns[w].failed /\ m.tried = turns[w].tried
      BY <1>0 DEF Message
    <3>. HIDE DEF m
    <3>3. Owed' = Owed /\ Owed' \in Nat /\ used' \in Nat
      BY <1>0, <3>1, <3>2, OwedStays
    <3>4. turns'[w] = m
      BY <1>0, <3>1
    <3>5. Turn(w)'
      BY <1>0, <2>3, <3>2, <3>4 DEF Turn
    <3>6. Owner(w)'
      BY <1>0, <2>2, <2>3, <3>2, <3>3, <3>4 DEF Owner
    <3>7. Owed' <= chat'.spent + chat'.reserved
      BY <1>0, <2>2, <2>3, <3>3
    <3>8. troubles' \in 0 .. Troubles
      BY <2>6, TroubleType
    <3>. QED
      BY <1>0, <2>2, <2>4, <3>1, <3>2, <3>3, <3>5, <3>6, <3>7, <3>8, ChatMove
  <2>. QED
    BY <1>1, <2>5, <2>6 DEF Chat!Reserve, Chat!Goto
<1>2. CASE ~(Chat!Holds(w) /\ Chat!Affordable)
  <2>1. chat' = chat /\ turns' = [turns EXCEPT ![w].at = "complete"] /\ troubles' = troubles
    BY <1>2 DEF Chat!Reserve, Chat!Goto
  <2>. QED
    BY <1>0, <2>1, GotoKeeps, ChatTypes
<1>. QED
  BY <1>1, <1>2
LEMMA CallKeeps == ASSUME ChatInv, NEW w \in Worker, Chat!Call(w) PROVE ChatInv'
<1>0. /\ turns[w] \in Message /\ turns \in [Worker -> Message] /\ turns[w].at = "call" /\ chat \in Session
      /\ UpperBound \in Nat /\ chat.spent \in Nat /\ chat.reserved \in Nat /\ Cap \in Nat
      /\ turns[w].held \in Nat /\ turns[w].tokens = 0 /\ used \in Nat /\ Owed \in Nat /\ chat' = chat
      /\ troubles' \in 0 .. Troubles /\ Turn(w) /\ (chat.owner = w => Owner(w))
  <2>1. turns[w].at = "call" /\ chat' = chat /\ troubles' = troubles
    BY ZenonT(60) DEF Chat!Call, Chat!At
  <2>. QED
    BY <2>1, ChatTypes, BoundsAssumption DEF ChatInv, Turn
<1>1. PICK cost \in 1 .. UpperBound :
        /\ used' = used + cost
        /\ \/ \E tokens \in {0, cost} :
                turns' = [turns EXCEPT ![w] = [@ EXCEPT !.at = "complete", !.tried = TRUE, !.tokens = tokens]]
           \/ \E place \in {"complete", "reserve"} :
                turns' = [turns EXCEPT ![w] = [@ EXCEPT !.at = place, !.tried = TRUE, !.failed = TRUE]]
  BY ZenonT(60) DEF Chat!Call
<1>5. cost \in Nat /\ cost <= UpperBound /\ used' = used + cost
  <2>1. used' = used + cost
    BY <1>1
  <2>. QED
    BY <1>0, <2>1
<1>2. ASSUME NEW m \in Message, m.at # "call", turns' = [turns EXCEPT ![w] = m]
      PROVE  /\ Owed' = Owed + cost - UpperBound /\ Owed' \in Nat /\ used' \in Nat /\ turns'[w] = m
             /\ Owed' <= Owed /\ Owed' <= chat'.spent + chat'.reserved /\ chat'.spent + chat'.reserved <= Cap
             /\ ~chat'.active => chat'.owner = None
  <2>1. used' \in Nat
    BY <1>0, <1>5
  <2>2. Owed' = used' + (Owed - used) - UpperBound /\ Owed - used >= UpperBound
    BY <1>0, <1>2, <2>1, CallersMove
  <2>3. Owed <= chat.spent + chat.reserved /\ chat.spent + chat.reserved <= Cap /\ (~chat.active => chat.owner = None)
    BY DEF ChatInv
  <2>. QED
    BY <1>0, <1>5, <1>2, <2>1, <2>2, <2>3
<1>3. ASSUME NEW tokens \in {0, cost},
             turns' = [turns EXCEPT ![w] = [@ EXCEPT !.at = "complete", !.tried = TRUE, !.tokens = tokens]]
      PROVE  ChatInv'
  <2>. DEFINE m == [turns[w] EXCEPT !.at = "complete", !.tried = TRUE, !.tokens = tokens]
  <2>1. turns' = [turns EXCEPT ![w] = m] /\ tokens \in Nat
    BY <1>5, <1>3
  <2>2. /\ m \in Message /\ m.at = "complete" /\ m.tried /\ m.tokens = tokens /\ m.held = turns[w].held
        /\ m.reserved = turns[w].reserved /\ m.failed = turns[w].failed
    BY <1>0, <2>1 DEF Message
  <2>. HIDE DEF m
  <2>3. /\ Owed' = Owed + cost - UpperBound /\ Owed' \in Nat /\ used' \in Nat /\ turns'[w] = m
        /\ Owed' <= Owed /\ Owed' <= chat'.spent + chat'.reserved /\ chat'.spent + chat'.reserved <= Cap
        /\ ~chat'.active => chat'.owner = None
    BY <1>2, <2>1, <2>2
  <2>4. Turn(w)'
    BY <2>2, <2>3 DEF Turn
  <2>5. ASSUME chat'.owner = w PROVE Owner(w)'
    BY <1>0, <1>5, <1>3, <2>2, <2>3, <2>5 DEF Owner, Turn
  <2>. QED
    BY <1>0, <2>1, <2>2, <2>3, <2>4, <2>5, ChatMove
<1>4. ASSUME NEW place \in {"complete", "reserve"},
             turns' = [turns EXCEPT ![w] = [@ EXCEPT !.at = place, !.tried = TRUE, !.failed = TRUE]]
      PROVE  ChatInv'
  <2>. DEFINE m == [turns[w] EXCEPT !.at = place, !.tried = TRUE, !.failed = TRUE]
  <2>1. turns' = [turns EXCEPT ![w] = m] /\ place \in {"complete", "reserve"}
    BY <1>4
  <2>2. /\ m \in Message /\ m.at = place /\ m.tried /\ m.tokens = 0 /\ m.held = turns[w].held
        /\ m.reserved = turns[w].reserved /\ m.failed
    BY <1>0, <2>1 DEF Message
  <2>. HIDE DEF m
  <2>3. /\ Owed' = Owed + cost - UpperBound /\ Owed' \in Nat /\ used' \in Nat /\ turns'[w] = m
        /\ Owed' <= Owed /\ Owed' <= chat'.spent + chat'.reserved /\ chat'.spent + chat'.reserved <= Cap
        /\ ~chat'.active => chat'.owner = None
    BY <1>2, <2>1, <2>2
  <2>4. Turn(w)'
    BY <2>1, <2>2, <2>3 DEF Turn
  <2>5. ASSUME chat'.owner = w PROVE Owner(w)'
    BY <1>0, <2>1, <2>2, <2>3, <2>5 DEF Owner, Turn
  <2>. QED
    BY <1>0, <2>1, <2>2, <2>3, <2>4, <2>5, ChatMove
<1>. QED
  BY <1>1, <1>3, <1>4

LEMMA CompleteKeeps == ASSUME ChatInv, NEW w \in Worker, Chat!Complete(w) PROVE ChatInv'
<1>0. /\ turns[w] \in Message /\ turns \in [Worker -> Message] /\ turns[w].at = "complete" /\ chat \in Session
      /\ used' = used /\ chat.spent \in Nat /\ chat.reserved \in Nat /\ Cap \in Nat
      /\ turns[w].held \in Nat /\ turns[w].tokens \in Nat /\ used \in Nat /\ Owed \in Nat /\ Turn(w)
      /\ turns[w].reserved \in Nat
  BY ChatTypes, BoundsAssumption DEF Chat!Complete, Chat!At, ChatInv
<1>1. CASE Chat!Holds(w)
  <2>. DEFINE paid == chat.spent + Chat!Charge(w)
              reserved == Chat!Rest(w)
  <2>1. /\ chat' = [chat EXCEPT !.numbers = Append(@, turns[w].saw + 1), !.sequence = @ + 1, !.spent = paid,
                                !.reserved = reserved, !.owner = None, !.live = FALSE]
        /\ (turns' = [turns EXCEPT ![w] = Chat!Idle] /\ troubles' = troubles)
           \/ (turns' = [turns EXCEPT ![w].at = "release"] /\ Chat!Trouble)
    BY <1>1 DEF Chat!Complete, Chat!Ends, Chat!Goto
  <2>2. Owner(w) /\ Owed <= chat.spent + chat.reserved /\ chat.spent + chat.reserved <= Cap /\ chat.active
    BY <1>1 DEF Chat!Holds, ChatInv
  <2>3. paid \in Nat /\ reserved \in Nat /\ Owed <= paid + reserved /\ paid + reserved <= Cap
    <3>1. turns[w].held <= chat.reserved /\ reserved = chat.reserved - turns[w].held
      BY <1>0, <2>2 DEF Owner, Chat!Rest
    <3>2. CASE turns[w].failed \/ turns[w].tokens = 0
      <4>1. paid = chat.spent + turns[w].held
        BY <3>2 DEF Chat!Charge
      <4>. QED
        BY <1>0, <2>2, <3>1, <4>1
    <3>3. CASE ~(turns[w].failed \/ turns[w].tokens = 0)
      <4>1. paid = chat.spent + turns[w].tokens
        BY <3>3 DEF Chat!Charge
      <4>2. turns[w].tokens <= turns[w].held /\ Owed + (turns[w].held - turns[w].tokens) <= chat.spent + chat.reserved
        BY <1>0, <2>2, <3>3 DEF Owner
      <4>. QED
        BY <1>0, <2>2, <3>1, <4>1, <4>2
    <3>. QED
      BY <3>2, <3>3
  <2>. HIDE DEF paid, reserved
  <2>4. /\ chat' \in Session /\ chat'.spent = paid /\ chat'.reserved = reserved /\ chat'.owner = None
        /\ chat'.active = chat.active
    <3>1. Append(chat.numbers, turns[w].saw + 1) \in Seq(Nat) /\ chat.sequence + 1 \in Nat
      BY <1>0 DEF Session, Message
    <3>. DEFINE numbers == Append(chat.numbers, turns[w].saw + 1)
                sequence == chat.sequence + 1
    <3>2. chat' = [chat EXCEPT !.numbers = numbers, !.sequence = sequence, !.spent = paid,
                               !.reserved = reserved, !.owner = None, !.live = FALSE]
      BY <1>0, <2>1
    <3>. HIDE DEF numbers, sequence
    <3>3. numbers \in Seq(Nat) /\ sequence \in Nat
      BY <3>1 DEF numbers, sequence
    <3>. QED
      BY <1>0, <2>3, <3>2, <3>3 DEF Session
  <2>5. CASE turns' = [turns EXCEPT ![w] = Chat!Idle] /\ troubles' = troubles
    BY <1>0, <2>2, <2>3, <2>4, <2>5, EndKeeps, ChatTypes, NobodyAssumption
  <2>6. CASE turns' = [turns EXCEPT ![w].at = "release"] /\ Chat!Trouble
    <3>. DEFINE m == [turns[w] EXCEPT !.at = "release"]
    <3>1. turns' = [turns EXCEPT ![w] = m]
      BY <1>0, <2>6
    <3>2. /\ m \in Message /\ m.at = "release" /\ m.held = turns[w].held /\ m.tokens = turns[w].tokens
          /\ m.failed = turns[w].failed /\ m.tried = turns[w].tried
      BY <1>0 DEF Message
    <3>. HIDE DEF m
    <3>3. Owed' = Owed /\ Owed' \in Nat /\ used' \in Nat
      BY <1>0, <3>1, <3>2, OwedStays
    <3>4. turns'[w] = m
      BY <1>0, <3>1
    <3>5. Turn(w)'
      BY <1>0, <3>2, <3>4 DEF Turn
    <3>6. troubles' \in 0 .. Troubles
      BY <2>6, TroubleType
    <3>7. \A v \in Worker : chat'.owner # v
      BY <2>4, NobodyAssumption
    <3>. QED
      BY <1>0, <2>2, <2>3, <2>4, <3>1, <3>2, <3>3, <3>5, <3>6, <3>7, ChatMove
  <2>. QED
    BY <2>1, <2>5, <2>6
<1>2. CASE ~Chat!Holds(w)
  <2>1. chat' = chat /\ turns' = [turns EXCEPT ![w].at = "release"] /\ troubles' = troubles
    BY <1>2 DEF Chat!Complete, Chat!Goto
  <2>. QED
    BY <1>0, <2>1, GotoKeeps, ChatTypes
<1>. QED
  BY <1>1, <1>2
\* A turn ends, and leaves a session of its own to nobody who could come back.
LEMMA DropKeeps ==
  ASSUME ChatInv, NEW w \in Worker, turns' = [turns EXCEPT ![w] = Chat!Idle], used' = used,
         chat' = [chat EXCEPT !.owner = IF @ = w THEN Gone ELSE @], troubles' \in 0 .. Troubles
  PROVE  ChatInv'
<1>1. chat \in Session /\ chat.spent + chat.reserved \in Nat
  BY ChatTypes
<1>2. /\ chat' \in Session /\ chat'.spent = chat.spent /\ chat'.reserved = chat.reserved
      /\ chat'.active = chat.active /\ chat'.owner = IF chat.owner = w THEN Gone ELSE chat.owner
  BY <1>1 DEF Session
<1>3. chat.owner # w => chat' = chat
  BY <1>1 DEF Session
<1>4. /\ Owed <= chat'.spent + chat'.reserved /\ chat'.spent + chat'.reserved <= Cap
      /\ ~chat.active => chat.owner = None
  BY <1>2 DEF ChatInv
<1>5. chat'.owner # w /\ (chat'.owner \in Worker => chat' = chat) /\ (~chat.active => chat'.owner = None)
  BY <1>2, <1>3, <1>4, NobodyAssumption
<1>. QED
  BY <1>2, <1>4, <1>5, EndKeeps

\* A step of the session that no turn takes part in.
LEMMA SessionKeeps ==
  ASSUME ChatInv, UNCHANGED <<turns, used>>, chat' \in Session, troubles' \in 0 .. Troubles,
         chat'.spent + chat'.reserved = chat.spent + chat.reserved,
         \/ chat'.owner = None
         \/ /\ chat'.owner = chat.owner /\ chat'.spent = chat.spent /\ chat'.reserved = chat.reserved
            /\ chat'.active = chat.active
  PROVE  ChatInv'
<1>0. turns \in [Worker -> Message] /\ used \in Nat
  BY ChatTypes
<1>1. Callers' = Callers
  BY DEF Callers
<1>2. Owed' = Owed /\ IsFiniteSet(Callers')
  BY <1>1 DEF Owed, ChatInv
<1>3. Chat!TypeOK'
  BY <1>0 DEF Chat!TypeOK, Session, Message
<1>4. ASSUME NEW w \in Worker PROVE Turn(w)' /\ (chat'.owner = w => Owner(w)')
  BY <1>2, NobodyAssumption DEF ChatInv, Turn, Owner
<1>. QED
  BY <1>2, <1>3, <1>4 DEF ChatInv

LEMMA ReleaseKeeps == ASSUME ChatInv, NEW w \in Worker, Chat!Release(w) PROVE ChatInv'
<1>0. /\ turns[w] \in Message /\ turns[w].at = "release" /\ chat \in Session
      /\ used' = used /\ chat.spent \in Nat /\ chat.reserved \in Nat /\ Cap \in Nat
      /\ turns[w].held \in Nat /\ turns[w].reserved \in Nat /\ used \in Nat /\ Owed \in Nat /\ Turn(w)
      /\ turns' = [turns EXCEPT ![w] = Chat!Idle]
      /\ Owed <= chat.spent + chat.reserved /\ chat.spent + chat.reserved <= Cap
      /\ ~chat.active => chat.owner = None
  BY ChatTypes, BoundsAssumption DEF Chat!Release, Chat!At, Chat!Ends, ChatInv
<1>1. CASE chat.owner = w /\ chat' = Chat!Returned(w) /\ troubles' = troubles
  <2>. DEFINE paid == IF turns[w].tried THEN chat.spent + turns[w].held ELSE chat.spent
              reserved == IF turns[w].held = 0 THEN chat.reserved
                          ELSE IF turns[w].reserved > turns[w].held THEN turns[w].reserved - turns[w].held ELSE 0
  <2>1. chat' = [chat EXCEPT !.owner = None, !.live = FALSE, !.spent = paid, !.reserved = reserved]
    BY <1>1 DEF Chat!Returned
  <2>2. Owner(w)
    BY <1>1 DEF ChatInv
  <2>3. paid \in Nat /\ reserved \in Nat /\ Owed <= paid + reserved /\ paid + reserved <= Cap
    BY <1>0, <2>2 DEF Owner, Turn
  <2>. HIDE DEF paid, reserved
  <2>4. /\ chat' \in Session /\ chat'.spent = paid /\ chat'.reserved = reserved /\ chat'.owner = None
        /\ chat'.active = chat.active
    BY <1>0, <2>1, <2>3 DEF Session
  <2>. QED
    BY <1>0, <1>1, <2>3, <2>4, EndKeeps, ChatTypes, NobodyAssumption
<1>2. CASE chat.owner # w /\ chat' = chat /\ troubles' \in 0 .. Troubles
  BY <1>0, <1>2, EndKeeps
<1>3. CASE chat' = [chat EXCEPT !.owner = IF @ = w THEN Gone ELSE @] /\ troubles' \in 0 .. Troubles
  BY <1>0, <1>3, DropKeeps
<1>4. Chat!Trouble => troubles' \in 0 .. Troubles
  BY TroubleType
<1>5. troubles \in 0 .. Troubles
  BY ChatTypes
<1>. QED
  BY <1>1, <1>2, <1>3, <1>4, <1>5 DEF Chat!Release

LEMMA CrashKeeps == ASSUME ChatInv, NEW w \in Worker, Chat!Crash(w) PROVE ChatInv'
<1>1. troubles' \in 0 .. Troubles
  BY TroubleType DEF Chat!Crash
<1>. QED
  BY <1>1, DropKeeps DEF Chat!Crash, Chat!Ends

LEMMA GiveUpKeeps == ASSUME ChatInv, NEW w \in Worker, Chat!GiveUp(w) PROVE ChatInv'
<1>1. troubles' \in 0 .. Troubles
  BY TroubleType, ChatTypes DEF Chat!GiveUp
<1>. QED
  BY <1>1, GotoKeeps DEF Chat!GiveUp, Chat!Goto

LEMMA LeaseKeeps ==
  ASSUME ChatInv, NEW b \in BOOLEAN, chat' = [chat EXCEPT !.live = b], UNCHANGED <<turns, used>>, troubles' \in 0 .. Troubles
  PROVE  ChatInv'
<1>1. /\ chat' \in Session /\ chat'.owner = chat.owner /\ chat'.spent = chat.spent
      /\ chat'.reserved = chat.reserved /\ chat'.active = chat.active
  BY ChatTypes DEF Session
<1>. QED
  BY <1>1, SessionKeeps

LEMMA CloseKeeps == ASSUME ChatInv, Chat!Close PROVE ChatInv'
<1>1. chat' = [Chat!Settled EXCEPT !.active = FALSE] /\ UNCHANGED <<turns, used, troubles>>
  BY DEF Chat!Close
<1>2. /\ chat' \in Session /\ chat'.spent = chat.spent + chat.reserved /\ chat'.reserved = 0
      /\ chat'.owner = None
  BY <1>1, SettledType DEF Session
<1>3. chat'.spent + chat'.reserved = chat.spent + chat.reserved /\ troubles' \in 0 .. Troubles
  BY <1>1, <1>2, ChatTypes
<1>. QED
  BY <1>1, <1>2, <1>3, SessionKeeps

LEMMA ChatStep == ASSUME ChatInv, Chat!Next PROVE ChatInv'
<1>1. ASSUME NEW w \in Worker, Chat!Renew(w) PROVE ChatInv'
  BY <1>1, LeaseKeeps, ChatTypes DEF Chat!Renew
<1>2. CASE Chat!LeaseEnds
  <2>1. troubles' \in 0 .. Troubles
    BY <1>2, TroubleType, ChatTypes DEF Chat!LeaseEnds
  <2>. QED
    BY <1>2, <2>1, LeaseKeeps DEF Chat!LeaseEnds
<1>. QED
  BY <1>1, <1>2, SettleKeeps, ClaimKeeps, ReserveKeeps, CallKeeps, CompleteKeeps, ReleaseKeeps, GiveUpKeeps,
     CrashKeeps, CloseKeeps DEF Chat!Next

LEMMA ChatAlways == Spec => [](part = "chat" => ChatInv)
<1>. DEFINE Inv == part = "chat" => ChatInv
<1>1. Init => Inv
  BY ChatInit DEF Init
<1>2. Inv /\ [Next]_<<part, troubles, services>> => Inv'
  <2>. SUFFICES ASSUME part = "chat", ChatInv, [Next]_<<part, troubles, services>> PROVE ChatInv'
    BY PartStays
  <2>1. CASE UNCHANGED <<chat, turns, used, troubles>>
    BY <2>1 DEF ChatInv, Chat!TypeOK, Callers, Owed, Turn, Owner
  <2>. QED
    BY <2>1, ChatMoves, ChatStep
<1>. QED
  BY <1>1, <1>2, PTL DEF Spec

\* Every token a provider was asked for is counted, and no session goes over its cap, for any
\* number of turns, takeovers, crashes and lost answers.
THEOREM ChatBudgetHolds == Spec => []BudgetHolds
<1>1. ChatInv => Chat!BudgetHolds
  <2>. SUFFICES ASSUME ChatInv PROVE Chat!BudgetHolds
    OBVIOUS
  <2>1. used \in Nat /\ UpperBound * Cardinality(Callers) \in Nat /\ chat.spent + chat.reserved \in Nat
    BY ChatTypes
  <2>2. Owed = used + UpperBound * Cardinality(Callers)
    BY DEF Owed
  <2>3. Owed <= chat.spent + chat.reserved /\ chat.spent + chat.reserved <= Cap
    BY DEF ChatInv
  <2>. QED
    BY <2>1, <2>2, <2>3 DEF Chat!BudgetHolds
<1>2. (part = "chat" => ChatInv) => BudgetHolds
  BY <1>1 DEF BudgetHolds
<1>. QED
  BY <1>2, ChatAlways, PTL

-----------------------------------------------------------------------------
(* Edits of a saved goal *)

\* What a request has in hand, seen apart from the request.
LEMMA GoalsTypes ==
  ASSUME GoalsInv
  PROVE  /\ goal \in Goals!GoalDoc /\ source \in Goals!Source /\ edits \in [Request -> Edit]
         /\ \A r \in Request : edits[r] \in Edit /\ CopyOf(edits[r])
  BY DEF GoalsInv, Goals!TypeOK, Edit

LEMMA GoalsInit == Init => GoalsInv
<1>. SUFFICES ASSUME Init PROVE GoalsInv
  OBVIOUS
<1>. USE BoundsAssumption
<1>1. Goals!Init
  BY DEF Init
<1>2. goal \in Goals!GoalDoc /\ source \in Goals!Source
  BY <1>1 DEF Goals!Init, Goals!GoalDoc, Goals!Source, Goals!Value
<1>3. PICK kind \in [Request -> Goals!Kind] : edits =
        [r \in Request |-> [kind |-> kind[r], at |-> "idle", copy |-> goal, source |-> source, tries |-> 0, answer |-> "none"]]
  BY <1>1 DEF Goals!Init
<1>4. 0 \in 0 .. Attempts - 1
  OBVIOUS
<1>5. edits \in [Request -> Edit]
  BY <1>2, <1>3, <1>4 DEF Edit
<1>6. \A r \in Request : CopyOf(edits[r])
  BY <1>3 DEF CopyOf
<1>. QED
  BY <1>2, <1>5, <1>6 DEF GoalsInv, Goals!TypeOK, Edit

\* A request that only moves on.
LEMMA EditMoves ==
  ASSUME GoalsInv, NEW r \in Request, NEW m \in Edit, CopyOf(m),
         edits' = [edits EXCEPT ![r] = m], UNCHANGED <<goal, source>>
  PROVE  GoalsInv'
<1>1. edits' \in [Request -> Edit] /\ goal' \in Goals!GoalDoc /\ source' \in Goals!Source
  BY GoalsTypes
<1>2. \A q \in Request : CopyOf(edits[q])'
  BY GoalsTypes DEF CopyOf
<1>. QED
  BY <1>1, <1>2 DEF GoalsInv, Goals!TypeOK, Edit

LEMMA AnswerMoves ==
  ASSUME GoalsInv, NEW r \in Request, NEW a \in {"ok", "deleted", "unverified", "refused"}, Goals!Answers(r, a)
  PROVE  GoalsInv'
<1>. DEFINE m == [edits[r] EXCEPT !.at = "end", !.answer = a, !.copy = goal, !.source = source, !.tries = 0]
<1>1. edits' = [edits EXCEPT ![r] = m] /\ UNCHANGED <<goal, source>>
  BY DEF Goals!Answers, Goals!Ends
<1>2. m \in Edit
  <2>1. edits[r] \in Edit /\ goal \in Goals!GoalDoc /\ source \in Goals!Source /\ 0 \in 0 .. Attempts - 1
    BY GoalsTypes, BoundsAssumption
  <2>. QED
    BY <2>1 DEF Edit
<1>3. CopyOf(m)
  BY GoalsTypes DEF CopyOf, Edit
<1>. HIDE DEF m
<1>. QED
  BY <1>1, <1>2, <1>3, EditMoves

LEMMA GoalsStep ==
  ASSUME GoalsInv, Goals!Next
  PROVE  GoalsInv'
<1>. USE BoundsAssumption
<1>0. /\ goal \in Goals!GoalDoc /\ source \in Goals!Source /\ edits \in [Request -> Edit]
      /\ \A r \in Request : edits[r] \in Edit /\ CopyOf(edits[r])
  BY GoalsTypes
<1>1. ASSUME NEW r \in Request, Goals!Arrive(r) PROVE GoalsInv'
  <2>. DEFINE kind == edits[r].kind
              c == [goal EXCEPT !.target = IF kind = "target" THEN r ELSE @, !.priority = IF kind = "priority" THEN r ELSE @]
              p == CASE kind \in {"target", "advice"} -> "plan" [] kind = "priority" -> "recheck" [] kind = "delete" -> "delete"
              m == [edits[r] EXCEPT !.at = p, !.copy = c]
  <2>1. edits' = [edits EXCEPT ![r] = m] /\ UNCHANGED <<goal, source>>
    BY <1>1 DEF Goals!Arrive
  <2>2. kind \in {"target", "priority", "advice", "delete"}
    BY <1>0 DEF Edit, Goals!Kind
  <2>3. c \in Goals!GoalDoc
    BY <1>0 DEF Goals!GoalDoc, Goals!Value
  <2>4. p \in {"plan", "recheck", "delete"} /\ (p = "plan" => kind \in {"target", "advice"})
        /\ (p = "recheck" => kind = "priority") /\ (p = "delete" <=> kind = "delete")
    BY <2>2
  <2>5. /\ c.exists = goal.exists /\ c.version = goal.version /\ c.plan = goal.plan /\ c.advice = goal.advice
        /\ kind # "target" => c.target = goal.target
        /\ kind # "priority" => c.priority = goal.priority
    BY <1>0 DEF Goals!GoalDoc
  <2>6. m \in Edit /\ m.at = p /\ m.kind = kind /\ m.copy = c
    <3>. HIDE DEF c, p
    <3>. QED
      BY <1>0, <2>3, <2>4 DEF Edit
  <2>7. goal.exists /\ goal.version \in Nat
    BY <1>0, <1>1 DEF Goals!Arrive, Goals!GoalDoc
  <2>8. CopyOf(m)
    <3>1. goal.version <= goal.version
      BY <2>7
    <3>. HIDE DEF c, p, m, kind
    <3>. QED
      BY <2>4, <2>5, <2>6, <2>7, <3>1 DEF CopyOf
  <2>. HIDE DEF m
  <2>. QED
    BY <2>1, <2>6, <2>8, EditMoves
<1>2. ASSUME NEW r \in Request, Goals!Plan(r) PROVE GoalsInv'
  <2>. DEFINE c == [edits[r].copy EXCEPT !.plan = [target |-> r, source |-> source.state]]
              m == [edits[r] EXCEPT !.at = "recheck", !.copy = c]
  <2>1. edits' = [edits EXCEPT ![r] = m] /\ UNCHANGED <<goal, source>>
    BY <1>0, <1>2 DEF Goals!Plan, Edit, Goals!GoalDoc
  <2>2. c \in Goals!GoalDoc /\ c.exists = edits[r].copy.exists /\ c.version = edits[r].copy.version /\ c.priority = edits[r].copy.priority
    BY <1>0 DEF Edit, Goals!GoalDoc, Goals!Value, Goals!Source
  <2>3. m \in Edit /\ m.at = "recheck" /\ m.kind = "target" /\ m.copy = c
    <3>. HIDE DEF c
    <3>. QED
      BY <1>0, <1>2, <2>2 DEF Edit, Goals!Plan, Goals!At
  <2>4. CopyOf(m)
    <3>. HIDE DEF c, m
    <3>. QED
      BY <1>0, <1>2, <2>2, <2>3 DEF CopyOf, Goals!Plan, Goals!At
  <2>. HIDE DEF m
  <2>. QED
    BY <2>1, <2>3, <2>4, EditMoves
<1>3. ASSUME NEW r \in Request, Goals!CheckFreshness(r) PROVE GoalsInv'
  <2>1. CASE Goals!Answers(r, "refused")
    BY <2>1, AnswerMoves
  <2>2. CASE /\ edits[r].copy.plan.source = source.state
             /\ edits' = [edits EXCEPT ![r].at = "advise", ![r].source = source] /\ UNCHANGED <<goal, source>>
    <3>. DEFINE m == [edits[r] EXCEPT !.at = "advise", !.source = source]
    <3>1. edits' = [edits EXCEPT ![r] = m] /\ UNCHANGED <<goal, source>>
      BY <1>0, <2>2 DEF Edit
    <3>2. m \in Edit
      BY <1>0 DEF Edit
    <3>3. CopyOf(m)
      BY <1>0, <1>3, <2>2 DEF CopyOf, Edit, Goals!CheckFreshness, Goals!At
    <3>. HIDE DEF m
    <3>. QED
      BY <3>1, <3>2, <3>3, EditMoves
  <2>. QED
    BY <1>3, <2>1, <2>2 DEF Goals!CheckFreshness
<1>4. ASSUME NEW r \in Request, Goals!Recheck(r) PROVE GoalsInv'
  <2>1. CASE Goals!Answers(r, "refused")
    BY <2>1, AnswerMoves
  <2>2. CASE /\ Goals!StillPlanned(r) /\ UNCHANGED <<goal, source>>
             /\ edits' = [edits EXCEPT ![r].at = IF edits[r].kind = "priority" THEN "save" ELSE "advise", ![r].source = source]
    <3>. DEFINE p == IF edits[r].kind = "priority" THEN "save" ELSE "advise"
                m == [edits[r] EXCEPT !.at = p, !.source = source]
    <3>1. edits' = [edits EXCEPT ![r] = m] /\ UNCHANGED <<goal, source>>
      BY <1>0, <2>2 DEF Edit
    <3>2. m \in Edit
      BY <1>0 DEF Edit
    <3>3. CopyOf(m)
      BY <1>0, <1>4, <2>2 DEF CopyOf, Edit, Goals!Recheck, Goals!At, Goals!StillPlanned
    <3>. HIDE DEF m
    <3>. QED
      BY <3>1, <3>2, <3>3, EditMoves
  <2>. QED
    BY <1>4, <2>1, <2>2 DEF Goals!Recheck
<1>5. ASSUME NEW r \in Request, Goals!Advise(r) PROVE GoalsInv'
  <2>. DEFINE e == edits[r]
              c == [e.copy EXCEPT !.advice = [target |-> e.copy.plan.target, source |-> e.source.state, version |-> e.copy.version + 1]]
              m == [e EXCEPT !.at = "save", !.copy = c]
  <2>1. edits' = [edits EXCEPT ![r] = m] /\ UNCHANGED <<goal, source>>
    <3>. DEFINE y == [target |-> e.copy.plan.target, source |-> e.source.state, version |-> e.copy.version + 1]
    <3>1. edits' = [edits EXCEPT ![r].at = "save", ![r].copy.advice = y] /\ UNCHANGED <<goal, source>>
      BY <1>5 DEF Goals!Advise
    <3>2. m = [edits[r] EXCEPT !.at = "save", !.copy = [edits[r].copy EXCEPT !.advice = y]]
      OBVIOUS
    <3>. HIDE DEF y, m, e
    <3>. QED
      <4>1. edits \in [Request -> Edit] /\ edits[r] \in Edit /\ edits[r].copy \in Goals!GoalDoc
        BY <1>0 DEF Edit
      <4>2. edits' = [edits EXCEPT ![r] = [edits[r] EXCEPT !.at = "save", !.copy = [edits[r].copy EXCEPT !.advice = y]]]
        BY <3>1, <4>1 DEF Edit
      <4>. QED
        BY <3>1, <3>2, <4>2
  <2>2. e.copy.version + 1 \in Nat /\ e.copy \in Goals!GoalDoc /\ e.source.state \in 1 .. Sources /\ e.copy.plan.target \in Goals!Value
    BY <1>0 DEF Edit, Goals!GoalDoc, Goals!Source
  <2>3. /\ c \in Goals!GoalDoc /\ c.exists = e.copy.exists /\ c.version = e.copy.version /\ c.priority = e.copy.priority
        /\ c.target = e.copy.target /\ c.plan = e.copy.plan /\ c.advice.source = e.source.state
    BY <2>2 DEF Goals!GoalDoc
  <2>4. m \in Edit /\ m.at = "save" /\ m.kind = e.kind /\ m.copy = c /\ m.source = e.source
    <3>. HIDE DEF c
    <3>. QED
      BY <1>0, <2>3 DEF Edit
  <2>5. CopyOf(e) /\ e.at = "advise"
    BY <1>0, <1>5 DEF Goals!Advise, Goals!At
  <2>6. CopyOf(m)
    <3>. HIDE DEF c, m, e
    <3>. QED
      BY <2>3, <2>4, <2>5 DEF CopyOf
  <2>. HIDE DEF m
  <2>. QED
    BY <2>1, <2>4, <2>6, EditMoves
<1>6. ASSUME NEW r \in Request, Goals!Save(r) PROVE GoalsInv'
  <2>1. edits[r].copy \in Goals!GoalDoc /\ edits[r].copy.version + 1 \in Nat /\ goal.version \in Nat
        /\ edits[r].copy.version = goal.version
    BY <1>0, <1>6 DEF Edit, Goals!GoalDoc, Goals!Save, Goals!MaySave
  <2>2. goal' \in Goals!GoalDoc /\ goal'.version = goal.version + 1
    BY <1>6, <2>1 DEF Goals!Save, Goals!GoalDoc
  <2>3. source.fence + 1 \in 0 .. Fences
    BY <1>0, <1>6 DEF Goals!Save, Goals!Source
  <2>4. source' \in Goals!Source
    BY <1>0, <1>6, <2>3 DEF Goals!Save, Goals!Source
  <2>5. edits' \in [Request -> Edit]
    BY <1>0, <1>6 DEF Goals!Save, Edit
  <2>6. ASSUME NEW q \in Request PROVE CopyOf(edits[q])'
    <3>1. CASE q = r
      BY <1>0, <1>6, <3>1 DEF Goals!Save, CopyOf, Edit
    <3>2. CASE q # r
      <4>1. edits'[q] = edits[q] /\ edits[q].copy.version \in Nat
        BY <1>0, <1>6, <3>2 DEF Goals!Save, Edit, Goals!GoalDoc
      <4>. QED
        BY <1>0, <2>1, <2>2, <4>1 DEF CopyOf
    <3>. QED
      BY <3>1, <3>2
  <2>. QED
    BY <2>2, <2>4, <2>5, <2>6 DEF GoalsInv, Goals!TypeOK, Edit
<1>7. ASSUME NEW r \in Request, Goals!SaveRefused(r) PROVE GoalsInv'
  BY <1>7, AnswerMoves DEF Goals!SaveRefused
<1>8. ASSUME NEW r \in Request, Goals!Delete(r) PROVE GoalsInv'
  <2>1. CASE Goals!Answers(r, "refused")
    BY <2>1, AnswerMoves
  <2>2. CASE goal' = [goal EXCEPT !.exists = FALSE] /\ source' = source /\ edits' = [edits EXCEPT ![r] = Goals!Ends(r, "ok")]
    <3>. DEFINE m == [edits[r] EXCEPT !.at = "end", !.answer = "ok", !.copy = goal', !.source = source', !.tries = 0]
    <3>1. goal' \in Goals!GoalDoc /\ source' \in Goals!Source
      BY <1>0, <2>2 DEF Goals!GoalDoc
    <3>2. m \in Edit /\ m.at = "end"
      <4>1. edits[r] \in Edit /\ 0 \in 0 .. Attempts - 1
        BY <1>0
      <4>. QED
        BY <3>1, <4>1 DEF Edit
    <3>3. edits' = [edits EXCEPT ![r] = m]
      BY <2>2 DEF Goals!Ends
    <3>4. edits' \in [Request -> Edit]
      <4>. HIDE DEF m
      <4>. QED
        BY <1>0, <3>2, <3>3
    <3>5. /\ goal'.version = goal.version /\ goal'.target = goal.target /\ goal'.plan = goal.plan
          /\ goal'.priority = goal.priority /\ goal'.advice = goal.advice
      BY <1>0, <2>2 DEF Goals!GoalDoc
    <3>6. ASSUME NEW q \in Request PROVE CopyOf(edits[q])'
      <4>. HIDE DEF m
      <4>. QED
        BY <1>0, <3>2, <3>3, <3>5 DEF CopyOf
    <3>. QED
      BY <3>1, <3>4, <3>6 DEF GoalsInv, Goals!TypeOK, Edit
  <2>. QED
    BY <1>8, <2>1, <2>2 DEF Goals!Delete
<1>9. ASSUME NEW r \in Request, Goals!Snapshot(r) PROVE GoalsInv'
  <2>1. CASE Goals!Answers(r, "deleted")
    BY <2>1, AnswerMoves
  <2>2. CASE edits' = [edits EXCEPT ![r].at = "confirm", ![r].copy = goal, ![r].source = source] /\ UNCHANGED <<goal, source>>
    <3>. DEFINE m == [edits[r] EXCEPT !.at = "confirm", !.copy = goal, !.source = source]
    <3>1. edits' = [edits EXCEPT ![r] = m] /\ UNCHANGED <<goal, source>>
      BY <1>0, <2>2 DEF Edit
    <3>2. m \in Edit /\ m.at = "confirm"
      BY <1>0 DEF Edit
    <3>3. CopyOf(m)
      BY <3>2 DEF CopyOf
    <3>. HIDE DEF m
    <3>. QED
      BY <3>1, <3>2, <3>3, EditMoves
  <2>. QED
    BY <1>9, <2>1, <2>2 DEF Goals!Snapshot
<1>10. ASSUME NEW r \in Request, Goals!Confirm(r) PROVE GoalsInv'
  <2>1. CASE \E a \in {"ok", "deleted", "unverified", "refused"} : Goals!Answers(r, a)
    BY <2>1, AnswerMoves
  <2>2. CASE /\ Goals!MayTryAgain(r) /\ UNCHANGED <<goal, source>>
             /\ edits' = [edits EXCEPT ![r].at = "snapshot", ![r].tries = @ + 1]
    <3>. DEFINE n == edits[r].tries + 1
                m == [edits[r] EXCEPT !.at = "snapshot", !.tries = n]
    <3>1. edits' = [edits EXCEPT ![r] = m] /\ UNCHANGED <<goal, source>>
      BY <1>0, <2>2 DEF Edit
    <3>2. n \in 0 .. Attempts - 1
      BY <1>0, <2>2 DEF Edit, Goals!MayTryAgain
    <3>3. m \in Edit /\ m.at = "snapshot"
      <4>. HIDE DEF n
      <4>. QED
        BY <1>0, <3>2 DEF Edit
    <3>4. CopyOf(m)
      BY <3>3 DEF CopyOf
    <3>. HIDE DEF m
    <3>. QED
      BY <3>1, <3>3, <3>4, EditMoves
  <2>. QED
    BY <1>10, <2>1, <2>2 DEF Goals!Confirm
<1>11. CASE Goals!SourceChanges
  <2>1. source' \in Goals!Source
    <3>1. CASE source.state < Sources /\ source' = [source EXCEPT !.state = @ + 1]
      <4>1. source.state + 1 \in 1 .. Sources
        BY <1>0, <3>1 DEF Goals!Source
      <4>. QED
        BY <1>0, <3>1, <4>1 DEF Goals!Source
    <3>2. CASE source.fence < Fences /\ source' = [source EXCEPT !.fence = @ + 1]
      <4>1. source.fence + 1 \in 0 .. Fences
        BY <1>0, <3>2 DEF Goals!Source
      <4>. QED
        BY <1>0, <3>2, <4>1 DEF Goals!Source
    <3>. QED
      BY <1>11, <3>1, <3>2 DEF Goals!SourceChanges
  <2>2. goal' = goal /\ edits' = edits
    BY <1>11 DEF Goals!SourceChanges
  <2>. QED
    BY <1>0, <2>1, <2>2 DEF GoalsInv, Goals!TypeOK, Edit, CopyOf
<1>. QED
  BY <1>1, <1>2, <1>3, <1>4, <1>5, <1>6, <1>7, <1>8, <1>9, <1>10, <1>11 DEF Goals!Next

LEMMA GoalsAlways == Spec => [](part = "goals" => GoalsInv)
<1>. DEFINE Inv == part = "goals" => GoalsInv
<1>1. Init => Inv
  BY GoalsInit
<1>2. Inv /\ [Next]_<<part, troubles, services>> => Inv'
  <2>. SUFFICES ASSUME part = "goals", GoalsInv, [Next]_<<part, troubles, services>> PROVE GoalsInv'
    BY PartStays
  <2>1. CASE UNCHANGED <<goal, edits, source>>
    BY <2>1 DEF GoalsInv, Goals!TypeOK, CopyOf
  <2>. QED
    BY <2>1, GoalsMoves, GoalsStep
<1>. QED
  BY <1>1, <1>2, PTL DEF Spec

\* A goal that a request saves is the one its copy was of, changed only in what the request is for.
LEMMA SaveChangesItsOwn ==
  ASSUME GoalsInv, Goals!Next, goal' # goal, goal'.exists
  PROVE  /\ goal.exists /\ goal'.version = goal.version + 1
         /\ \E r \in Request :
              /\ edits[r].kind # "target" => goal'.target = goal.target /\ goal'.plan = goal.plan
              /\ edits[r].kind # "priority" => goal'.priority = goal.priority
              /\ edits[r].kind = "priority" => goal'.advice = goal.advice
              /\ edits[r].kind # "priority" => goal'.advice.source = source.state /\ goal'.plan.source = source.state
              /\ Goals!At(r, "save") /\ edits'[r].at = "snapshot"
<1>0. goal \in Goals!GoalDoc /\ edits \in [Request -> Edit] /\ \A r \in Request : edits[r] \in Edit /\ CopyOf(edits[r])
  BY GoalsTypes
<1>1. PICK r \in Request : Goals!Save(r) \/ Goals!Delete(r)
  BY DEF Goals!Next, Goals!Arrive, Goals!Plan, Goals!CheckFreshness, Goals!Recheck, Goals!Advise, Goals!SaveRefused,
         Goals!Snapshot, Goals!Confirm, Goals!SourceChanges, Goals!Answers
<1>2. Goals!Save(r)
  <2>1. CASE Goals!Delete(r)
    BY <1>0, <2>1 DEF Goals!Delete, Goals!Answers, Goals!GoalDoc
  <2>. QED
    BY <1>1, <2>1
<1>3. edits[r].copy \in Goals!GoalDoc /\ edits[r] \in Edit /\ CopyOf(edits[r]) /\ edits[r].at = "save"
  BY <1>0, <1>2 DEF Edit, Goals!Save, Goals!At
<1>4. /\ goal'.target = edits[r].copy.target /\ goal'.plan = edits[r].copy.plan /\ goal'.priority = edits[r].copy.priority
      /\ goal'.advice = edits[r].copy.advice /\ goal'.version = edits[r].copy.version + 1
      /\ edits'[r].at = "snapshot"
  BY <1>0, <1>2, <1>3 DEF Goals!Save, Goals!GoalDoc, Edit
<1>5. goal.exists /\ goal.version = edits[r].copy.version /\ source = edits[r].source
  BY <1>2 DEF Goals!Save, Goals!MaySave
<1>. QED
  BY <1>3, <1>4, <1>5 DEF CopyOf, Goals!At

\* No concurrent edit of a goal is lost, a deleted goal does not come back, and what is saved
\* was computed from the state that is current then (updateGoalWithCAS, holdGoalSourceState).
THEOREM NoEditIsLost == Spec => NoLostEdit
<1>. DEFINE Step ==
       goal' # goal /\ goal'.exists =>
         /\ goal.exists /\ goal'.version = goal.version + 1
         /\ \E r \in Request :
              /\ edits[r].kind # "target" => goal'.target = goal.target /\ goal'.plan = goal.plan
              /\ edits[r].kind # "priority" => goal'.priority = goal.priority
              /\ edits[r].kind = "priority" => goal'.advice = goal.advice
              /\ edits[r].kind # "priority" => goal'.advice.source = source.state /\ goal'.plan.source = source.state
              /\ Goals!At(r, "save") /\ edits'[r].at = "snapshot"
<1>1. (part = "goals" => GoalsInv) /\ [Next]_<<part, troubles, services>> => [Step]_(Goals!goalVars)
  <2>. SUFFICES ASSUME part = "goals" => GoalsInv, [Next]_<<part, troubles, services>>, goal' # goal, goal'.exists PROVE Step
    BY DEF Goals!goalVars
  <2>1. part = "goals" /\ Goals!Next
    BY DEF Next, services, goalVars
  <2>. QED
    BY <2>1, SaveChangesItsOwn
<1>2. NoLostEdit <=> [][Step]_(Goals!goalVars)
  BY DEF NoLostEdit, Goals!NoLostEdit
<1>. HIDE DEF Step
<1>. QED
  BY <1>1, <1>2, GoalsAlways, PTL DEF Spec

-----------------------------------------------------------------------------
(* Research tasks and their capacity *)

LEMMA ResearchCardinality == \A S : Research!Cardinality(S) = Cardinality(S)
  BY DEF Research!Cardinality, Cardinality

LEMMA ResearchTypes ==
  ASSUME ResearchInv
  PROVE  /\ tasks \in [Task -> Document] /\ slots \subseteq Slot /\ freeing \subseteq Slot
         /\ runner \in [Worker -> Runner] /\ troubles \in 0 .. Troubles
         /\ \A t \in Task : tasks[t] \in Document
         /\ \A w \in Worker : runner[w] \in Runner
  BY DEF ResearchInv, Research!TypeOK, Research!Document, Research!Ended, Research!Slot, Research!Place, Document, Slot, Runner

\* The invariant after a step, part by part.
LEMMA ResearchHolds ==
  ASSUME tasks' \in [Task -> Document], slots' \subseteq Slot, freeing' \subseteq Slot,
         runner' \in [Worker -> Runner], troubles' \in 0 .. Troubles,
         \A s, q \in slots' : s.task = q.task => s = q,
         IsFiniteSet(Slotted)', Cardinality(Slotted)' <= Capacity,
         \A s \in freeing' : s.fence < tasks'[s.task].fence,
         \A w \in Worker : Placed(w)'
  PROVE  ResearchInv'
<1>1. Research!TypeOK'
  BY DEF Research!TypeOK, Research!Document, Research!Ended, Research!Slot, Research!Place, Document, Slot, Runner
<1>. QED
  BY <1>1 DEF ResearchInv

LEMMA ResearchInit == Research!Init => ResearchInv
<1>. SUFFICES ASSUME Research!Init PROVE ResearchInv
  OBVIOUS
<1>1. Slotted = {}
  BY DEF Research!Init, Slotted
<1>2. Research!TypeOK
  BY BoundsAssumption DEF Research!Init, Research!TypeOK, Research!Document, Research!Place, Research!Idle
<1>3. IsFiniteSet(Slotted) /\ Cardinality(Slotted) <= Capacity
  BY <1>1, FS_EmptySet, BoundsAssumption
<1>. QED
  BY <1>2, <1>3 DEF ResearchInv, Research!Init, Research!Idle, Placed

\* Slots that go, or change without their task, keep the count within the capacity.
LEMMA SlotsGo ==
  ASSUME ResearchInv, \A s \in slots' : \E q \in slots : q.task = s.task
  PROVE  IsFiniteSet(Slotted)' /\ Cardinality(Slotted)' <= Capacity
<1>1. IsFiniteSet(Slotted) /\ Cardinality(Slotted) <= Capacity
  BY DEF ResearchInv
<1>2. Slotted' \in SUBSET Slotted
  BY DEF Slotted
<1>3. IsFiniteSet(Slotted') /\ Cardinality(Slotted') <= Cardinality(Slotted)
  BY <1>1, <1>2, FS_Subset
<1>4. Cardinality(Slotted) \in Nat /\ Cardinality(Slotted') \in Nat
  BY <1>1, <1>3, FS_CardinalityType
<1>. QED
  BY <1>1, <1>3, <1>4, BoundsAssumption

\* There are as many slots as tasks that have one.
LEMMA SlotPerTask ==
  ASSUME ResearchInv
  PROVE  IsFiniteSet(slots) /\ Cardinality(slots) = Cardinality(Slotted)
<1>. DEFINE f == [s \in slots |-> s.task]
<1>1. \A s \in slots : s.task \in Slotted
  BY ResearchTypes DEF Slotted, Slot
<1>2. f \in Injection(slots, Slotted)
  BY <1>1 DEF ResearchInv, Injection, IsInjective
<1>3. f \in Surjection(slots, Slotted)
  BY <1>1 DEF Surjection, Slotted
<1>4. IsFiniteSet(Slotted)
  BY DEF ResearchInv
<1>. HIDE DEF f
<1>. QED
  BY <1>2, <1>3, <1>4, FS_Injection

\* A worker that goes to another place keeps its claim, unless it is done with it.
LEMMA Going ==
  ASSUME ResearchInv, NEW w \in Worker, NEW place \in {"idle", "acquire", "take", "undo", "work", "renew", "free"}, Research!Goes(w, place)
  PROVE  /\ runner' \in [Worker -> Runner]
         /\ \A v \in Worker : v # w => runner'[v] = runner[v]
         /\ runner'[w].at = place
         /\ place # "idle" => runner'[w].task = runner[w].task /\ runner'[w].fence = runner[w].fence
<1>. DEFINE m == IF place = "idle" THEN Research!Idle ELSE [runner[w] EXCEPT !.at = place]
<1>1. m \in Runner /\ m.at = place /\ (place # "idle" => m.task = runner[w].task /\ m.fence = runner[w].fence)
  BY ResearchTypes DEF Runner, Research!Idle
<1>2. runner' = [runner EXCEPT ![w] = m]
  BY DEF Research!Goes
<1>. HIDE DEF m
<1>. QED
  BY <1>1, <1>2, ResearchTypes

\* A worker that only moves leaves the rest as it is.
LEMMA PlaceMoves ==
  ASSUME ResearchInv, UNCHANGED <<tasks, slots, freeing>>, troubles' \in 0 .. Troubles,
         runner' \in [Worker -> Runner], \A v \in Worker : Placed(v)'
  PROVE  ResearchInv'
<1>1. IsFiniteSet(Slotted)' /\ Cardinality(Slotted)' <= Capacity
  BY SlotsGo
<1>. QED
  BY <1>1, ResearchTypes, ResearchHolds DEF ResearchInv

LEMMA ResearchTrouble == ASSUME ResearchInv, Research!Trouble PROVE troubles' \in 0 .. Troubles
  BY ResearchTypes, BoundsAssumption DEF Research!Trouble

LEMMA SubmitKeeps == ASSUME ResearchInv, NEW t \in Task, Research!Submit(t) PROVE ResearchInv'
<1>1. /\ tasks' = [tasks EXCEPT ![t].status = "SUBMITTED"] /\ tasks[t].status = "NONE"
      /\ UNCHANGED <<slots, runner, freeing, troubles>>
  BY DEF Research!Submit
<1>2. tasks' \in [Task -> Document]
      /\ \A q \in Task : q # t => tasks'[q] = tasks[q]
      /\ tasks'[t].live = tasks[t].live /\ tasks'[t].token = tasks[t].token /\ tasks'[t].fence = tasks[t].fence
  BY <1>1, ResearchTypes DEF Document
<1>4. IsFiniteSet(Slotted)' /\ Cardinality(Slotted)' <= Capacity
  BY <1>1, SlotsGo
<1>5. \A s \in freeing' : s.fence < tasks'[s.task].fence
  BY <1>1, <1>2, ResearchTypes DEF ResearchInv, Slot
<1>6. \A w \in Worker : Placed(w)'
  BY <1>1, <1>2 DEF ResearchInv, Placed
<1>. QED
  BY <1>1, <1>2, <1>4, <1>5, <1>6, ResearchTypes, ResearchHolds DEF ResearchInv

LEMMA ReadKeeps == ASSUME ResearchInv, NEW w \in Worker, NEW t \in Task, Research!Read(w, t) PROVE ResearchInv'
<1>. DEFINE n == tasks[t].fence + 1
            m == [at |-> "acquire", task |-> t, fence |-> n]
<1>1. runner' = [runner EXCEPT ![w] = m] /\ UNCHANGED <<tasks, slots, freeing, troubles>>
  BY DEF Research!Read
<1>2. n \in Nat /\ n # tasks[t].fence
  BY ResearchTypes DEF Document
<1>3. m \in Runner
  <2>. HIDE DEF n
  <2>. QED
    BY <1>2 DEF Runner
<1>4. runner' \in [Worker -> Runner]
  <2>. HIDE DEF m
  <2>. QED
    BY <1>1, <1>3, ResearchTypes
<1>5. \A v \in Worker : Placed(v)'
  BY <1>1, <1>2, ResearchTypes DEF ResearchInv, Placed
<1>. QED
  BY <1>1, <1>4, <1>5, ResearchTypes, PlaceMoves

LEMMA AcquireKeeps == ASSUME ResearchInv, NEW w \in Worker, Research!Acquire(w) PROVE ResearchInv'
<1>. DEFINE t == runner[w].task
            slot == [task |-> t, token |-> w, fence |-> runner[w].fence, left |-> "live"]
<1>1. runner[w].at = "acquire" /\ UNCHANGED <<tasks, freeing>> /\ troubles' \in 0 .. Troubles
  BY ResearchTypes, ResearchTrouble DEF Research!Acquire
<1>2. CASE slots' = slots /\ Research!Goes(w, "idle")
  <2>1. runner' \in [Worker -> Runner] /\ runner'[w].at = "idle" /\ \A v \in Worker : v # w => runner'[v] = runner[v]
    BY <1>2, Going
  <2>2. \A v \in Worker : Placed(v)'
    BY <1>1, <1>2, <2>1 DEF ResearchInv, Placed
  <2>. QED
    BY <1>1, <1>2, <2>1, <2>2, ResearchTypes, PlaceMoves
<1>3. ASSUME NEW s1, s1 \in {slot, [slot EXCEPT !.token = None]}, NEW place \in {"take", "idle"},
             Research!Free(t), slots' = slots \cup {s1}, Research!Goes(w, place)
      PROVE  ResearchInv'
  <2>1. /\ runner' \in [Worker -> Runner] /\ runner'[w].at = place /\ \A v \in Worker : v # w => runner'[v] = runner[v]
        /\ place # "idle" => runner'[w].task = runner[w].task
    BY <1>3, Going
  <2>2. t \in Task
    BY <1>1 DEF ResearchInv, Placed
  <2>3. s1 \in Slot /\ s1.task = t
    <3>1. slot \in Slot /\ slot.task = t
      BY <2>2, ResearchTypes DEF Slot, Runner
    <3>. HIDE DEF slot
    <3>. QED
      BY <1>3, <3>1 DEF Slot
  <2>4. \A s \in slots : s.task # t
    BY <1>3 DEF Research!Free
  <2>5. slots' \subseteq Slot
    BY <1>3, <2>3, ResearchTypes
  <2>7. \A s, q \in slots' : s.task = q.task => s = q
    BY <1>3, <2>3, <2>4 DEF ResearchInv
  <2>8. IsFiniteSet(Slotted)' /\ Cardinality(Slotted)' <= Capacity
    <3>1. Slotted' = Slotted \cup {t} /\ t \notin Slotted
      BY <1>3, <2>2, <2>3, <2>4 DEF Slotted
    <3>2. IsFiniteSet(Slotted)
      BY DEF ResearchInv
    <3>3. Cardinality(Slotted) < Capacity
      BY <1>3, SlotPerTask, ResearchCardinality DEF Research!Free
    <3>4. IsFiniteSet(Slotted \cup {t}) /\ Cardinality(Slotted \cup {t}) = Cardinality(Slotted) + 1
      BY <3>1, <3>2, FS_AddElement
    <3>5. Cardinality(Slotted) \in Nat
      BY <3>2, FS_CardinalityType
    <3>. QED
      BY <3>1, <3>3, <3>4, <3>5, BoundsAssumption
  <2>9. \A v \in Worker : Placed(v)'
    BY <1>1, <1>3, <2>1, <2>2 DEF ResearchInv, Placed
  <2>. QED
    BY <1>1, <2>1, <2>5, <2>7, <2>8, <2>9, ResearchTypes, ResearchHolds DEF ResearchInv
<1>4. \/ slots' = slots /\ Research!Goes(w, "idle")
      \/ Research!Free(t) /\ slots' = slots \cup {slot} /\ Research!Goes(w, "take")
      \/ Research!Free(t) /\ slots' = slots \cup {[slot EXCEPT !.token = None]} /\ Research!Goes(w, "idle")
  BY DEF Research!Acquire
<1>. HIDE DEF slot
<1>. QED
  BY <1>2, <1>3, <1>4

\* The task is taken: no other worker holds it, and the slot of the claim has time left.
LEMMA TakenKeeps ==
  ASSUME ResearchInv, NEW w \in Worker, NEW place \in {"work", "undo", "free"},
         runner[w].at = "take", Research!MayTake(w), Research!Goes(w, place),
         tasks' = [tasks EXCEPT ![runner[w].task].fence = @ + 1, ![runner[w].task].token = w, ![runner[w].task].live = TRUE],
         UNCHANGED <<slots, freeing>>, troubles' \in 0 .. Troubles
  PROVE  ResearchInv'
<1>. DEFINE t == runner[w].task
            n == tasks[t].fence + 1
            m == [tasks[t] EXCEPT !.fence = n, !.token = w, !.live = TRUE]
<1>1. /\ runner' \in [Worker -> Runner] /\ runner'[w].at = place /\ \A v \in Worker : v # w => runner'[v] = runner[v]
      /\ runner'[w].task = runner[w].task /\ runner'[w].fence = runner[w].fence
  BY Going
<1>2. t \in Task /\ tasks \in [Task -> Document] /\ tasks[t] \in Document
  BY ResearchTypes DEF ResearchInv, Placed
<1>3. tasks' = [tasks EXCEPT ![t] = m]
  BY <1>2 DEF Document
<1>4. n \in Nat /\ tasks[t].fence < n
  BY <1>2 DEF Document
<1>5. m \in Document /\ m.fence = n /\ m.token = w
  <2>. HIDE DEF n
  <2>. QED
    BY <1>2, <1>4 DEF Document
<1>6. PICK s \in slots : s.task = t /\ s.token = w /\ s.fence = runner[w].fence /\ s.left = "live"
  BY DEF Research!MayTake, Research!Mine
<1>. HIDE DEF m, n
<1>7. tasks' \in [Task -> Document] /\ tasks'[t] = m /\ \A q \in Task : q # t => tasks'[q] = tasks[q]
  <2>. HIDE DEF t
  <2>. QED
    BY ONLY <1>2, <1>3, <1>5
<1>8. IsFiniteSet(Slotted)' /\ Cardinality(Slotted)' <= Capacity
  BY SlotsGo
<1>9. \A q \in freeing' : q.fence < tasks'[q.task].fence
  <2>1. \A q \in freeing : q.fence \in Nat /\ q.task \in Task /\ q.fence < tasks[q.task].fence
    BY ResearchTypes DEF ResearchInv, Slot
  <2>2. tasks[t].fence \in Nat
    BY <1>2 DEF Document
  <2>. QED
    BY <1>4, <1>5, <1>7, <2>1, <2>2
<1>10. \A v \in Worker : Placed(v)'
  <2>1. Placed(w)'
    BY <1>1, <1>2, <1>6 DEF Placed
  <2>2. ASSUME NEW v \in Worker, v # w PROVE Placed(v)'
    <3>1. runner'[v] = runner[v] /\ Placed(v)
      BY <1>1, <2>2 DEF ResearchInv
    <3>2. tasks'[t].token # v
      BY <1>5, <1>7, <2>2
    <3>3. runner[v].task = t \/ tasks'[runner[v].task] = tasks[runner[v].task] \/ runner[v].task \notin Task
      BY <1>7
    <3>. HIDE DEF t
    <3>. QED
      BY <3>1, <3>2, <3>3 DEF Placed
  <2>. QED
    BY <2>1, <2>2
<1>. QED
  BY <1>1, <1>7, <1>8, <1>9, <1>10, ResearchTypes, ResearchHolds DEF ResearchInv

LEMMA TakeKeeps == ASSUME ResearchInv, NEW w \in Worker, Research!Take(w) PROVE ResearchInv'
<1>. DEFINE t == runner[w].task
            taken == [tasks EXCEPT ![t].fence = @ + 1, ![t].token = w, ![t].live = TRUE]
<1>1. runner[w].at = "take" /\ UNCHANGED <<slots, freeing>> /\ troubles' \in 0 .. Troubles
  BY ResearchTypes, ResearchTrouble DEF Research!Take
<1>2. CASE tasks' = tasks /\ Research!Goes(w, "free")
  <2>1. /\ runner' \in [Worker -> Runner] /\ runner'[w].at = "free" /\ \A v \in Worker : v # w => runner'[v] = runner[v]
        /\ runner'[w].task = runner[w].task
    BY <1>2, Going
  <2>2. \A v \in Worker : Placed(v)'
    BY <1>1, <1>2, <2>1 DEF ResearchInv, Placed
  <2>. QED
    BY <1>1, <1>2, <2>1, <2>2, ResearchTypes, PlaceMoves
<1>3. CASE Research!MayTake(w) /\ tasks' = taken /\ \E place \in {"work", "undo", "free"} : Research!Goes(w, place)
  BY <1>1, <1>3, TakenKeeps
<1>. QED
  BY <1>2, <1>3 DEF Research!Take

\* Slots may go, or change, that back no worker.
LEMMA SlotsKeep ==
  ASSUME ResearchInv, UNCHANGED <<tasks, freeing>>, troubles' \in 0 .. Troubles,
         runner' \in [Worker -> Runner], \A v \in Worker : Placed(v)',
         slots' \subseteq Slot, \A s \in slots' : \E q \in slots : q.task = s.task,
         \A s, q \in slots' : s.task = q.task => s = q
  PROVE  ResearchInv'
<1>1. IsFiniteSet(Slotted)' /\ Cardinality(Slotted)' <= Capacity
  BY SlotsGo
<1>. QED
  BY <1>1, ResearchTypes, ResearchHolds DEF ResearchInv

\* The lease of a task ends, and its fence does not go back.
LEMMA TaskStops ==
  ASSUME ResearchInv, NEW t \in Task, NEW m \in Document, tasks' = [tasks EXCEPT ![t] = m], ~m.live,
         tasks[t].fence <= m.fence, slots' = slots, troubles' \in 0 .. Troubles, freeing' \subseteq Slot,
         \A s \in freeing' : s \in freeing \/ (s.task = t /\ s.fence < m.fence),
         runner' \in [Worker -> Runner],
         \A v \in Worker : runner'[v] = runner[v] \/ runner'[v].at = "idle" \/ runner'[v].task = t
  PROVE  ResearchInv'
<1>1. tasks' \in [Task -> Document] /\ tasks'[t] = m /\ \A q \in Task : q # t => tasks'[q] = tasks[q]
  BY ResearchTypes
<1>3. IsFiniteSet(Slotted)' /\ Cardinality(Slotted)' <= Capacity
  BY SlotsGo
<1>4. \A s \in freeing' : s.fence < tasks'[s.task].fence
  <2>1. \A q \in freeing : q.fence \in Nat /\ q.task \in Task /\ q.fence < tasks[q.task].fence
    BY ResearchTypes DEF ResearchInv, Slot
  <2>2. tasks[t].fence \in Nat /\ m.fence \in Nat
    BY ResearchTypes DEF Document
  <2>. QED
    BY <1>1, <2>1, <2>2
<1>5. \A v \in Worker : Placed(v)'
  BY <1>1 DEF ResearchInv, Placed
<1>6. slots' \subseteq Slot /\ \A s, q \in slots' : s.task = q.task => s = q
  BY ResearchTypes DEF ResearchInv
<1>. QED
  BY <1>1, <1>3, <1>4, <1>5, <1>6, ResearchHolds

\* A worker that gives its slot back, or renews it.
LEMMA GiveBackKeeps == ASSUME ResearchInv, NEW w \in Worker, Research!GiveBack(w) PROVE ResearchInv'
<1>1. runner[w].at = "free" /\ Research!Goes(w, "idle") /\ UNCHANGED <<tasks, freeing>>
  BY DEF Research!GiveBack
<1>2. runner' \in [Worker -> Runner] /\ runner'[w].at = "idle" /\ \A v \in Worker : v # w => runner'[v] = runner[v]
  BY <1>1, Going
<1>4. \A s \in Research!Mine(w) : s \in slots /\ s.task = runner[w].task /\ s.token = w /\ s.fence = runner[w].fence
  BY DEF Research!Mine
<1>3. \A v \in Worker : Placed(v)'
  <2>1. \A v \in Worker : \A s \in slots : v # w /\ s.token = v => s \in slots'
    BY <1>4 DEF Research!GiveBack
  <2>. QED
    BY <1>1, <1>2, <2>1 DEF ResearchInv, Placed
<1>6. CASE slots' = slots \ Research!Mine(w) /\ troubles' = troubles
  BY <1>1, <1>2, <1>3, <1>6, ResearchTypes, SlotsKeep DEF ResearchInv
<1>7. CASE Research!Trouble /\ slots' = (slots \ Research!Mine(w)) \cup {[s EXCEPT !.token = None] : s \in Research!Mine(w)}
  <2>. DEFINE Kept(s) == [s EXCEPT !.token = None]
  <2>0. slots' = (slots \ Research!Mine(w)) \cup {Kept(s) : s \in Research!Mine(w)}
    BY <1>7
  <2>1. \A s \in Research!Mine(w) : Kept(s) \in Slot /\ Kept(s).task = s.task
    BY <1>4, ResearchTypes DEF Slot
  <2>. HIDE DEF Kept
  <2>2. slots' \subseteq Slot /\ \A s \in slots' : \E q \in slots : q.task = s.task
    BY <1>4, <2>0, <2>1, ResearchTypes
  <2>3. \A s, q \in slots' : s.task = q.task => s = q
    <3>1. \A s, q \in slots : s.task = q.task => s = q
      BY DEF ResearchInv
    <3>. QED
      BY <1>4, <2>0, <2>1, <3>1
  <2>4. troubles' \in 0 .. Troubles
    BY <1>7, ResearchTrouble
  <2>. QED
    BY <1>1, <1>2, <1>3, <2>2, <2>3, <2>4, SlotsKeep
<1>. QED
  BY <1>6, <1>7 DEF Research!GiveBack

LEMMA RenewSlotKeeps == ASSUME ResearchInv, NEW w \in Worker, Research!RenewSlot(w) PROVE ResearchInv'
<1>1. runner[w].at = "work" /\ UNCHANGED <<tasks, freeing, troubles>>
  BY DEF Research!RenewSlot
<1>2. CASE slots' = slots /\ Research!Goes(w, "idle")
  <2>1. runner' \in [Worker -> Runner] /\ runner'[w].at = "idle" /\ \A v \in Worker : v # w => runner'[v] = runner[v]
    BY <1>2, Going
  <2>2. \A v \in Worker : Placed(v)'
    BY <1>1, <1>2, <2>1 DEF ResearchInv, Placed
  <2>. QED
    BY <1>1, <1>2, <2>1, <2>2, ResearchTypes, PlaceMoves
<1>3. CASE /\ slots' = (slots \ Research!Mine(w)) \cup {[s EXCEPT !.left = "live"] : s \in Research!Mine(w)}
           /\ Research!Goes(w, "renew")
  <2>1. /\ runner' \in [Worker -> Runner] /\ runner'[w].at = "renew" /\ \A v \in Worker : v # w => runner'[v] = runner[v]
        /\ runner'[w].task = runner[w].task /\ runner'[w].fence = runner[w].fence
    BY <1>3, Going
  <2>. DEFINE Renewed(s) == [s EXCEPT !.left = "live"]
  <2>0. slots' = (slots \ Research!Mine(w)) \cup {Renewed(s) : s \in Research!Mine(w)}
    BY <1>3
  <2>3. \A s \in Research!Mine(w) : s \in slots /\ s \in Slot
    BY ResearchTypes DEF Research!Mine
  <2>4. \A s \in Research!Mine(w) : Renewed(s) \in Slot /\ Renewed(s).task = s.task /\ (s.left = "live" => Renewed(s) = s)
    BY <2>3 DEF Slot
  <2>. HIDE DEF Renewed
  <2>5. slots' \subseteq Slot /\ \A s \in slots' : \E q \in slots : q.task = s.task
    BY <2>0, <2>3, <2>4, ResearchTypes
  <2>6. \A s, q \in slots' : s.task = q.task => s = q
    <3>1. \A s, q \in slots : s.task = q.task => s = q
      BY DEF ResearchInv
    <3>. QED
      BY <2>0, <2>3, <2>4, <3>1
  <2>7. \A s \in slots : s.left = "live" => s \in slots'
    BY <2>0, <2>4
  <2>2. \A v \in Worker : Placed(v)'
    BY <1>1, <2>1, <2>7 DEF ResearchInv, Placed
  <2>. QED
    BY <1>1, <2>1, <2>2, <2>5, <2>6, ResearchTypes, SlotsKeep
<1>. QED
  BY <1>2, <1>3 DEF Research!RenewSlot

LEMMA RenewTaskKeeps == ASSUME ResearchInv, NEW w \in Worker, Research!RenewTask(w) PROVE ResearchInv'
<1>1. runner[w].at = "renew" /\ UNCHANGED <<tasks, slots, freeing, troubles>>
  BY DEF Research!RenewTask
<1>2. PICK place \in {"work", "idle"} : Research!Goes(w, place)
  BY DEF Research!RenewTask
<1>3. /\ runner' \in [Worker -> Runner] /\ runner'[w].at = place /\ \A v \in Worker : v # w => runner'[v] = runner[v]
      /\ place # "idle" => runner'[w].task = runner[w].task /\ runner'[w].fence = runner[w].fence
  BY <1>2, Going
<1>4. \A v \in Worker : Placed(v)'
  BY <1>1, <1>3 DEF ResearchInv, Placed
<1>. QED
  BY <1>1, <1>3, <1>4, ResearchTypes, PlaceMoves

LEMMA ResearchSaveKeeps == ASSUME ResearchInv, NEW w \in Worker, Research!Save(w) PROVE ResearchInv'
<1>. DEFINE t == runner[w].task
<1>1. runner[w].at \in {"work", "renew"} /\ UNCHANGED <<slots, freeing, troubles>>
  BY DEF Research!Save
<1>2. t \in Task /\ tasks \in [Task -> Document] /\ tasks[t] \in Document
  BY <1>1, ResearchTypes DEF ResearchInv, Placed
<1>3. CASE tasks' = [tasks EXCEPT ![t].status = "WORKING"] /\ runner' = runner /\ tasks[t].status = "SUBMITTED"
  <2>1. tasks' \in [Task -> Document] /\ \A q \in Task : q # t => tasks'[q] = tasks[q]
    BY <1>2, <1>3 DEF Document
  <2>2. tasks'[t].live = tasks[t].live /\ tasks'[t].token = tasks[t].token /\ tasks'[t].fence = tasks[t].fence
        /\ tasks'[t].status = "WORKING"
    BY <1>2, <1>3 DEF Document
  <2>4. IsFiniteSet(Slotted)' /\ Cardinality(Slotted)' <= Capacity
    BY <1>1, SlotsGo
  <2>5. \A s \in freeing' : s.fence < tasks'[s.task].fence
    BY <1>1, <2>1, <2>2, ResearchTypes DEF ResearchInv, Slot
  <2>6. \A v \in Worker : Placed(v)'
    BY <1>1, <1>3, <2>1, <2>2 DEF ResearchInv, Placed
  <2>. QED
    BY <1>1, <1>3, <2>1, <2>4, <2>5, <2>6, ResearchTypes, ResearchHolds DEF ResearchInv
<1>4. CASE \E status \in {"COMPLETED", "FAILED"} : tasks' = [tasks EXCEPT ![t] = Research!Unleased(t, status)] /\ Research!Goes(w, "free")
  <2>1. PICK status \in {"COMPLETED", "FAILED"} : tasks' = [tasks EXCEPT ![t] = Research!Unleased(t, status)] /\ Research!Goes(w, "free")
    BY <1>4
  <2>. DEFINE m == [tasks[t] EXCEPT !.status = status, !.token = None, !.live = FALSE]
  <2>2. tasks' = [tasks EXCEPT ![t] = m]
    BY <2>1 DEF Research!Unleased
  <2>3. m \in Document /\ ~m.live /\ m.fence = tasks[t].fence
    <3>1. status \in {"NONE", "SUBMITTED", "WORKING", "COMPLETED", "FAILED", "CANCELED"}
      BY <2>1
    <3>2. m.fence = tasks[t].fence /\ ~m.live
      BY <1>2 DEF Document
    <3>. QED
      BY <1>2, <3>1, <3>2 DEF Document
  <2>6. tasks[t].fence <= m.fence
    <3>1. tasks[t].fence \in Nat /\ m.fence = tasks[t].fence
      BY <1>2, <2>3 DEF Document
    <3>. QED
      BY <3>1
  <2>4. runner' \in [Worker -> Runner] /\ runner'[w].task = t /\ \A v \in Worker : v # w => runner'[v] = runner[v]
    BY <2>1, Going
  <2>5. freeing' \subseteq Slot /\ troubles' \in 0 .. Troubles
    BY <1>1, ResearchTypes
  <2>. HIDE DEF m
  <2>. QED
    BY <1>1, <1>2, <2>2, <2>3, <2>4, <2>5, <2>6, TaskStops
<1>5. CASE tasks' = tasks /\ Research!Goes(w, "idle")
  <2>1. runner' \in [Worker -> Runner] /\ runner'[w].at = "idle" /\ \A v \in Worker : v # w => runner'[v] = runner[v]
    BY <1>5, Going
  <2>2. \A v \in Worker : Placed(v)'
    BY <1>1, <1>5, <2>1 DEF ResearchInv, Placed
  <2>. QED
    BY <1>1, <1>5, <2>1, <2>2, ResearchTypes, PlaceMoves
<1>. QED
  BY <1>3, <1>4, <1>5 DEF Research!Save

\* A lease is released, or taken away by a cancellation.
LEMMA UnleasedFenced ==
  ASSUME ResearchInv, NEW t \in Task, NEW status \in {"NONE", "SUBMITTED", "WORKING", "COMPLETED", "FAILED", "CANCELED"}, NEW m,
         m = [Research!Unleased(t, status) EXCEPT !.fence = @ + 1]
  PROVE  m \in Document /\ ~m.live /\ tasks[t].fence < m.fence /\ tasks[t].fence <= m.fence /\ tasks[t].fence \in Nat
<1>. DEFINE n == tasks[t].fence + 1
<1>1. tasks[t] \in Document
  BY ResearchTypes
<1>2. m = [tasks[t] EXCEPT !.status = status, !.token = None, !.live = FALSE, !.fence = n]
  BY <1>1 DEF Research!Unleased, Document
<1>3. n \in Nat /\ tasks[t].fence < n /\ tasks[t].fence \in Nat /\ tasks[t].fence <= n
  BY <1>1 DEF Document
<1>. HIDE DEF n
<1>4. m \in Document /\ ~m.live /\ m.fence = n
  BY <1>1, <1>2, <1>3 DEF Document
<1>. QED
  BY <1>3, <1>4

\* A worker gives its lease back, with a new fence, and is left to free the slot.
LEMMA LeaseGiven ==
  ASSUME ResearchInv, NEW w \in Worker, runner[w].at # "idle", Research!Goes(w, "free"),
         tasks' = [tasks EXCEPT ![runner[w].task] =
                    [Research!Unleased(runner[w].task, tasks[runner[w].task].status) EXCEPT !.fence = @ + 1]],
         UNCHANGED <<slots, freeing>>, troubles' \in 0 .. Troubles
  PROVE  ResearchInv'
<1>. DEFINE t == runner[w].task
            m == [Research!Unleased(t, tasks[t].status) EXCEPT !.fence = @ + 1]
<1>1. t \in Task /\ tasks[t] \in Document
  BY ResearchTypes DEF ResearchInv, Placed
<1>2. m \in Document /\ ~m.live /\ tasks[t].fence <= m.fence
  <2>1. tasks[t].status \in {"NONE", "SUBMITTED", "WORKING", "COMPLETED", "FAILED", "CANCELED"}
    BY <1>1 DEF Document
  <2>. HIDE DEF m
  <2>2. m = [Research!Unleased(t, tasks[t].status) EXCEPT !.fence = @ + 1]
    BY DEF m
  <2>. QED
    BY <1>1, <2>1, <2>2, UnleasedFenced
<1>3. runner' \in [Worker -> Runner] /\ runner'[w].task = t /\ \A v \in Worker : v # w => runner'[v] = runner[v]
  BY Going
<1>4. freeing' \subseteq Slot
  BY ResearchTypes
<1>. HIDE DEF m
<1>5. tasks' = [tasks EXCEPT ![t] = m]
  BY DEF m
<1>. QED
  BY <1>1, <1>2, <1>3, <1>4, <1>5, TaskStops

\* A worker that has lost its lease leaves, or goes to free its slot.
LEMMA WorkerLeaves ==
  ASSUME ResearchInv, NEW w \in Worker, runner[w].at # "idle", NEW place \in {"idle", "free"}, Research!Goes(w, place),
         UNCHANGED <<tasks, slots, freeing>>, troubles' \in 0 .. Troubles
  PROVE  ResearchInv'
<1>1. /\ runner' \in [Worker -> Runner] /\ runner'[w].at = place /\ \A v \in Worker : v # w => runner'[v] = runner[v]
      /\ place # "idle" => runner'[w].task = runner[w].task
  BY Going
<1>2. \A v \in Worker : Placed(v)'
  BY <1>1 DEF ResearchInv, Placed
<1>. QED
  BY <1>1, <1>2, PlaceMoves

LEMMA UndoKeeps == ASSUME ResearchInv, NEW w \in Worker, Research!Undo(w) PROVE ResearchInv'
  BY LeaseGiven, WorkerLeaves, ResearchTypes DEF Research!Undo

LEMMA ResearchReleaseKeeps == ASSUME ResearchInv, NEW w \in Worker, Research!Release(w) PROVE ResearchInv'
  BY LeaseGiven, WorkerLeaves, ResearchTrouble DEF Research!Release

LEMMA CancelKeeps == ASSUME ResearchInv, NEW t \in Task, Research!Cancel(t) PROVE ResearchInv'
<1>. DEFINE m == [Research!Unleased(t, "CANCELED") EXCEPT !.fence = @ + 1]
<1>1. tasks' = [tasks EXCEPT ![t] = m] /\ UNCHANGED <<slots, runner, troubles>>
  BY DEF Research!Cancel
<1>2. m \in Document /\ ~m.live /\ tasks[t].fence < m.fence /\ tasks[t].fence <= m.fence
  <2>. HIDE DEF m
  <2>1. m = [Research!Unleased(t, "CANCELED") EXCEPT !.fence = @ + 1]
    BY DEF m
  <2>. QED
    BY <2>1, UnleasedFenced
<1>. HIDE DEF m
<1>3. freeing' \subseteq Slot /\ \A s \in freeing' : s \in freeing \/ (s.task = t /\ s.fence < m.fence)
  BY <1>2, ResearchTypes DEF Research!Cancel
<1>4. runner' \in [Worker -> Runner] /\ troubles' \in 0 .. Troubles
  BY <1>1, ResearchTypes
<1>. QED
  BY <1>1, <1>2, <1>3, <1>4, TaskStops

LEMMA LeaseEndsKeeps == ASSUME ResearchInv, NEW t \in Task, Research!LeaseEnds(t) PROVE ResearchInv'
<1>. DEFINE m == [tasks[t] EXCEPT !.live = FALSE]
<1>1. tasks' = [tasks EXCEPT ![t] = m] /\ UNCHANGED <<slots, runner, freeing>> /\ troubles' \in 0 .. Troubles
  BY ResearchTypes, ResearchTrouble DEF Research!LeaseEnds
<1>2. m \in Document /\ ~m.live /\ m.fence = tasks[t].fence
  BY ResearchTypes DEF Document
<1>4. tasks[t].fence <= m.fence
  <2>1. tasks[t].fence \in Nat /\ m.fence = tasks[t].fence
    BY <1>2, ResearchTypes DEF Document
  <2>. QED
    BY <2>1
<1>3. freeing' \subseteq Slot /\ runner' \in [Worker -> Runner]
  BY <1>1, ResearchTypes
<1>. HIDE DEF m
<1>. QED
  BY <1>1, <1>2, <1>3, <1>4, TaskStops

\* The slot of a claim whose fence is behind, or that its task does not run under, goes.
LEMMA FreeCanceledKeeps == ASSUME ResearchInv, NEW s \in slots \cup freeing, Research!FreeCanceled(s) PROVE ResearchInv'
<1>1. /\ s \in freeing /\ freeing' = freeing \ {s} /\ UNCHANGED <<tasks, runner, troubles>>
      /\ slots' = {q \in slots : ~(q.task = s.task /\ q.token = s.token /\ q.fence = s.fence)}
  BY DEF Research!FreeCanceled
<1>2. s.fence < tasks[s.task].fence /\ s.fence \in Nat /\ tasks[s.task].fence \in Nat
  BY <1>1, ResearchTypes DEF ResearchInv, Slot, Document
<1>4. IsFiniteSet(Slotted)' /\ Cardinality(Slotted)' <= Capacity
  BY <1>1, SlotsGo
<1>5. slots' \subseteq Slot /\ freeing' \subseteq Slot /\ \A q \in freeing' : q.fence < tasks'[q.task].fence
  BY <1>1, ResearchTypes DEF ResearchInv
<1>6. \A p, q \in slots' : p.task = q.task => p = q
  BY <1>1 DEF ResearchInv
<1>7. \A v \in Worker : Placed(v)'
  BY <1>1, <1>2 DEF ResearchInv, Placed
<1>. QED
  BY <1>1, <1>4, <1>5, <1>6, <1>7, ResearchTypes, ResearchHolds

LEMMA SlotClosesKeeps == ASSUME ResearchInv, NEW s \in slots \cup freeing, Research!SlotCloses(s) PROVE ResearchInv'
<1>. DEFINE m == [s EXCEPT !.left = "closing"]
<1>1. /\ s \in slots /\ s.left = "live" /\ slots' = (slots \ {s}) \cup {m} /\ UNCHANGED <<tasks, runner, freeing>>
      /\ ~(tasks[s.task].live /\ tasks[s.task].token = s.token /\ tasks[s.task].fence = s.fence)
  BY DEF Research!SlotCloses
<1>2. troubles' \in 0 .. Troubles
  BY ResearchTypes, ResearchTrouble DEF Research!SlotCloses
<1>3. m \in Slot /\ m.task = s.task
  BY <1>1, ResearchTypes DEF Slot
<1>. HIDE DEF m
<1>4. slots' \subseteq Slot /\ \A p \in slots' : \E q \in slots : q.task = p.task
  BY <1>1, <1>3, ResearchTypes
<1>5. \A p, q \in slots' : p.task = q.task => p = q
  BY <1>1, <1>3 DEF ResearchInv
<1>6. \A v \in Worker : Placed(v)'
  BY <1>1 DEF ResearchInv, Placed
<1>7. runner' \in [Worker -> Runner]
  BY <1>1, ResearchTypes
<1>. QED
  BY <1>1, <1>2, <1>4, <1>5, <1>6, <1>7, SlotsKeep

LEMMA SlotEndsKeeps == ASSUME ResearchInv, NEW s \in slots \cup freeing, Research!SlotEnds(s) PROVE ResearchInv'
<1>1. s \in slots /\ s.left = "closing" /\ slots' = slots \ {s} /\ UNCHANGED <<tasks, runner, freeing, troubles>>
  BY DEF Research!SlotEnds
<1>2. \A v \in Worker : Placed(v)'
  BY <1>1 DEF ResearchInv, Placed
<1>3. runner' \in [Worker -> Runner] /\ slots' \subseteq Slot /\ troubles' \in 0 .. Troubles
  BY <1>1, ResearchTypes
<1>4. /\ \A p \in slots' : \E q \in slots : q.task = p.task
      /\ \A p, q \in slots' : p.task = q.task => p = q
  BY <1>1 DEF ResearchInv
<1>. QED
  BY <1>1, <1>2, <1>3, <1>4, SlotsKeep

\* What a worker that dies holds keeps its fence, and matches as before.
LEMMA ResearchCrashKeeps == ASSUME ResearchInv, NEW w \in Worker, Research!Crash(w) PROVE ResearchInv'
<1>. DEFINE Lost(s) == [s EXCEPT !.token = IF @ = w THEN None ELSE @]
<1>1. /\ runner' = [runner EXCEPT ![w] = Research!Idle] /\ freeing' = freeing /\ troubles' \in 0 .. Troubles
      /\ tasks' = [t \in Task |-> IF tasks[t].token = w THEN [tasks[t] EXCEPT !.token = None] ELSE tasks[t]]
      /\ slots' = {Lost(s) : s \in slots}
  BY ResearchTrouble DEF Research!Crash
<1>2. \A s \in slots : /\ Lost(s) \in Slot /\ Lost(s).task = s.task /\ Lost(s).fence = s.fence /\ Lost(s).left = s.left
                       /\ Lost(s).token = IF s.token = w THEN None ELSE s.token
  BY ResearchTypes DEF Slot
<1>3. \A t \in Task : /\ tasks'[t] \in Document /\ tasks'[t].status = tasks[t].status /\ tasks'[t].fence = tasks[t].fence
                      /\ tasks'[t].live = tasks[t].live
                      /\ tasks'[t].token = IF tasks[t].token = w THEN None ELSE tasks[t].token
  BY <1>1, ResearchTypes DEF Document
<1>4. tasks' \in [Task -> Document]
  BY <1>1, <1>3
<1>5. runner' \in [Worker -> Runner] /\ runner'[w].at = "idle" /\ \A v \in Worker : v # w => runner'[v] = runner[v]
  BY <1>1, ResearchTypes DEF Runner, Research!Idle
<1>. HIDE DEF Lost
<1>6. slots' \subseteq Slot /\ \A p \in slots' : \E q \in slots : q.task = p.task
  BY <1>1, <1>2
<1>7. \A p, q \in slots' : p.task = q.task => p = q
  BY <1>1, <1>2 DEF ResearchInv
<1>9. IsFiniteSet(Slotted)' /\ Cardinality(Slotted)' <= Capacity
  BY <1>6, SlotsGo
<1>10. \A s \in freeing' : s.fence < tasks'[s.task].fence
  BY <1>1, <1>3, ResearchTypes DEF ResearchInv, Slot
<1>11. \A v \in Worker : Placed(v)'
  <2>1. \A v \in Worker : \A s \in slots : v # w /\ s.token = v => s \in slots'
    <3>1. \A s \in slots : s.token # w => Lost(s) = s
      BY ResearchTypes DEF Lost, Slot
    <3>. QED
      BY <1>1, <3>1
  <2>. QED
    BY <1>3, <1>5, <2>1, NobodyAssumption DEF ResearchInv, Placed
<1>. QED
  BY <1>1, <1>4, <1>5, <1>6, <1>7, <1>9, <1>10, <1>11, ResearchTypes, ResearchHolds

LEMMA ResearchStep == ASSUME ResearchInv, Research!Next PROVE ResearchInv'
  BY SubmitKeeps, CancelKeeps, LeaseEndsKeeps, ReadKeeps, AcquireKeeps, TakeKeeps, UndoKeeps, GiveBackKeeps, ResearchSaveKeeps, RenewSlotKeeps,
     RenewTaskKeeps, ResearchReleaseKeeps, ResearchCrashKeeps, FreeCanceledKeeps, SlotClosesKeeps, SlotEndsKeeps DEF Research!Next

LEMMA ResearchAlways == Spec => [](part = "research" => ResearchInv)
<1>. DEFINE Inv == part = "research" => ResearchInv
<1>1. Init => Inv
  BY ResearchInit DEF Init
<1>2. Inv /\ [Next]_<<part, troubles, services>> => Inv'
  <2>. SUFFICES ASSUME part = "research", ResearchInv, [Next]_<<part, troubles, services>> PROVE ResearchInv'
    BY PartStays
  <2>1. CASE UNCHANGED <<tasks, slots, runner, freeing, troubles>>
    BY <2>1 DEF ResearchInv, Research!TypeOK, Slotted, Placed
  <2>. QED
    BY <2>1, ResearchMoves, ResearchStep
<1>. QED
  BY <1>1, <1>2, PTL DEF Spec

\* No more tasks are run under a live lease than maxActiveTasks: who runs one has a slot with
\* time left, and two workers that run two tasks have two slots.
THEOREM CapacityIsKept == Spec => []CapacityHolds
<1>. DEFINE Run == {runner[w].task : w \in {v \in Worker : Research!RunsTask(v)}}
<1>1. ASSUME ResearchInv PROVE Research!Cardinality(Run) <= Capacity
  <2>1. Run \in SUBSET Slotted
    BY <1>1 DEF ResearchInv, Placed, Slotted, Research!RunsTask, Research!Holds
  <2>2. IsFiniteSet(Slotted) /\ Cardinality(Slotted) <= Capacity
    BY <1>1 DEF ResearchInv
  <2>. HIDE DEF Run
  <2>3. IsFiniteSet(Run) /\ Cardinality(Run) <= Cardinality(Slotted)
    BY <2>1, <2>2, FS_Subset
  <2>4. Cardinality(Run) \in Nat /\ Cardinality(Slotted) \in Nat
    BY <2>2, <2>3, FS_CardinalityType
  <2>. QED
    BY <2>2, <2>3, <2>4, ResearchCardinality, BoundsAssumption
<1>2. (part = "research" => ResearchInv) => CapacityHolds
  BY <1>1 DEF CapacityHolds, Research!CapacityHolds
<1>. QED
  BY <1>2, ResearchAlways, PTL

-----------------------------------------------------------------------------
(* The Plan Health scan *)

LEMMA ScanTypes ==
  ASSUME ScanInv
  PROVE  /\ lease \in Lease /\ scans \in [Worker -> Sweep] /\ looks \in [Scan!Look -> Inspection]
         /\ revision \in [Scan!User -> 1 .. Revisions] /\ troubles \in 0 .. Troubles
         /\ \A w \in Worker : scans[w] \in Sweep
         /\ \A i \in Scan!Look : looks[i] \in Inspection
  BY DEF ScanInv, Scan!TypeOK, Scan!Ended, Lease, Sweep, Fence, Inspection

\* The inspections that a scan in a generation may make.
LEMMA LooksAre ==
  /\ \A g \in 1 .. Claims, u \in 1 .. Users : <<g, u>> \in Scan!Look /\ <<g, u>>[1] = g /\ <<g, u>>[2] = u
  /\ \A i \in Scan!Look : i[1] \in 1 .. Claims /\ i[2] \in 1 .. Users /\ i = <<i[1], i[2]>>
  BY DEF Scan!Look, Scan!User

LEMMA ScanHolds ==
  ASSUME lease' \in Lease, scans' \in [Worker -> Sweep], looks' \in [Scan!Look -> Inspection],
         revision' \in [Scan!User -> 1 .. Revisions], troubles' \in 0 .. Troubles,
         lease'.status = "COMPLETED" => \A u \in 1 .. Users : Inspected(u)',
         ~lease'.failed => \A u \in 1 .. lease'.cursor : Inspected(u)',
         \A w \in Worker : scans'[w].at # "idle" => Scanning(w)',
         \A i \in Scan!Look : Outcome(i)' /\ (i[1] > lease'.generation => Untouched(i)')
  PROVE  ScanInv'
<1>1. Scan!TypeOK'
  BY DEF Scan!TypeOK, Scan!Ended, Lease, Sweep, Fence, Inspection
<1>2. Scan!CompletedMeansInspected'
  BY DEF Scan!CompletedMeansInspected, Inspected, Scan!User
<1>. QED
  BY <1>1, <1>2 DEF ScanInv

LEMMA ScanInit == Scan!Init => ScanInv
<1>. SUFFICES ASSUME Scan!Init PROVE ScanInv
  OBVIOUS
<1>1. Scan!TypeOK
  BY BoundsAssumption DEF Scan!Init, Scan!TypeOK, Scan!Ended, Scan!Idle
<1>2. lease.status = "PENDING" /\ lease.cursor = 0 /\ lease.generation = 0 /\ \A w \in Worker : scans[w].at = "idle"
  BY DEF Scan!Init, Scan!Idle
<1>3. \A i \in Scan!Look : Outcome(i) /\ Untouched(i)
  BY DEF Scan!Init, Outcome, Untouched
<1>. QED
  BY <1>1, <1>2, <1>3 DEF ScanInv, Scan!CompletedMeansInspected

\* Nobody scans any more in a generation.
Abandoned(g) == g <= lease.generation /\ \A v \in Worker : scans'[v].at # "idle" => scans'[v].generation # g

\* Inspections go on, and nothing that was published is undone; scans and the lease may end.
LEMMA LooksGoOn ==
  ASSUME ScanInv, looks' \in [Scan!Look -> Inspection],
         \A i \in Scan!Look : /\ Outcome(i)'
                              /\ Untouched(i) => Untouched(i)' \/ Abandoned(i[1])
                              /\ looks[i].fence # "NONE" => looks'[i].fence # "NONE"
                              /\ looks[i].fence = "PUBLISHED" => looks'[i].fence = "PUBLISHED",
         revision' \in [Scan!User -> 1 .. Revisions], troubles' \in 0 .. Troubles, lease' \in Lease,
         lease'.generation = lease.generation, lease'.cursor = lease.cursor, lease'.failed = lease.failed,
         lease'.status = "COMPLETED" => lease.status = "COMPLETED" \/ \A u \in 1 .. Users : Inspected(u),
         scans' \in [Worker -> Sweep], \A v \in Worker : scans'[v] = scans[v] \/ scans'[v].at = "idle"
  PROVE  ScanInv'
<1>1. ASSUME NEW u \in 1 .. Users, Inspected(u) PROVE Inspected(u)'
  BY <1>1, LooksAre DEF Inspected
<1>2. lease.cursor \in 0 .. Users /\ lease.generation \in 0 .. Claims
  BY ScanTypes DEF Lease
<1>3. lease'.status = "COMPLETED" => \A u \in 1 .. Users : Inspected(u)'
  BY <1>1 DEF ScanInv, Scan!CompletedMeansInspected, Scan!User, Inspected
<1>4. ~lease'.failed => \A u \in 1 .. lease'.cursor : Inspected(u)'
  BY <1>1, <1>2, BoundsAssumption DEF ScanInv
<1>5. ASSUME NEW w \in Worker, scans'[w].at # "idle" PROVE Scanning(w)'
  <2>0. PICK s \in Sweep : scans[w] = s
    BY ScanTypes
  <2>1. scans'[w] = s /\ Scanning(w) /\ scans[w] = s
    BY <1>5, <2>0 DEF ScanInv
  <2>2. s.generation \in 1 .. lease.generation /\ s.generation \in 1 .. Claims /\ s.cursor \in 0 .. Users
    BY <1>2, <2>1, BoundsAssumption DEF Scanning, Sweep
  <2>3. ~s.failed => \A u \in 1 .. s.cursor : Inspected(u)'
    BY <1>1, <2>1, <2>2, BoundsAssumption DEF Scanning
  <2>4. s.at = "inspect" => s.cursor < Users /\ looks'[<<s.generation, s.cursor + 1>>].fence # "NONE"
    <3>. SUFFICES ASSUME s.at = "inspect" PROVE s.cursor < Users /\ looks'[<<s.generation, s.cursor + 1>>].fence # "NONE"
      OBVIOUS
    <3>1. s.cursor < Users /\ looks[<<s.generation, s.cursor + 1>>].fence # "NONE"
      BY <2>1 DEF Scanning
    <3>2. s.cursor + 1 \in 1 .. Users
      BY <2>2, <3>1, BoundsAssumption
    <3>3. <<s.generation, s.cursor + 1>> \in Scan!Look
      BY <2>2, <3>2, LooksAre
    <3>. QED
      BY <3>1, <3>3
  <2>5. \A u \in 1 .. Users : u > s.cursor + (IF s.at = "inspect" THEN 1 ELSE 0) => Untouched(<<s.generation, u>>)'
    <3>. SUFFICES ASSUME NEW u \in 1 .. Users, u > s.cursor + (IF s.at = "inspect" THEN 1 ELSE 0) PROVE Untouched(<<s.generation, u>>)'
      OBVIOUS
    <3>1. Untouched(<<s.generation, u>>) /\ <<s.generation, u>> \in Scan!Look /\ <<s.generation, u>>[1] = s.generation
      BY <2>1, <2>2, LooksAre DEF Scanning
    <3>2. ~Abandoned(s.generation)
      BY <1>5, <2>1 DEF Abandoned
    <3>. QED
      BY <3>1, <3>2
  <2>6. \A v \in Worker : v # w /\ scans'[v].at # "idle" => scans'[v].generation # s.generation
    BY <2>1 DEF Scanning
  <2>7. s.generation = lease.generation => s.cursor = lease.cursor /\ s.failed = lease.failed
    BY <2>1 DEF Scanning
  <2>. QED
    BY <2>1, <2>2, <2>3, <2>4, <2>5, <2>6, <2>7 DEF Scanning
<1>6. ASSUME NEW i \in Scan!Look, i[1] > lease'.generation PROVE Untouched(i)'
  <2>1. i[1] \in Nat /\ ~Abandoned(i[1])
    BY <1>2, <1>6, LooksAre, BoundsAssumption DEF Abandoned
  <2>. QED
    BY <1>6, <2>1 DEF ScanInv
<1>. QED
  BY <1>3, <1>4, <1>5, <1>6, ScanHolds

\* One inspection that has begun goes on.
LEMMA LookGoesOn ==
  ASSUME ScanInv, NEW i \in Scan!Look, NEW m \in Inspection, looks' = [looks EXCEPT ![i] = m], looks[i].fence # "NONE",
         m.fence # "NONE", looks[i].fence = "PUBLISHED" => m.fence = "PUBLISHED",
         m.outcome = "ok" \/ m.at = "written" => m.fence = "PUBLISHED", m.outcome = "none" => m.fence \in {"RUNNING", "PUBLISHED"}
  PROVE  /\ looks' \in [Scan!Look -> Inspection]
         /\ \A j \in Scan!Look : /\ Outcome(j)' /\ (Untouched(j) => Untouched(j)')
                                 /\ looks[j].fence # "NONE" => looks'[j].fence # "NONE"
                                 /\ looks[j].fence = "PUBLISHED" => looks'[j].fence = "PUBLISHED"
<1>1. looks' \in [Scan!Look -> Inspection] /\ looks'[i] = m /\ \A j \in Scan!Look : j # i => looks'[j] = looks[j]
  BY ScanTypes
<1>2. \A j \in Scan!Look : Outcome(j)'
  BY <1>1 DEF Outcome, ScanInv
<1>. QED
  BY <1>1, <1>2 DEF Untouched

LEMMA ScanTrouble == ASSUME ScanInv, Scan!Trouble PROVE troubles' \in 0 .. Troubles
  BY ScanTypes, BoundsAssumption DEF Scan!Trouble

\* The lease, the scans and the profiles rest while an inspection goes on.
LEMMA InspectionKeeps ==
  ASSUME ScanInv, NEW i \in Scan!Look, NEW m \in Inspection, looks' = [looks EXCEPT ![i] = m], looks[i].fence # "NONE",
         m.fence # "NONE", looks[i].fence = "PUBLISHED" => m.fence = "PUBLISHED",
         m.outcome = "ok" \/ m.at = "written" => m.fence = "PUBLISHED", m.outcome = "none" => m.fence \in {"RUNNING", "PUBLISHED"},
         UNCHANGED <<lease, scans, revision>>, troubles' \in 0 .. Troubles
  PROVE  ScanInv'
<1>1. /\ looks' \in [Scan!Look -> Inspection]
      /\ \A j \in Scan!Look : /\ Outcome(j)' /\ (Untouched(j) => Untouched(j)')
                              /\ looks[j].fence # "NONE" => looks'[j].fence # "NONE"
                              /\ looks[j].fence = "PUBLISHED" => looks'[j].fence = "PUBLISHED"
  BY LookGoesOn
<1>2. lease' \in Lease /\ scans' \in [Worker -> Sweep] /\ revision' \in [Scan!User -> 1 .. Revisions]
  BY ScanTypes
<1>. QED
  BY <1>1, <1>2, LooksGoOn

LEMMA FinishKeeps ==
  ASSUME ScanInv, NEW i \in Scan!Look, NEW f \in Fence, NEW o \in {"ok", "failed"}, Scan!Finish(i, f, o), looks[i].fence # "NONE",
         f # "NONE", looks[i].fence = "PUBLISHED" => f = "PUBLISHED", o = "ok" => f = "PUBLISHED",
         UNCHANGED <<lease, scans, revision>>, troubles' \in 0 .. Troubles
  PROVE  ScanInv'
<1>. DEFINE out == IF looks[i].outcome = "none" THEN o ELSE looks[i].outcome
            m == [looks[i] EXCEPT !.at = "over", !.fence = f, !.outcome = out]
<1>0. looks[i] \in Inspection /\ Outcome(i)
  BY ScanTypes DEF ScanInv
<1>1. looks' = [looks EXCEPT ![i] = m]
  BY <1>0, ScanTypes DEF Scan!Finish, Inspection
<1>2. out \in {"ok", "failed"} /\ (out = "ok" => f = "PUBLISHED")
  BY <1>0 DEF Inspection, Outcome
<1>3. m \in Inspection /\ m.fence = f /\ m.outcome = out /\ m.at = "over"
  <2>. HIDE DEF out
  <2>. QED
    BY <1>0, <1>2 DEF Inspection
<1>. HIDE DEF m, out
<1>. QED
  BY <1>1, <1>2, <1>3, InspectionKeeps

LEMMA FailedKeeps ==
  ASSUME ScanInv, NEW i \in Scan!Look, Scan!Failed(i), looks[i].fence # "NONE", UNCHANGED <<lease, scans, revision>>,
         troubles' \in 0 .. Troubles
  PROVE  ScanInv'
<1>. DEFINE f == IF looks[i].fence = "RUNNING" THEN "FAILED" ELSE looks[i].fence
<1>1. f \in Fence /\ f # "NONE" /\ (looks[i].fence = "PUBLISHED" => f = "PUBLISHED")
  BY ScanTypes DEF Inspection, Fence
<1>2. Scan!Finish(i, f, "failed")
  BY DEF Scan!Failed
<1>. HIDE DEF f
<1>. QED
  BY <1>1, <1>2, FinishKeeps

\* An inspection under way has its fence.
LEMMA UnderWay ==
  ASSUME ScanInv, NEW i \in Scan!Look, looks[i].at \in {"read", "write", "written"}
  PROVE  looks[i].fence # "NONE" /\ looks[i].fence \in Fence /\ looks[i] \in Inspection /\ Outcome(i)
  BY ScanTypes DEF ScanInv, Outcome, Inspection

LEMMA ReadLookKeeps == ASSUME ScanInv, NEW i \in Scan!Look, Scan!Read(i) PROVE ScanInv'
<1>1. looks[i].at = "read" /\ UNCHANGED <<lease, scans, revision, troubles>> /\ troubles' \in 0 .. Troubles
  BY ScanTypes DEF Scan!Read
<1>2. looks[i].fence # "NONE" /\ looks[i].fence \in Fence /\ looks[i] \in Inspection /\ Outcome(i)
  BY <1>1, UnderWay
<1>3. CASE Scan!Failed(i)
  BY <1>1, <1>2, <1>3, FailedKeeps
<1>4. CASE Scan!Finish(i, looks[i].fence, "failed")
  BY <1>1, <1>2, <1>4, FinishKeeps
<1>5. CASE looks' = [looks EXCEPT ![i].at = "write"]
  <2>. DEFINE m == [looks[i] EXCEPT !.at = "write"]
  <2>1. looks' = [looks EXCEPT ![i] = m]
    BY <1>5
  <2>2. m \in Inspection /\ m.fence = looks[i].fence /\ m.outcome = looks[i].outcome /\ m.at = "write"
    BY <1>2 DEF Inspection
  <2>. HIDE DEF m
  <2>. QED
    BY <1>1, <1>2, <2>1, <2>2, InspectionKeeps DEF Outcome
<1>. QED
  BY <1>3, <1>4, <1>5 DEF Scan!Read

LEMMA PublishKeeps == ASSUME ScanInv, NEW i \in Scan!Look, Scan!Publish(i) PROVE ScanInv'
<1>1. looks[i].at = "write" /\ UNCHANGED <<lease, scans, revision, troubles>> /\ troubles' \in 0 .. Troubles
  BY ScanTypes DEF Scan!Publish
<1>2. looks[i].fence # "NONE" /\ looks[i].fence \in Fence /\ looks[i] \in Inspection /\ Outcome(i)
  BY <1>1, UnderWay
<1>. DEFINE m == [looks[i] EXCEPT !.at = "written", !.fence = "PUBLISHED"]
<1>3. looks' = [looks EXCEPT ![i] = m]
  BY <1>2 DEF Scan!Publish, Inspection
<1>4. m \in Inspection /\ m.fence = "PUBLISHED"
  BY <1>2 DEF Inspection, Fence
<1>. HIDE DEF m
<1>. QED
  BY <1>1, <1>2, <1>3, <1>4, InspectionKeeps

LEMMA PublishRefusedKeeps == ASSUME ScanInv, NEW i \in Scan!Look, Scan!PublishRefused(i) PROVE ScanInv'
<1>1. looks[i].at = "write" /\ UNCHANGED <<lease, scans, revision, troubles>> /\ troubles' \in 0 .. Troubles
  BY ScanTypes DEF Scan!PublishRefused
<1>2. looks[i].fence # "NONE" /\ looks[i].fence \in Fence
  BY <1>1, UnderWay
<1>3. Scan!Finish(i, looks[i].fence, "failed") \/ Scan!Failed(i)
  BY DEF Scan!PublishRefused
<1>. QED
  BY <1>1, <1>2, <1>3, FinishKeeps, FailedKeeps

LEMMA ScanSettleKeeps == ASSUME ScanInv, NEW i \in Scan!Look, Scan!Settle(i) PROVE ScanInv'
<1>1. looks[i].at = "written" /\ UNCHANGED <<lease, scans, revision>> /\ troubles' \in 0 .. Troubles
  BY ScanTypes, ScanTrouble DEF Scan!Settle
<1>2. looks[i].fence = "PUBLISHED" /\ looks[i].fence \in Fence
  BY <1>1, UnderWay DEF Outcome
<1>3. Scan!Finish(i, looks[i].fence, "ok") \/ Scan!Finish(i, looks[i].fence, "failed")
  BY DEF Scan!Settle
<1>. QED
  BY <1>1, <1>2, <1>3, FinishKeeps


\* What invalidate makes of an inspection.
Withdrawn(i, status) ==
  [looks[i] EXCEPT !.fence = IF looks[i].fence = "RUNNING" THEN status ELSE @,
                   !.outcome = IF looks[i].fence = "RUNNING" THEN "failed" ELSE "ok"]

LEMMA InvalidatedIs ==
  ASSUME ScanInv, NEW i \in Scan!Look, NEW status \in {"STALE", "CANCELLED", "TIMED_OUT"},
         looks[i].fence # "NONE", looks[i].outcome = "none"
  PROVE  /\ Scan!Invalidated(i, status) = [looks EXCEPT ![i] = Withdrawn(i, status)]
         /\ Withdrawn(i, status) \in Inspection /\ Withdrawn(i, status).fence # "NONE"
         /\ looks[i].fence = "PUBLISHED" => Withdrawn(i, status).fence = "PUBLISHED"
         /\ Withdrawn(i, status).outcome # "none" /\ Withdrawn(i, status).at = looks[i].at
         /\ Withdrawn(i, status).outcome = "ok" \/ Withdrawn(i, status).at = "written" => Withdrawn(i, status).fence = "PUBLISHED"
<1>0. looks[i] \in Inspection /\ Outcome(i) /\ looks \in [Scan!Look -> Inspection]
  BY ScanTypes DEF ScanInv
<1>1. CASE looks[i].fence = "RUNNING"
  <2>. DEFINE m == [looks[i] EXCEPT !.fence = status, !.outcome = "failed"]
  <2>1. Withdrawn(i, status) = m
    BY <1>0, <1>1 DEF Withdrawn, Inspection
  <2>2. Scan!Invalidated(i, status) = [looks EXCEPT ![i] = m]
    BY <1>0, <1>1 DEF Scan!Invalidated, Inspection
  <2>3. m \in Inspection /\ m.fence = status /\ m.outcome = "failed" /\ m.at = looks[i].at
    BY <1>0 DEF Inspection, Fence
  <2>. HIDE DEF m
  <2>. QED
    BY <1>0, <1>1, <2>1, <2>2, <2>3 DEF Outcome
<1>2. CASE looks[i].fence # "RUNNING"
  <2>. DEFINE m == [looks[i] EXCEPT !.outcome = "ok"]
  <2>1. Withdrawn(i, status) = m
    BY <1>0, <1>2 DEF Withdrawn, Inspection
  <2>2. Scan!Invalidated(i, status) = [looks EXCEPT ![i] = m]
    BY <1>0, <1>2 DEF Scan!Invalidated, Inspection
  <2>3. m \in Inspection /\ m.fence = looks[i].fence /\ m.outcome = "ok" /\ m.at = looks[i].at
    BY <1>0 DEF Inspection
  <2>4. looks[i].fence = "PUBLISHED"
    BY <1>0, <1>2 DEF Outcome
  <2>. HIDE DEF m
  <2>. QED
    BY <2>1, <2>2, <2>3, <2>4
<1>. QED
  BY <1>1, <1>2

LEMMA DeadlineKeeps == ASSUME ScanInv, NEW i \in Scan!Look, Scan!Deadline(i) PROVE ScanInv'
<1>1. /\ looks[i].at \in {"read", "write", "written"} /\ looks[i].outcome = "none"
      /\ UNCHANGED <<lease, scans, revision>> /\ troubles' \in 0 .. Troubles
  BY ScanTrouble DEF Scan!Deadline
<1>2. looks[i].fence # "NONE" /\ looks[i] \in Inspection /\ Outcome(i) /\ looks \in [Scan!Look -> Inspection]
  BY <1>1, UnderWay, ScanTypes
<1>3. CASE looks' = [Scan!Invalidated(i, "TIMED_OUT") EXCEPT ![i].late = TRUE]
  <2>. DEFINE d == Withdrawn(i, "TIMED_OUT")
              m == [d EXCEPT !.late = TRUE]
  <2>1. /\ Scan!Invalidated(i, "TIMED_OUT") = [looks EXCEPT ![i] = d]
        /\ d \in Inspection /\ d.fence # "NONE" /\ (looks[i].fence = "PUBLISHED" => d.fence = "PUBLISHED")
        /\ d.outcome # "none" /\ (d.outcome = "ok" \/ d.at = "written" => d.fence = "PUBLISHED")
    BY <1>1, <1>2, InvalidatedIs
  <2>. HIDE DEF d
  <2>2. m \in Inspection /\ m.fence = d.fence /\ m.outcome = d.outcome /\ m.at = d.at
    BY <2>1 DEF Inspection
  <2>3. looks' = [looks EXCEPT ![i] = m]
    BY <1>2, <1>3, <2>1
  <2>. HIDE DEF m
  <2>. QED
    BY <1>1, <1>2, <2>1, <2>2, <2>3, InspectionKeeps
<1>4. CASE looks' = [looks EXCEPT ![i].late = TRUE, ![i].outcome = "failed"]
  <2>. DEFINE m == [looks[i] EXCEPT !.late = TRUE, !.outcome = "failed"]
  <2>1. looks' = [looks EXCEPT ![i] = m]
    BY <1>2, <1>4 DEF Inspection
  <2>2. m \in Inspection /\ m.fence = looks[i].fence /\ m.outcome = "failed" /\ m.at = looks[i].at
    BY <1>2 DEF Inspection
  <2>. HIDE DEF m
  <2>. QED
    BY <1>1, <1>2, <2>1, <2>2, InspectionKeeps DEF Outcome
<1>. QED
  BY <1>3, <1>4 DEF Scan!Deadline

\* A scan that ends leaves what it made.
LEMMA Leaving ==
  ASSUME ScanInv, NEW w \in Worker, Scan!Leave(w)
  PROVE  scans' \in [Worker -> Sweep] /\ \A v \in Worker : scans'[v] = scans[v] \/ scans'[v].at = "idle"
<1>1. Scan!Idle \in Sweep /\ Scan!Idle.at = "idle"
  BY BoundsAssumption DEF Scan!Idle, Sweep
<1>. QED
  BY <1>1, ScanTypes DEF Scan!Leave

\* Inspections that rest are as sound as they were.
LEMMA LooksRest ==
  ASSUME ScanInv, looks' = looks
  PROVE  /\ looks' \in [Scan!Look -> Inspection]
         /\ \A i \in Scan!Look : /\ Outcome(i)' /\ (Untouched(i) => Untouched(i)')
                                 /\ looks[i].fence # "NONE" => looks'[i].fence # "NONE"
                                 /\ looks[i].fence = "PUBLISHED" => looks'[i].fence = "PUBLISHED"
  BY ScanTypes DEF ScanInv, Outcome, Untouched

\* What a replica that has a scan inspects is in a generation of the period.
LEMMA CurrentIs ==
  ASSUME ScanInv, NEW w \in Worker, scans[w].at # "idle", scans[w].cursor < Users
  PROVE  /\ Scan!Current(w) \in Scan!Look /\ Scan!Current(w)[1] = scans[w].generation /\ Scan!Current(w)[2] = scans[w].cursor + 1
         /\ Scan!Current(w) = <<scans[w].generation, scans[w].cursor + 1>> /\ scans[w].cursor + 1 \in 1 .. Users
         /\ scans[w].generation \in 1 .. Claims
<1>1. scans[w] \in Sweep /\ lease \in Lease /\ Scanning(w)
  BY ScanTypes DEF ScanInv
<1>2. scans[w].generation \in 1 .. Claims /\ scans[w].cursor + 1 \in 1 .. Users
  BY <1>1, BoundsAssumption DEF Sweep, Lease, Scanning
<1>. QED
  BY <1>2, LooksAre DEF Scan!Current

LEMMA ScanCrashKeeps == ASSUME ScanInv, NEW w \in Worker, Scan!Crash(w) PROVE ScanInv'
<1>1. /\ scans[w].at # "idle" /\ troubles' \in 0 .. Troubles /\ Scan!Leave(w) /\ UNCHANGED <<lease, revision>>
      /\ looks' = [i \in Scan!Look |-> IF i[1] = scans[w].generation THEN [looks[i] EXCEPT !.at = "over"] ELSE looks[i]]
  BY ScanTrouble DEF Scan!Crash
<1>. DEFINE g == scans[w].generation
            Mark(i) == [looks[i] EXCEPT !.at = "over"]
<1>2. \A i \in Scan!Look : looks[i] \in Inspection /\ Outcome(i)
  BY ScanTypes DEF ScanInv
<1>3. scans' \in [Worker -> Sweep] /\ \A v \in Worker : scans'[v] = scans[v] \/ scans'[v].at = "idle"
  BY <1>1, Leaving
<1>4. ASSUME NEW i \in Scan!Look
      PROVE  /\ looks'[i] \in Inspection /\ looks'[i].fence = looks[i].fence /\ looks'[i].outcome = looks[i].outcome
             /\ looks'[i].at \in {looks[i].at, "over"} /\ (i[1] # g => looks'[i] = looks[i])
  BY <1>1, <1>2 DEF Inspection
<1>5. Abandoned(g)
  <2>1. g <= lease.generation /\ Scanning(w)
    BY <1>1, ScanTypes, BoundsAssumption DEF ScanInv, Scanning, Lease
  <2>2. scans'[w].at = "idle"
    BY <1>1, ScanTypes DEF Scan!Leave, Scan!Idle
  <2>3. ASSUME NEW v \in Worker, scans'[v].at # "idle" PROVE scans'[v].generation # g
    <3>1. v # w /\ scans'[v] = scans[v]
      BY <1>3, <2>2, <2>3
    <3>. QED
      BY <2>1, <2>3, <3>1 DEF Scanning
  <2>. QED
    BY <2>1, <2>3 DEF Abandoned
<1>6. looks' \in [Scan!Look -> Inspection]
  BY <1>1, <1>4
<1>7. \A i \in Scan!Look : /\ Outcome(i)'
                           /\ Untouched(i) => Untouched(i)' \/ Abandoned(i[1])
                           /\ looks[i].fence # "NONE" => looks'[i].fence # "NONE"
                           /\ looks[i].fence = "PUBLISHED" => looks'[i].fence = "PUBLISHED"
  BY <1>2, <1>4, <1>5 DEF Outcome, Untouched
<1>8. lease' \in Lease /\ revision' \in [Scan!User -> 1 .. Revisions]
  BY <1>1, ScanTypes
<1>. QED
  BY <1>1, <1>3, <1>6, <1>7, <1>8, LooksGoOn

LEMMA AbortKeeps == ASSUME ScanInv, NEW w \in Worker, Scan!Abort(w) PROVE ScanInv'
<1>1. PICK status \in {"STALE", "CANCELLED"} :
        /\ looks' = IF scans[w].at = "inspect" THEN Scan!Invalidated(Scan!Current(w), status) ELSE looks
        /\ lease' = IF status = "CANCELLED" /\ Scan!Holds(scans[w].generation)
                    THEN [lease EXCEPT !.status = "FAILED", !.live = FALSE] ELSE lease
  BY DEF Scan!Abort
<1>2. /\ scans[w].at # "idle" /\ troubles' \in 0 .. Troubles /\ Scan!Leave(w) /\ revision' = revision
      /\ scans[w].at = "inspect" => looks[Scan!Current(w)].outcome = "none"
  BY ScanTrouble DEF Scan!Abort
<1>3. scans' \in [Worker -> Sweep] /\ \A v \in Worker : scans'[v] = scans[v] \/ scans'[v].at = "idle"
  BY <1>2, Leaving
<1>4. /\ lease' \in Lease /\ lease'.generation = lease.generation /\ lease'.cursor = lease.cursor /\ lease'.failed = lease.failed
      /\ lease'.status = "COMPLETED" => lease.status = "COMPLETED"
  BY <1>1, ScanTypes DEF Lease
<1>5. /\ looks' \in [Scan!Look -> Inspection]
      /\ \A j \in Scan!Look : /\ Outcome(j)' /\ (Untouched(j) => Untouched(j)')
                              /\ looks[j].fence # "NONE" => looks'[j].fence # "NONE"
                              /\ looks[j].fence = "PUBLISHED" => looks'[j].fence = "PUBLISHED"
  <2>1. CASE scans[w].at # "inspect"
    BY <1>1, <2>1, LooksRest
  <2>2. CASE scans[w].at = "inspect"
    <3>0. scans[w].cursor < Users /\ looks[<<scans[w].generation, scans[w].cursor + 1>>].fence # "NONE"
      BY <1>2, <2>2 DEF ScanInv, Scanning
    <3>1. PICK i \in Scan!Look : i = Scan!Current(w) /\ looks[i].fence # "NONE"
      BY <1>2, <3>0, CurrentIs
    <3>. DEFINE m == Withdrawn(i, status)
    <3>2. /\ looks' = [looks EXCEPT ![i] = m] /\ m \in Inspection /\ m.fence # "NONE"
          /\ looks[i].fence = "PUBLISHED" => m.fence = "PUBLISHED"
          /\ m.outcome # "none" /\ (m.outcome = "ok" \/ m.at = "written" => m.fence = "PUBLISHED")
      BY <1>1, <1>2, <2>2, <3>1, InvalidatedIs
    <3>. HIDE DEF m
    <3>. QED
      BY <3>1, <3>2, LookGoesOn
  <2>. QED
    BY <2>1, <2>2
<1>6. revision' \in [Scan!User -> 1 .. Revisions]
  BY <1>2, ScanTypes
<1>. QED
  BY <1>2, <1>3, <1>4, <1>5, <1>6, LooksGoOn

LEMMA LeaseLostKeeps == ASSUME ScanInv, NEW w \in Worker, Scan!LeaseLost(w) PROVE ScanInv'
<1>1. Scan!Leave(w) /\ UNCHANGED <<lease, looks, revision, troubles>>
  BY DEF Scan!LeaseLost
<1>2. scans' \in [Worker -> Sweep] /\ \A v \in Worker : scans'[v] = scans[v] \/ scans'[v].at = "idle"
  BY <1>1, Leaving
<1>3. lease' \in Lease /\ revision' \in [Scan!User -> 1 .. Revisions] /\ troubles' \in 0 .. Troubles
  BY <1>1, ScanTypes
<1>. QED
  BY <1>1, <1>2, <1>3, LooksRest, LooksGoOn

LEMMA ScanLeaseEndsKeeps == ASSUME ScanInv, Scan!LeaseEnds PROVE ScanInv'
<1>1. lease' = [lease EXCEPT !.live = FALSE] /\ UNCHANGED <<scans, looks, revision>> /\ troubles' \in 0 .. Troubles
  BY ScanTypes, ScanTrouble DEF Scan!LeaseEnds
<1>2. /\ lease' \in Lease /\ lease'.generation = lease.generation /\ lease'.cursor = lease.cursor /\ lease'.failed = lease.failed
      /\ lease'.status = lease.status
  BY <1>1, ScanTypes DEF Lease
<1>3. scans' \in [Worker -> Sweep] /\ revision' \in [Scan!User -> 1 .. Revisions]
  BY <1>1, ScanTypes
<1>. QED
  BY <1>1, <1>2, <1>3, LooksRest, LooksGoOn

LEMMA PromoteKeeps == ASSUME ScanInv, NEW u \in Scan!User, Scan!Promote(u) PROVE ScanInv'
<1>1. revision' = [revision EXCEPT ![u] = revision[u] + 1] /\ revision[u] < Revisions /\ UNCHANGED <<lease, scans, looks, troubles>>
  BY DEF Scan!Promote
<1>2. revision[u] + 1 \in 1 .. Revisions
  BY <1>1, ScanTypes, BoundsAssumption
<1>3. revision' \in [Scan!User -> 1 .. Revisions]
  BY <1>1, <1>2, ScanTypes
<1>4. lease' \in Lease /\ scans' \in [Worker -> Sweep] /\ troubles' \in 0 .. Troubles
  BY <1>1, ScanTypes
<1>. QED
  BY <1>1, <1>3, <1>4, LooksRest, LooksGoOn

LEMMA ScanCompleteKeeps == ASSUME ScanInv, NEW w \in Worker, Scan!Complete(w) PROVE ScanInv'
<1>1. /\ scans[w].at = "list" /\ Scan!Holds(scans[w].generation) /\ scans[w].cursor = Users /\ Scan!Leave(w)
      /\ lease' = [lease EXCEPT !.live = FALSE, !.status = IF scans[w].failed THEN "COMPLETED_WITH_ERRORS" ELSE "COMPLETED"]
      /\ UNCHANGED <<looks, revision, troubles>>
  BY DEF Scan!Complete
<1>2. scans' \in [Worker -> Sweep] /\ \A v \in Worker : scans'[v] = scans[v] \/ scans'[v].at = "idle"
  BY <1>1, Leaving
<1>3. ~scans[w].failed => \A u \in 1 .. Users : Inspected(u)
  BY <1>1 DEF ScanInv, Scanning
<1>4. /\ lease' \in Lease /\ lease'.generation = lease.generation /\ lease'.cursor = lease.cursor /\ lease'.failed = lease.failed
      /\ lease'.status = "COMPLETED" => ~scans[w].failed
  BY <1>1, ScanTypes DEF Lease
<1>5. revision' \in [Scan!User -> 1 .. Revisions] /\ troubles' \in 0 .. Troubles
  BY <1>1, ScanTypes
<1>. QED
  BY <1>1, <1>2, <1>3, <1>4, <1>5, LooksRest, LooksGoOn


\* A new generation of the period: nothing was inspected in it yet.
LEMMA ScanClaimKeeps == ASSUME ScanInv, NEW w \in Worker, Scan!Claim(w) PROVE ScanInv'
<1>0. lease.generation + 1 \in Nat
  BY ScanTypes DEF Lease
<1>. PICK g \in Nat : g = lease.generation + 1
  BY <1>0
<1>. DEFINE m == [at |-> "list", generation |-> g, cursor |-> lease.cursor, failed |-> lease.failed]
<1>1. /\ scans[w].at = "idle" /\ lease.generation < Claims /\ scans' = [scans EXCEPT ![w] = m]
      /\ lease' = [lease EXCEPT !.status = "RUNNING", !.generation = g, !.live = TRUE] /\ UNCHANGED <<looks, revision, troubles>>
  BY DEF Scan!Claim
<1>2. /\ lease.generation \in 0 .. Claims /\ g \in 1 .. Claims /\ g \in 0 .. Claims /\ lease.generation < g /\ g > lease.generation
      /\ lease.cursor \in 0 .. Users
  BY <1>1, ScanTypes, BoundsAssumption DEF Lease
<1>3. /\ lease' \in Lease /\ lease'.generation = g /\ lease'.cursor = lease.cursor /\ lease'.failed = lease.failed
      /\ lease'.status = "RUNNING"
  BY <1>1, <1>2, ScanTypes DEF Lease
<1>4. m \in Sweep /\ m.at = "list" /\ m.generation = g /\ m.cursor = lease.cursor /\ m.failed = lease.failed
  BY <1>2, ScanTypes, BoundsAssumption DEF Sweep, Lease
<1>. HIDE DEF m
<1>5. scans' \in [Worker -> Sweep] /\ scans'[w] = m /\ \A v \in Worker : v # w => scans'[v] = scans[v]
  BY <1>1, <1>4, ScanTypes
<1>6. looks' \in [Scan!Look -> Inspection] /\ revision' \in [Scan!User -> 1 .. Revisions] /\ troubles' \in 0 .. Troubles
  BY <1>1, ScanTypes
<1>7. ~lease'.failed => \A u \in 1 .. lease'.cursor : Inspected(u)'
  BY <1>1, <1>3 DEF ScanInv, Inspected
<1>8. \A i \in Scan!Look : Outcome(i)' /\ (i[1] > lease'.generation => Untouched(i)')
  BY <1>1, <1>2, <1>3, LooksAre, BoundsAssumption DEF ScanInv, Outcome, Untouched
<1>9. \A v \in Worker : v # w /\ scans[v].at # "idle" => Scanning(v) /\ scans[v].generation \in 1 .. lease.generation /\ scans[v].generation # g
  BY <1>2, BoundsAssumption DEF ScanInv, Scanning
<1>10. Scanning(w)'
  <2>1. m.generation \in 1 .. lease'.generation
    BY <1>2, <1>3, <1>4
  <2>2. ~m.failed => \A u \in 1 .. m.cursor : Inspected(u)'
    BY <1>3, <1>4, <1>7
  <2>3. \A u \in 1 .. Users : Untouched(<<g, u>>)'
    <3>1. \A u \in 1 .. Users : <<g, u>> \in Scan!Look /\ <<g, u>>[1] > lease.generation
      BY <1>2, LooksAre
    <3>2. \A i \in Scan!Look : i[1] > lease.generation => Untouched(i)
      BY DEF ScanInv
    <3>3. \A u \in 1 .. Users : Untouched(<<g, u>>)
      BY <3>1, <3>2
    <3>. QED
      BY <1>1, <3>3 DEF Untouched
  <2>4. \A v \in Worker : v # w /\ scans'[v].at # "idle" => scans'[v].generation # g
    BY <1>5, <1>9
  <2>5. \A u \in 1 .. Users : Untouched(<<scans[w].generation, u>>)'
    BY <1>4, <1>5, <2>3
  <2>. QED
    BY <1>3, <1>4, <1>5, <2>1, <2>2, <2>4, <2>5 DEF Scanning
<1>11. ASSUME NEW v \in Worker, v # w, scans'[v].at # "idle" PROVE Scanning(v)'
  <2>1. scans'[v] = scans[v] /\ Scanning(v) /\ scans[v].generation \in 1 .. lease.generation /\ scans[v].generation # g
    BY <1>5, <1>9, <1>11
  <2>2. scans[v].generation \in 1 .. g
    BY <1>2, <2>1, BoundsAssumption
  <2>3. \A q \in Worker : q # v /\ scans'[q].at # "idle" => scans'[q].generation # scans[v].generation
    BY <1>4, <1>5, <2>1 DEF Scanning
  <2>4. PICK q \in Sweep : scans[v] = q
    BY ScanTypes
  <2>5. \A i : looks'[i] = looks[i]
    BY <1>1
  <2>6. ~q.failed => \A u \in 1 .. q.cursor : Inspected(u)'
    BY <2>1, <2>4, <2>5 DEF Scanning, Inspected
  <2>7. \A u \in 1 .. Users : u > q.cursor + (IF q.at = "inspect" THEN 1 ELSE 0) => Untouched(<<q.generation, u>>)'
    BY <2>1, <2>4, <2>5 DEF Scanning, Untouched
  <2>8. q.at = "inspect" => q.cursor < Users /\ looks'[<<q.generation, q.cursor + 1>>].fence # "NONE"
    BY <2>1, <2>4, <2>5 DEF Scanning
  <2>. QED
    BY <1>3, <2>1, <2>2, <2>3, <2>4, <2>6, <2>7, <2>8 DEF Scanning
<1>. QED
  BY <1>3, <1>5, <1>6, <1>7, <1>8, <1>10, <1>11, ScanHolds

\* The next user's inspection begins: it is untouched, and of no other scan.
LEMMA InspectKeeps == ASSUME ScanInv, NEW w \in Worker, Scan!Inspect(w) PROVE ScanInv'
<1>1. /\ scans[w].at = "list" /\ scans[w].cursor < Users /\ scans' = [scans EXCEPT ![w].at = "inspect"]
      /\ UNCHANGED <<lease, revision, troubles>>
  BY DEF Scan!Inspect
<1>2. PICK s \in Sweep : scans[w] = s
  BY ScanTypes
<1>3. PICK i \in Scan!Look : i = Scan!Current(w) /\ i = <<s.generation, s.cursor + 1>> /\ i[1] = s.generation /\ i[2] = s.cursor + 1
                             /\ s.cursor + 1 \in 1 .. Users /\ s.generation \in 1 .. Claims
  BY <1>1, <1>2, CurrentIs
<1>4. Scanning(w) /\ s.at = "list" /\ s.cursor \in 0 .. Users
  BY <1>1, <1>2 DEF ScanInv, Sweep
<1>5. Untouched(i) /\ looks[i] \in Inspection
  <2>1. s.cursor + 1 > s.cursor + 0
    BY <1>4, BoundsAssumption
  <2>. QED
    BY <1>2, <1>3, <1>4, <2>1, ScanTypes DEF Scanning
<1>. DEFINE m == [looks[i] EXCEPT !.at = "read", !.revision = revision[i[2]], !.fence = "RUNNING"]
            n == [s EXCEPT !.at = "inspect"]
<1>6. looks' = [looks EXCEPT ![i] = m]
  BY <1>3, <1>5, ScanTypes DEF Scan!Inspect, Inspection
<1>7. revision[i[2]] \in 0 .. Revisions
  BY <1>3, ScanTypes, BoundsAssumption DEF Scan!User
<1>8. m \in Inspection /\ m.fence = "RUNNING" /\ m.outcome = "none" /\ m.at = "read"
  BY <1>5, <1>7 DEF Inspection, Fence, Untouched
<1>9. n \in Sweep /\ n.at = "inspect" /\ n.generation = s.generation /\ n.cursor = s.cursor /\ n.failed = s.failed
  BY DEF Sweep
<1>10. scans' = [scans EXCEPT ![w] = n]
  BY <1>1, <1>2 DEF Sweep
<1>. HIDE DEF m, n
<1>11. scans' \in [Worker -> Sweep] /\ scans'[w] = n /\ \A v \in Worker : v # w => scans'[v] = scans[v]
  BY <1>9, <1>10, ScanTypes
<1>12. looks' \in [Scan!Look -> Inspection] /\ looks'[i] = m /\ \A j \in Scan!Look : j # i => looks'[j] = looks[j]
  BY <1>6, <1>8, ScanTypes
<1>13. ASSUME NEW u \in 1 .. Users, Inspected(u) PROVE Inspected(u)'
  BY <1>5, <1>12, <1>13, LooksAre DEF Inspected, Untouched
<1>14. lease' \in Lease /\ lease.cursor \in 0 .. Users /\ lease.generation \in 0 .. Claims /\ revision' \in [Scan!User -> 1 .. Revisions]
       /\ troubles' \in 0 .. Troubles
  BY <1>1, ScanTypes DEF Lease
<1>15. /\ lease'.status = "COMPLETED" => \A u \in 1 .. Users : Inspected(u)'
       /\ ~lease'.failed => \A u \in 1 .. lease'.cursor : Inspected(u)'
  <2>1. lease'.status = "COMPLETED" => \A u \in 1 .. Users : Inspected(u)
    BY <1>1 DEF ScanInv, Scan!CompletedMeansInspected, Scan!User, Inspected
  <2>2. ~lease.failed => \A u \in 1 .. lease.cursor : u \in 1 .. Users /\ Inspected(u)
    BY <1>14, BoundsAssumption DEF ScanInv
  <2>. QED
    BY <1>1, <1>13, <2>1, <2>2
<1>16. s.generation \in 1 .. lease.generation
  BY <1>2, <1>4 DEF Scanning
<1>17. \A j \in Scan!Look : Outcome(j)' /\ (j[1] > lease'.generation => Untouched(j)')
  <2>1. ~(i[1] > lease.generation)
    BY <1>3, <1>14, <1>16, BoundsAssumption
  <2>. QED
    BY <1>1, <1>8, <1>12, <2>1 DEF ScanInv, Outcome, Untouched
<1>18. Scanning(w)'
  <2>1. ~s.failed => \A u \in 1 .. s.cursor : Inspected(u)'
    <3>1. \A u \in 1 .. s.cursor : u \in 1 .. Users
      BY <1>4, BoundsAssumption
    <3>. QED
      BY <1>2, <1>4, <1>13, <3>1 DEF Scanning
  <2>2. \A u \in 1 .. Users : u > s.cursor + 1 => Untouched(<<s.generation, u>>)'
    <3>. SUFFICES ASSUME NEW u \in 1 .. Users, u > s.cursor + 1 PROVE Untouched(<<s.generation, u>>)'
      OBVIOUS
    <3>1. u > s.cursor + 0 /\ u # s.cursor + 1
      BY <1>4, BoundsAssumption
    <3>2. <<s.generation, u>> \in Scan!Look /\ <<s.generation, u>> # i /\ Untouched(<<s.generation, u>>)
      BY <1>2, <1>3, <1>4, <3>1, LooksAre DEF Scanning
    <3>. QED
      BY <1>12, <3>2 DEF Untouched
  <2>3. \A v \in Worker : v # w /\ scans'[v].at # "idle" => scans'[v].generation # s.generation
    BY <1>2, <1>4, <1>11 DEF Scanning
  <2>4. s.generation = lease.generation => s.cursor = lease.cursor /\ s.failed = lease.failed
    BY <1>2, <1>4 DEF Scanning
  <2>5. looks'[<<s.generation, s.cursor + 1>>].fence # "NONE" /\ s.cursor < Users
    BY <1>1, <1>2, <1>3, <1>8, <1>12
  <2>. QED
    BY <1>1, <1>9, <1>11, <1>16, <2>1, <2>2, <2>3, <2>4, <2>5 DEF Scanning
<1>19. ASSUME NEW v \in Worker, v # w, scans'[v].at # "idle" PROVE Scanning(v)'
  <2>1. PICK q \in Sweep : scans[v] = q /\ scans'[v] = q /\ Scanning(v) /\ q.at # "idle"
    BY <1>11, <1>19, ScanTypes DEF ScanInv
  <2>2. q.generation # s.generation /\ q.generation \in 1 .. lease.generation /\ q.generation \in 1 .. Claims /\ q.cursor \in 0 .. Users
    BY <1>1, <1>2, <1>4, <1>14, <1>19, <2>1, BoundsAssumption DEF Scanning, Sweep
  <2>3. \A u \in 1 .. Users : <<q.generation, u>> \in Scan!Look /\ looks'[<<q.generation, u>>] = looks[<<q.generation, u>>]
    BY <1>3, <1>12, <2>2, LooksAre
  <2>4. ~q.failed => \A u \in 1 .. q.cursor : Inspected(u)'
    BY <1>13, <2>1, <2>2, BoundsAssumption DEF Scanning
  <2>5. q.at = "inspect" => q.cursor < Users /\ looks'[<<q.generation, q.cursor + 1>>].fence # "NONE"
    <3>1. q.at = "inspect" => q.cursor < Users /\ looks[<<q.generation, q.cursor + 1>>].fence # "NONE"
      BY <2>1 DEF Scanning
    <3>2. q.cursor < Users => q.cursor + 1 \in 1 .. Users
      BY <2>2, BoundsAssumption
    <3>. QED
      BY <2>3, <3>1, <3>2
  <2>6. \A u \in 1 .. Users : u > q.cursor + (IF q.at = "inspect" THEN 1 ELSE 0) => Untouched(<<q.generation, u>>)'
    BY <2>1, <2>3 DEF Scanning, Untouched
  <2>7. \A x \in Worker : x # v /\ scans'[x].at # "idle" => scans'[x].generation # q.generation
    BY <1>9, <1>11, <2>1, <2>2 DEF Scanning
  <2>8. q.generation = lease.generation => q.cursor = lease.cursor /\ q.failed = lease.failed
    BY <2>1 DEF Scanning
  <2>. QED
    BY <1>1, <2>1, <2>2, <2>4, <2>5, <2>6, <2>7, <2>8 DEF Scanning
<1>. QED
  BY <1>11, <1>12, <1>14, <1>15, <1>17, <1>18, <1>19, ScanHolds

\* The user counts as scanned; without a failure, the inspection was published.
LEMMA ProgressKeeps == ASSUME ScanInv, NEW w \in Worker, Scan!Progress(w) PROVE ScanInv'
<1>1. PICK s \in Sweep : scans[w] = s
  BY ScanTypes
<1>2. /\ s.at = "inspect" /\ lease.generation = s.generation /\ lease.status = "RUNNING" /\ UNCHANGED <<looks, revision, troubles>>
      /\ looks[Scan!Current(w)].outcome # "none"
  BY <1>1 DEF Scan!Progress, Scan!Holds
<1>3. Scanning(w) /\ s.cursor < Users /\ s.cursor = lease.cursor /\ s.failed = lease.failed /\ s.cursor \in 0 .. Users
  BY <1>1, <1>2 DEF ScanInv, Scanning, Sweep
<1>4. PICK i \in Scan!Look : i = Scan!Current(w) /\ i = <<s.generation, s.cursor + 1>> /\ i[2] = s.cursor + 1
                             /\ s.cursor + 1 \in 1 .. Users /\ s.generation \in 1 .. Claims
  BY <1>1, <1>2, <1>3, CurrentIs
<1>. DEFINE c == s.cursor + 1
            f == s.failed \/ looks[i].outcome = "failed"
            n == [s EXCEPT !.at = "list", !.cursor = c, !.failed = f]
<1>5. scans' = [scans EXCEPT ![w] = n]
  BY <1>1, <1>4, ScanTypes DEF Scan!Progress, Sweep
<1>6. lease' = [lease EXCEPT !.cursor = c, !.failed = f]
  BY <1>3, <1>4, ScanTypes DEF Scan!Progress, Lease
<1>7. c \in 1 .. Users /\ c \in 0 .. Users /\ f \in BOOLEAN
  BY <1>4 DEF Sweep
<1>8. \A u \in 1 .. c : u \in 1 .. s.cursor \/ u = c
  BY <1>3, BoundsAssumption
<1>9. ~f => Inspected(c)
  <2>1. ~f => looks[i].outcome = "ok"
    BY <1>2, <1>4, ScanTypes DEF Inspection
  <2>2. ~f => looks[i].fence = "PUBLISHED"
    BY <2>1 DEF ScanInv, Outcome
  <2>. QED
    BY <1>4, <2>2 DEF Inspected
<1>10. ~f => \A u \in 1 .. c : Inspected(u)'
  <2>1. ~f => ~s.failed
    OBVIOUS
  <2>2. ~s.failed => \A u \in 1 .. s.cursor : Inspected(u)
    BY <1>1, <1>3 DEF Scanning
  <2>3. \A u : Inspected(u) <=> Inspected(u)'
    BY <1>2 DEF Inspected
  <2>. HIDE DEF f
  <2>. QED
    BY <1>8, <1>9, <2>1, <2>2, <2>3
<1>11. \A u \in 1 .. Users : u > c + 0 => u > s.cursor + 1
  BY <1>3, BoundsAssumption
<1>. HIDE DEF c, f
<1>12. n \in Sweep /\ n.at = "list" /\ n.cursor = c /\ n.failed = f /\ n.generation = s.generation
  BY <1>7 DEF Sweep
<1>13. /\ lease' \in Lease /\ lease'.cursor = c /\ lease'.failed = f /\ lease'.status = "RUNNING" /\ lease'.generation = lease.generation
  BY <1>2, <1>6, <1>7, ScanTypes DEF Lease
<1>. HIDE DEF n
<1>14. scans' \in [Worker -> Sweep] /\ scans'[w] = n /\ \A v \in Worker : v # w => scans'[v] = scans[v]
  BY <1>5, <1>12, ScanTypes
<1>15. looks' \in [Scan!Look -> Inspection] /\ revision' \in [Scan!User -> 1 .. Revisions] /\ troubles' \in 0 .. Troubles
  BY <1>2, ScanTypes
<1>16. \A j \in Scan!Look : Outcome(j)' /\ (j[1] > lease'.generation => Untouched(j)')
  BY <1>2, <1>13 DEF ScanInv, Outcome, Untouched
<1>17. Scanning(w)'
  <2>1. s.generation \in 1 .. lease.generation
    BY <1>1, <1>3 DEF Scanning
  <2>2. \A u \in 1 .. Users : u > c + 0 => Untouched(<<s.generation, u>>)'
    BY <1>1, <1>2, <1>3, <1>11 DEF Scanning, Untouched
  <2>3. \A v \in Worker : v # w /\ scans'[v].at # "idle" => scans'[v].generation # s.generation
    BY <1>1, <1>3, <1>14 DEF Scanning
  <2>. QED
    BY <1>10, <1>12, <1>13, <1>14, <2>1, <2>2, <2>3 DEF Scanning
<1>18. ASSUME NEW v \in Worker, v # w, scans'[v].at # "idle" PROVE Scanning(v)'
  <2>1. scans'[v] = scans[v] /\ Scanning(v)
    BY <1>14, <1>18 DEF ScanInv
  <2>2. scans[v].generation # lease.generation
    BY <1>1, <1>2, <1>18, <2>1 DEF Scanning
  <2>3. \A x \in Worker : x # v /\ scans'[x].at # "idle" => scans'[x].generation # scans[v].generation
    BY <1>2, <1>12, <1>14, <2>1, <2>2 DEF Scanning
  <2>. QED
    BY <1>2, <1>13, <2>1, <2>2, <2>3 DEF Scanning, Inspected, Untouched
<1>. QED
  BY <1>10, <1>13, <1>14, <1>15, <1>16, <1>17, <1>18, ScanHolds

LEMMA ScanStep == ASSUME ScanInv, Scan!Next PROVE ScanInv'
  BY ScanClaimKeeps, InspectKeeps, ProgressKeeps, ScanCompleteKeeps, LeaseLostKeeps, AbortKeeps, ScanCrashKeeps, ScanLeaseEndsKeeps,
     ReadLookKeeps, PublishKeeps, PublishRefusedKeeps, ScanSettleKeeps, DeadlineKeeps, PromoteKeeps DEF Scan!Next

LEMMA ScanAlways == Spec => [](part = "scan" => ScanInv)
<1>. DEFINE Inv == part = "scan" => ScanInv
<1>1. Init => Inv
  BY ScanInit DEF Init
<1>2. Inv /\ [Next]_<<part, troubles, services>> => Inv'
  <2>. SUFFICES ASSUME part = "scan", ScanInv, [Next]_<<part, troubles, services>> PROVE ScanInv'
    BY PartStays
  <2>1. CASE UNCHANGED <<lease, scans, looks, revision, troubles>>
    BY <2>1 DEF ScanInv, Scan!TypeOK, Scan!CompletedMeansInspected, Inspected, Scanning, Outcome, Untouched
  <2>. QED
    BY <2>1, ScanMoves, ScanStep
<1>. QED
  BY <1>1, <1>2, PTL DEF Spec

\* A period is COMPLETED, without errors, only if every user's plan was inspected and the result published.
THEOREM CompletedIsInspected == Spec => []CompletedMeansInspected
<1>1. (part = "scan" => ScanInv) => CompletedMeansInspected
  BY DEF ScanInv, CompletedMeansInspected
<1>. QED
  BY <1>1, ScanAlways, PTL

-----------------------------------------------------------------------------
(* Plan reviews: what PlanReviewProofs proves of one user's reviews holds of *)
(* this instance, whose constants meet its assumption.                       *)

RP == INSTANCE PlanReviewProofs WITH source <- snapshot, Client <- Request, Worker <- {First(Worker)}

\* The two instances have the same initial states and steps.
LEMMA SameReviewInit == Review!Init => RP!Init
  BY ZenonT(60) DEF Review!Idle, RP!Idle, Review!Init, RP!Init, Review!NoRun, RP!NoRun, Review!RunId, RP!RunId

LEMMA SameReviewNext == Review!Next => RP!Next
  BY ZenonT(60) DEF Review!Active, RP!Active, Review!Admit, RP!Admit, Review!AppendEvent, RP!AppendEvent,
         Review!ApprovalLost, RP!ApprovalLost, Review!Bind, RP!Bind, Review!Bound, RP!Bound, Review!Call, RP!Call,
         Review!CallsSoFar, RP!CallsSoFar, Review!Cancel, RP!Cancel, Review!Checkpoint, RP!Checkpoint, Review!Claim,
         RP!Claim, Review!Claimable, RP!Claimable, Review!Completion, RP!Completion, Review!Counted, RP!Counted,
         Review!CreateMandate, RP!CreateMandate, Review!Decide, RP!Decide, Review!FailRun, RP!FailRun, Review!Goes,
         RP!Goes, Review!Held, RP!Held, Review!Holds, RP!Holds, Review!Idle, RP!Idle, Review!LeaseExpires,
         RP!LeaseExpires, Review!LoadContext, RP!LoadContext, Review!MandateEnd, RP!MandateEnd, Review!MandateEnds,
         RP!MandateEnds, Review!MandateExpires, RP!MandateExpires, Review!MandateResult, RP!MandateResult,
         Review!MayPublish, RP!MayPublish, Review!MayReserve, RP!MayReserve, Review!Next, RP!Next, Review!NoRun,
         RP!NoRun, Review!Outcome, RP!Outcome, Review!Over, RP!Over, Review!Publish, RP!Publish, Review!Published,
         RP!Published, Review!Publishes, RP!Publishes, Review!ReadForFinish, RP!ReadForFinish, Review!ReadSource,
         RP!ReadSource, Review!Recover, RP!Recover, Review!Reserve, RP!Reserve, Review!Retired, RP!Retired,
         Review!RetryDue, RP!RetryDue, Review!RunId, RP!RunId, Review!SourceChanges, RP!SourceChanges, Review!Stale,
         RP!Stale, Review!Supersede, RP!Supersede, Review!SweepMandate, RP!SweepMandate, Review!SweepMark,
         RP!SweepMark, Review!ToSettle, RP!ToSettle, Review!Work, RP!Work, Review!WorkFails, RP!WorkFails,
         Review!WorkerStops, RP!WorkerStops, Review!clientVars, RP!clientVars, Review!workerVars, RP!workerVars,
         Review!Cardinality, RP!Cardinality, Review!NumberNote, RP!NumberNote, Review!CreateNote, RP!CreateNote,
         Review!Notes, RP!Notes, Review!Note, RP!Note, Review!Event, RP!Event

LEMMA ReviewMoves ==
  ASSUME [Next]_<<part, troubles, services>>, part = "review"
  PROVE  Review!Next \/ UNCHANGED reviewVars
  BY DEF Next, services

LEMMA ReviewAlways == Spec => [](part = "review" => RP!Inductive)
<1>. DEFINE Inv == part = "review" => RP!Inductive
<1>1. Init => Inv
  <2>1. RP!Init => RP!Inductive
    BY RP!InductiveInit, ReviewAssumption DEF RP!BoundsAssumption
  <2>. QED
    BY <2>1, SameReviewInit DEF Init
<1>2. Inv /\ [Next]_<<part, troubles, services>> => Inv'
  <2>. SUFFICES ASSUME part = "review", RP!Inductive, [Next]_<<part, troubles, services>> PROVE RP!Inductive'
    BY PartStays
  <2>1. [RP!Next]_(RP!vars)
    BY ReviewMoves, SameReviewNext DEF reviewVars, RP!vars, RP!clientVars
  <2>. QED
    BY <2>1, RP!StepKinds, ReviewAssumption DEF RP!BoundsAssumption
<1>. QED
  BY <1>1, <1>2, PTL DEF Spec

\* However admissions, the worker and retirements interleave, a profile has one review that is
\* queued, running or waiting.
THEOREM OneReview == Spec => []OneActiveReview
<1>1. (part = "review" => RP!Inductive) => OneActiveReview
  BY DEF OneActiveReview, Review!OneActiveReview, Review!RunId, Review!Active, RP!Inductive, RP!RunsSound, RP!OneActiveReview,
         RP!RunId, RP!Active
<1>. QED
  BY <1>1, ReviewAlways, PTL

\* However the worker, retirements and authorization handlers number the events of a review,
\* its stream has every number once and its terminal event names its status.
THEOREM StreamIsKept == Spec => []EventsTellTheEnd
<1>1. (part = "review" => RP!Inductive) => EventsTellTheEnd
  BY DEF EventsTellTheEnd, Review!EventsTellTheEnd, Review!RunId, Review!Ended, Review!Note, Review!Cardinality,
         RP!Inductive, RP!RunsSound, RP!StreamIsTold, RP!RunId, RP!Ended, RP!Note, RP!Cardinality
<1>. QED
  BY <1>1, ReviewAlways, PTL

-----------------------------------------------------------------------------
(* The document store and the queries over it: a replica that serves one   *)
(* request at a time is an instance of CorpusProofs.                       *)

CP == INSTANCE CorpusProofs WITH Document <- Texts, Editor <- Request, Thread <- {First(Worker)}

\* The two instances have the same initial states and steps.
LEMMA SameCorpusInit == Corpus!QueryInit => CP!QueryInit
  BY ZenonT(60) DEF Corpus!Idle, CP!Idle, Corpus!Init, CP!Init, Corpus!Nothing, CP!Nothing, Corpus!QueryInit, CP!QueryInit

LEMMA SameCorpusNext == Corpus!Next => CP!Next
  BY ZenonT(60) DEF Corpus!Active, CP!Active, Corpus!ActiveIn, CP!ActiveIn, Corpus!Ask, CP!Ask, Corpus!At, CP!At,
         Corpus!CallFails, CP!CallFails, Corpus!Change, CP!Change, Corpus!Changed, CP!Changed, Corpus!Clear, CP!Clear,
         Corpus!Compare, CP!Compare, Corpus!Edit, CP!Edit, Corpus!Finish, CP!Finish, Corpus!Goes, CP!Goes,
         Corpus!HardDelete, CP!HardDelete, Corpus!Id, CP!Id, Corpus!Idle, CP!Idle, Corpus!Ids, CP!Ids, Corpus!Ingest,
         CP!Ingest, Corpus!Keyword, CP!Keyword, Corpus!Latest, CP!Latest, Corpus!Leaves, CP!Leaves, Corpus!LoadChunks,
         CP!LoadChunks, Corpus!Loaded, CP!Loaded, Corpus!Look, CP!Look, Corpus!Movable, CP!Movable, Corpus!Moved,
         CP!Moved, Corpus!Next, CP!Next, Corpus!Note, CP!Note, Corpus!Nothing, CP!Nothing, Corpus!Of, CP!Of,
         Corpus!OtherRequest, CP!OtherRequest, Corpus!Place, CP!Place, Corpus!Publish, CP!Publish, Corpus!ReadActive,
         CP!ReadActive, Corpus!ReadChunks, CP!ReadChunks, Corpus!ReadGeneration, CP!ReadGeneration,
         Corpus!ReadRevision, CP!ReadRevision, Corpus!Refresh, CP!Refresh, Corpus!Refreshing, CP!Refreshing,
         Corpus!Refused, CP!Refused, Corpus!Reload, CP!Reload, Corpus!Same, CP!Same, Corpus!Search, CP!Search,
         Corpus!Seen, CP!Seen, Corpus!Sets, CP!Sets, Corpus!SoftDelete, CP!SoftDelete, Corpus!StillThere,
         CP!StillThere, Corpus!Store, CP!Store, Corpus!Unique, CP!Unique, Corpus!UpdateMetadata, CP!UpdateMetadata,
         Corpus!Verify, CP!Verify, Corpus!Written, CP!Written, Corpus!corpusVars, CP!corpusVars, Corpus!queryVars,
         CP!queryVars, Corpus!Cardinality, CP!Cardinality

LEMMA SameChange == Corpus!Change => CP!Change
  BY ZenonT(60) DEF Corpus!ActiveIn, CP!ActiveIn, Corpus!Change, CP!Change, Corpus!Edit, CP!Edit, Corpus!HardDelete,
         CP!HardDelete, Corpus!Id, CP!Id, Corpus!Ids, CP!Ids, Corpus!Ingest, CP!Ingest, Corpus!Latest, CP!Latest,
         Corpus!Leaves, CP!Leaves, Corpus!Look, CP!Look, Corpus!Movable, CP!Movable, Corpus!Moved, CP!Moved,
         Corpus!Nothing, CP!Nothing, Corpus!Of, CP!Of, Corpus!Publish, CP!Publish, Corpus!Refused, CP!Refused,
         Corpus!Seen, CP!Seen, Corpus!SoftDelete, CP!SoftDelete, Corpus!StillThere, CP!StillThere, Corpus!Unique,
         CP!Unique, Corpus!UpdateMetadata, CP!UpdateMetadata, Corpus!Written, CP!Written, Corpus!Cardinality,
         CP!Cardinality

\* Whichever service acts, the store changes by one change of a document or not at all.
LEMMA StoreMoves ==
  ASSUME [Next]_<<part, troubles, services>>
  PROVE  [CP!Change]_(CP!corpusVars)
<1>1. CASE Corpus!Change
  BY <1>1, SameChange
<1>2. CASE Corpus!Next
  BY <1>2, SameCorpusNext, CP!RequestsChange
<1>3. CASE UNCHANGED <<revisions, members, pointer, editing>>
  BY <1>3 DEF CP!corpusVars
<1>. QED
  BY <1>1, <1>2, <1>3 DEF Next, services, corpusVars

\* What is published is what is active.
LEMMA StoreAlways == Spec => []CP!Published
<1>1. Init => CP!Published
  <2>1. CP!QueryInit => CP!Published
    BY CP!PublishedAtFirst, BoundsAssumption DEF CP!QueryInit
  <2>. QED
    BY <2>1, SameCorpusInit DEF Init
<1>2. CP!Published /\ [Next]_<<part, troubles, services>> => CP!Published'
  BY StoreMoves, CP!PublishedStays, BoundsAssumption
<1>. QED
  BY <1>1, <1>2, PTL DEF Spec

\* Only an ingestion makes text active, however deletions and changes of metadata overlap with
\* what they read before, and whatever a replica loads meanwhile.
THEOREM NothingIsRevived == Spec => RemovedStaysRemoved
<1>. DEFINE Kept == revisions' # revisions => Corpus!Contents' \subseteq Corpus!Contents \cup {pointer'}
<1>1. CP!Contents = Corpus!Contents
  BY DEF CP!Contents, Corpus!Contents, CP!ActiveIn, Corpus!ActiveIn
<1>2. CP!Published /\ [Next]_<<part, troubles, services>> => [Kept]_(Corpus!corpusVars)
  <2>. SUFFICES ASSUME CP!Published, [Next]_<<part, troubles, services>> PROVE [Kept]_(Corpus!corpusVars)
    OBVIOUS
  <2>1. [revisions' # revisions => CP!Contents' \subseteq CP!Contents \cup {pointer'}]_(CP!corpusVars)
    BY StoreMoves, CP!RevivesNothing
  <2>2. Corpus!Contents' = CP!Contents'
    BY DEF CP!Contents, Corpus!Contents, CP!ActiveIn, Corpus!ActiveIn
  <2>. QED
    BY <1>1, <2>1, <2>2 DEF Corpus!corpusVars, CP!corpusVars
<1>. QED
  BY <1>2, StoreAlways, PTL DEF Spec, RemovedStaysRemoved, Corpus!RemovedStaysRemoved

LEMMA CorpusMoves ==
  ASSUME [Next]_<<part, troubles, services>>, part = "corpus"
  PROVE  Corpus!Next \/ UNCHANGED <<corpusVars, troubles>>
  BY DEF Next, services

\* The part of the store is the queries' part in which nobody asks.
LEMMA StoreIsQueried ==
  ASSUME [Next]_<<part, troubles, services>>, part = "store"
  PROVE  CP!Next \/ UNCHANGED <<corpusVars, troubles>>
<1>1. CASE Corpus!Change /\ UNCHANGED <<index, queries, troubles>>
  BY <1>1, SameChange DEF CP!Next, CP!OtherRequest, CP!queryVars
<1>2. CASE UNCHANGED <<corpusVars, troubles>>
  BY <1>2
<1>. QED
  BY <1>1, <1>2 DEF Next, services

LEMMA CorpusAlways == Spec => [](part = "corpus" => CP!QueriesSound)
<1>. DEFINE Inv == part = "corpus" => CP!QueriesSound
<1>1. Init => Inv
  <2>1. CP!QueryInit => CP!QueriesSound
    BY CP!QueriesSoundAtFirst, BoundsAssumption, NobodyAssumption
  <2>. QED
    BY <2>1, SameCorpusInit DEF Init
<1>2. Inv /\ [Next]_<<part, troubles, services>> => Inv'
  <2>. SUFFICES ASSUME part = "corpus", CP!QueriesSound, [Next]_<<part, troubles, services>> PROVE CP!QueriesSound'
    BY PartStays
  <2>1. [CP!Next]_(CP!vars)
    BY CorpusMoves, SameCorpusNext DEF corpusVars, CP!vars, CP!corpusVars, CP!queryVars
  <2>. QED
    BY <2>1, CP!QueriesStaySound, BoundsAssumption, NobodyAssumption
<1>. QED
  BY <1>1, <1>2, PTL DEF Spec

LEMMA CorpusTypes == Spec => [](part \in {"store", "corpus"} => CP!Numbered /\ CP!TypeOK)
<1>. DEFINE Inv == part \in {"store", "corpus"} => CP!Numbered /\ CP!TypeOK
<1>1. Init => Inv
  <2>1. CP!QueryInit => CP!Numbered /\ CP!TypeOK
    BY CP!TypesAtFirst, BoundsAssumption, NobodyAssumption
  <2>. QED
    BY <2>1, SameCorpusInit DEF Init
<1>2. Inv /\ [Next]_<<part, troubles, services>> => Inv'
  <2>. SUFFICES ASSUME part \in {"store", "corpus"}, CP!Numbered, CP!TypeOK, [Next]_<<part, troubles, services>>
                PROVE  CP!Numbered' /\ CP!TypeOK'
    BY PartStays
  <2>1. [CP!Next]_(CP!vars)
    BY CorpusMoves, StoreIsQueried, SameCorpusNext DEF corpusVars, CP!vars, CP!corpusVars, CP!queryVars
  <2>. QED
    BY <2>1, CP!TypesStay, BoundsAssumption, NobodyAssumption
<1>. QED
  BY <1>1, <1>2, PTL DEF Spec

\* The evidence of an answer was searched in exactly the generation the answer names.
THEOREM EvidenceIsKept == Spec => []EvidenceIsOfItsGeneration
<1>1. (part = "corpus" => CP!QueriesSound) => EvidenceIsOfItsGeneration
  BY CP!SoundIsBound DEF EvidenceIsOfItsGeneration, Corpus!EvidenceIsOfItsGeneration, CP!EvidenceIsOfItsGeneration,
         CP!At, Corpus!At
<1>. QED
  BY <1>1, CorpusAlways, PTL

-----------------------------------------------------------------------------
(* All services *)

LEMMA PartIsOne ==
  Spec => [](part \in {"research", "scan", "text", "goals", "chat", "circuit", "tax", "store", "corpus", "review"})
<1>. DEFINE Inv == part \in {"research", "scan", "text", "goals", "chat", "circuit", "tax", "store", "corpus", "review"}
<1>1. Init => Inv
  BY DEF Init
<1>2. Inv /\ [Next]_<<part, troubles, services>> => Inv'
  BY PartStays
<1>. QED
  BY <1>1, <1>2, PTL DEF Spec

-----------------------------------------------------------------------------
(* The income tax: what TaxProofs proves of every payer holds of this       *)
(* instance.                                                               *)

XP == INSTANCE TaxProofs

LEMMA IncomesAreNumbers == XP!Safe
  BY TaxAssumption DEF XP!Safe

\* The two instances compute the same.
LEMMA SameSmaller == \A a, b : Tax!Smaller(a, b) = XP!Smaller(a, b)
  BY DEF Tax!Smaller, XP!Smaller

LEMMA SameFromSlabs == \A t, slabs : Tax!FromSlabs(t, slabs) = XP!FromSlabs(t, slabs)
<1>1. \A t, slabs, i : Tax!InSlab(t, slabs, i) = XP!InSlab(t, slabs, i)
  BY SameSmaller, ZenonT(60) DEF Tax!InSlab, XP!InSlab
<1>. QED
  BY <1>1, ZenonT(60) DEF Tax!FromSlabs, XP!FromSlabs

LEMMA SameSlabs == \A regime, age : Tax!Slabs(regime, age) = XP!Slabs(regime, age)
  BY ZenonT(60) DEF Tax!Slabs, XP!Slabs, Tax!OldSlabs, XP!OldSlabs, Tax!NewSlabs, XP!NewSlabs

LEMMA SameSurcharges ==
  \A regime : /\ Tax!Surcharges(regime) = XP!Surcharges(regime)
              /\ \A t : Tax!Reached(t, regime) = XP!Reached(t, regime)
              /\ \A i : Tax!Percent(regime, i) = XP!Percent(regime, i)
<1>1. \A regime : Tax!Surcharges(regime) = XP!Surcharges(regime)
  BY DEF Tax!Surcharges, XP!Surcharges
<1>2. \A regime, t : Tax!Reached(t, regime) = XP!Reached(t, regime)
  BY <1>1, ZenonT(60) DEF Tax!Reached, XP!Reached, Tax!Cardinality, XP!Cardinality
<1>3. \A regime, i : Tax!Percent(regime, i) = XP!Percent(regime, i)
  BY <1>1, ZenonT(60) DEF Tax!Percent, XP!Percent
<1>. QED
  BY <1>1, <1>2, <1>3, ZenonT(60)

LEMMA SameAfterSurcharge ==
  \A t, regime, age : Tax!AfterSurcharge(t, regime, age) = XP!AfterSurcharge(t, regime, age)
<1>1. \A tax, t, regime : Tax!AfterRebate(tax, t, regime) = XP!AfterRebate(tax, t, regime)
  BY SameSmaller DEF Tax!AfterRebate, XP!AfterRebate
<1>2. \A tax, t, regime : Tax!Surcharge(tax, t, regime) = XP!Surcharge(tax, t, regime)
  BY SameSurcharges, ZenonT(60) DEF Tax!Surcharge, XP!Surcharge
<1>3. \A tax, surcharge, t, regime, age :
        Tax!MarginalRelief(tax, surcharge, t, regime, age) = XP!MarginalRelief(tax, surcharge, t, regime, age)
  BY SameSurcharges, SameFromSlabs, SameSlabs DEF Tax!MarginalRelief, XP!MarginalRelief
<1>. QED
  BY <1>1, <1>2, <1>3, SameFromSlabs, SameSlabs, ZenonT(60) DEF Tax!AfterSurcharge, XP!AfterSurcharge

LEMMA SameTaxable == \A p, regime : Tax!Taxable(p, regime) = XP!Taxable(p, regime)
  BY SameSmaller DEF Tax!Taxable, XP!Taxable

LEMMA SamePayer == Tax!Payer = XP!Payer /\ (Tax!Next => XP!Next)
  BY ZenonT(60) DEF Tax!Payer, XP!Payer, Tax!Age, XP!Age, Tax!Next, XP!Next, Tax!Earn, XP!Earn

LEMMA PayerMoves == [Next]_<<part, troubles, services>> => [XP!Next]_payer
<1>1. [Next]_<<part, troubles, services>> => Tax!Next \/ payer' = payer
  BY DEF Next, services
<1>. QED
  BY <1>1, SamePayer

LEMMA PayerTyped == Spec => [](payer \in XP!Payer)
<1>1. Init => payer \in XP!Payer
  BY SamePayer DEF Init, Tax!Init
<1>2. payer \in XP!Payer /\ [Next]_<<part, troubles, services>> => (payer \in XP!Payer)'
  BY PayerMoves, XP!PayerStep, IncomesAreNumbers
<1>. QED
  BY <1>1, <1>2, PTL DEF Spec

\* Who earns more pays no less and keeps more, through rebate, slabs and surcharges.
THEOREM EarningPays == Spec => MoreIsKept
<1>1. ASSUME payer \in XP!Payer, [Next]_<<part, troubles, services>>, payer' # payer, NEW regime \in {"new", "old"}
      PROVE  LET before == Tax!Taxable(payer, regime) after == Tax!Taxable(payer', regime)
                 more == Tax!AfterSurcharge(after, regime, payer.age) - Tax!AfterSurcharge(before, regime, payer.age)
             IN /\ more >= 0
                /\ regime = "new" \/ before > 500 => more <= (after - before) * 2000 + 2
  <2>1. LET before == XP!Taxable(payer, regime) after == XP!Taxable(payer', regime)
            more == XP!AfterSurcharge(after, regime, payer.age) - XP!AfterSurcharge(before, regime, payer.age)
        IN /\ more >= 0
           /\ regime = "new" \/ before > 500 => more <= (after - before) * 2000 + 2
    BY <1>1, PayerMoves, XP!MoreIsKeptOfAStep, IncomesAreNumbers
  <2>2. /\ Tax!Taxable(payer, regime) = XP!Taxable(payer, regime)
        /\ Tax!Taxable(payer', regime) = XP!Taxable(payer', regime)
    BY SameTaxable
  <2>3. \A t : Tax!AfterSurcharge(t, regime, payer.age) = XP!AfterSurcharge(t, regime, payer.age)
    BY SameAfterSurcharge
  <2>. QED
    BY <2>1, <2>2, <2>3
<1>2. payer \in XP!Payer /\ [Next]_<<part, troubles, services>> =>
        [payer' # payer => \A regime \in {"new", "old"} :
           LET before == Tax!Taxable(payer, regime) after == Tax!Taxable(payer', regime)
               more == Tax!AfterSurcharge(after, regime, payer.age) - Tax!AfterSurcharge(before, regime, payer.age) IN
           /\ more >= 0
           /\ regime = "new" \/ before > 500 => more <= (after - before) * 2000 + 2]_payer
  BY <1>1
<1>. QED
  BY <1>2, PayerTyped, PTL DEF Spec, MoreIsKept, Tax!MoreIsKept

LEMMA SameBetter ==
  \A p : /\ Tax!Room(p) = XP!Room(p)
         /\ \A regime : Tax!Tax(p, regime) = XP!Tax(p, regime)
         /\ \A d : Tax!OldIsBetter(p, d) <=> XP!OldIsBetter(p, d)
<1>1. \A t, regime, age : Tax!TaxAmount(t, regime, age) = XP!TaxAmount(t, regime, age)
  BY SameAfterSurcharge DEF Tax!TaxAmount, XP!TaxAmount
<1>2. \A p, regime : Tax!Tax(p, regime) = XP!Tax(p, regime)
  BY <1>1, SameTaxable, ZenonT(60) DEF Tax!Tax, XP!Tax
<1>3. \A p, d : Tax!WithMore(p, d) = XP!WithMore(p, d)
  BY SameSmaller, ZenonT(60) DEF Tax!WithMore, XP!WithMore
<1>4. \A p, d : Tax!OldIsBetter(p, d) <=> XP!OldIsBetter(p, d)
  BY <1>2, <1>3, ZenonT(60) DEF Tax!OldIsBetter, XP!OldIsBetter
<1>5. \A p : Tax!Room(p) = XP!Room(p)
  BY SameSmaller DEF Tax!Room, XP!Room
<1>. QED
  BY <1>2, <1>4, <1>5, ZenonT(60)

LEMMA SameCrossover == Tax!Crossover(payer) = XP!Crossover(payer)
<1>1. \A p, room : Tax!Bisect(p, room) = XP!Bisect(p, room)
  BY SameBetter, ZenonT(60) DEF Tax!Bisect, XP!Bisect
<1>2. Tax!NoCrossover = XP!NoCrossover
  BY DEF Tax!NoCrossover, XP!NoCrossover
<1>. QED
  BY <1>1, <1>2, SameBetter DEF Tax!Crossover, XP!Crossover

\* The deduction that the bisection finds is the least that makes the old regime no dearer, and
\* none is found only if none within the limits does.
THEOREM BisectionIsRight == Spec => []CrossoverIsLeast
<1>1. ASSUME payer \in XP!Payer PROVE Tax!CrossoverIsLeast
  <2>1. XP!CrossoverIsLeast
    BY <1>1, XP!CrossoverFound, IncomesAreNumbers
  <2>2. {d \in 0 .. Tax!Room(payer) : Tax!OldIsBetter(payer, d)} = {d \in 0 .. XP!Room(payer) : XP!OldIsBetter(payer, d)}
    BY SameBetter
  <2>3. \A S : Tax!Min(S) = XP!Min(S)
    BY DEF Tax!Min, XP!Min
  <2>4. Tax!NoCrossover = XP!NoCrossover /\ Tax!Room(payer) = XP!Room(payer)
    BY SameBetter DEF Tax!NoCrossover, XP!NoCrossover
  <2>. QED
    BY <2>1, <2>2, <2>3, <2>4, SameCrossover DEF Tax!CrossoverIsLeast, XP!CrossoverIsLeast
<1>2. payer \in XP!Payer => CrossoverIsLeast
  BY <1>1 DEF CrossoverIsLeast
<1>. QED
  BY <1>2, PayerTyped, PTL

\* The type invariants that CorpusProofs and PlanReviewProofs prove are those of the services.
LEMMA SameTypes == (RP!TypeOK => Review!TypeOK) /\ (CP!TypeOK => Corpus!TypeOK)
<1>1. RP!TypeOK => Review!TypeOK
  BY ZenonT(60) DEF Review!Active, RP!Active, Review!Ended, RP!Ended, Review!MandateEnd, RP!MandateEnd, Review!Memory,
         RP!Memory, Review!Run, RP!Run, Review!RunId, RP!RunId, Review!TypeOK, RP!TypeOK, Review!Event, RP!Event, Review!Note, RP!Note
<1>2. CP!TypeOK => Corpus!TypeOK
  BY ZenonT(60) DEF Corpus!CorpusTypeOK, CP!CorpusTypeOK, Corpus!Id, CP!Id, Corpus!Number, CP!Number, Corpus!Place,
         CP!Place, Corpus!Reload, CP!Reload, Corpus!Revision, CP!Revision, Corpus!TypeOK, CP!TypeOK
<1>. QED
  BY <1>1, <1>2

\* Every service keeps the types of its variables.
THEOREM ServicesTypeCorrect == Spec => []TypeOK
<1>. DEFINE Parts == part \in {"research", "scan", "text", "goals", "chat", "circuit", "tax", "store", "corpus", "review"}
            Holds == /\ part = "research" => ResearchInv
                     /\ part = "scan" => ScanInv
                     /\ part = "text" => TextInv
                     /\ part = "goals" => GoalsInv
                     /\ part = "chat" => ChatInv
                     /\ part = "circuit" => CircuitInv
                     /\ part = "review" => RP!Inductive
                     /\ part \in {"store", "corpus"} => CP!Numbered /\ CP!TypeOK
                     /\ payer \in XP!Payer
<1>1. Parts /\ Holds => TypeOK
  <2>. SUFFICES ASSUME Parts, Holds PROVE TypeOK
    OBVIOUS
  <2>1. CASE part = "research"
    BY <2>1 DEF TypeOK, ResearchInv
  <2>2. CASE part = "scan"
    BY <2>2 DEF TypeOK, ScanInv
  <2>3. CASE part = "text"
    BY <2>3 DEF TypeOK, TextInv
  <2>4. CASE part = "goals"
    BY <2>4 DEF TypeOK, GoalsInv
  <2>5. CASE part = "chat"
    BY <2>5 DEF TypeOK, ChatInv
  <2>6. CASE part = "circuit"
    BY <2>6 DEF TypeOK, CircuitInv
  <2>7. CASE part = "review"
    BY <2>7, RP!InductiveTyped, ReviewAssumption, SameTypes DEF TypeOK, RP!BoundsAssumption
  <2>8. CASE part = "tax"
    BY <2>8, SamePayer DEF TypeOK
  <2>9. CASE part \in {"store", "corpus"}
    BY <2>9, SameTypes DEF TypeOK
  <2>. QED
    BY <2>1, <2>2, <2>3, <2>4, <2>5, <2>6, <2>7, <2>8, <2>9
<1>2. Spec => []Holds
  BY ResearchAlways, ScanAlways, TextAlways, GoalsAlways, ChatAlways, CircuitAlways, ReviewAlways, CorpusTypes, PayerTyped, PTL
<1>. QED
  BY <1>1, <1>2, PartIsOne, PTL
=============================================================================
