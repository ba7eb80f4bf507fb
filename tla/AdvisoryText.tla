--------------------------- MODULE AdvisoryText ---------------------------
(***************************************************************************)
(* The deferred advisory text of one recommendation: a request claims its  *)
(* generation, asks a language model for as long as that takes, and stores *)
(* the text only if the portfolio it describes is still the user's.        *)
(***************************************************************************)
EXTENDS Naturals, FiniteSets

CONSTANTS
  Worker,
  Portfolios,   \* bound: states of the user's portfolio while the recommendation lives
  Troubles,     \* bound: crashes and failures that cannot be recorded
  None

VARIABLES
  advice,       \* advisoryText and advisoryMetadata of the recommendation
  writers,      \* writers[w]: the request server w works on
  portfolio,    \* the current allocation revision, or 0 once the recommendation is replaced
  troubles

textVars == <<advice, writers, portfolio, troubles>>

State == 0 .. Portfolios

TypeOK ==
  /\ advice \in [status : {"PENDING", "GENERATING", "READY", "FAILED"}, bound : State, text : State, token : Worker \cup {None}]
  /\ writers \in [Worker -> [at : {"idle", "state", "claim", "generate", "persist", "respond", "fail"}, saw : State, ready : State,
                             text : State]]
  /\ portfolio \in State
  /\ troubles \in 0 .. Troubles

Idle == [at |-> "idle", saw |-> 0, ready |-> 0, text |-> 0]

Init ==
  /\ advice = [status |-> "PENDING", bound |-> 0, text |-> 0, token |-> None]
  /\ writers = [w \in Worker |-> Idle]
  /\ portfolio = 1
  /\ troubles = 0

-----------------------------------------------------------------------------

Trouble == troubles < Troubles /\ troubles' = troubles + 1

At(w, place) == writers[w].at = place
Goto(w, place) == writers' = [writers EXCEPT ![w].at = place]

\* The answer: the text shown, if any, for the state shown.
Answer(w) == writers' = [writers EXCEPT ![w] = Idle]

\* The recommendation is read, then the state: a text may be ready for another state by then.
Load(w) ==
  /\ At(w, "idle")
  /\ writers' = [writers EXCEPT ![w] =
       [at |-> "state", saw |-> 0, ready |-> IF advice.status = "READY" THEN advice.bound ELSE 0, text |-> advice.text]]
  /\ UNCHANGED <<advice, portfolio, troubles>>

\* requireFreshRecommendationState, then the text, if the one that was read is of this state.
ReadState(w) ==
  /\ At(w, "state")
  /\ IF portfolio = 0 \/ writers[w].ready = portfolio THEN Answer(w)
     ELSE writers' = [writers EXCEPT ![w].at = "claim", ![w].saw = portfolio]
  /\ UNCHANGED <<advice, portfolio, troubles>>

Claimable(w) ==
  \/ advice.status \in {"PENDING", "FAILED"}
  \/ advice.status = "READY" /\ advice.bound # writers[w].saw

\* One conditional update; the state that was seen may be an older one, and a newer text is then in the way.
Claim(w) ==
  /\ At(w, "claim") /\ Claimable(w)
  /\ advice' = [advice EXCEPT !.status = "GENERATING", !.bound = writers[w].saw, !.token = w]
  /\ Goto(w, "generate")
  /\ UNCHANGED <<portfolio, troubles>>

\* The text another request made meanwhile, or "already in progress".
ClaimRefused(w) ==
  /\ At(w, "claim") /\ ~Claimable(w)
  /\ Answer(w)
  /\ UNCHANGED <<advice, portfolio, troubles>>

\* The state is read again, and the model is asked to describe that one.
Generate(w) ==
  /\ At(w, "generate")
  /\ \/ /\ portfolio # 0
        /\ writers' = [writers EXCEPT ![w].at = "persist", ![w].text = portfolio]
     \/ Goto(w, "fail")
  /\ UNCHANGED <<advice, portfolio, troubles>>

MayPersist(w) ==
  /\ portfolio = writers[w].text
  /\ advice.status = "GENERATING" /\ advice.token = w /\ advice.bound = writers[w].text

\* persistAdvisoryIfCurrent: one transaction, which writes the text with the whole of its metadata.
\* The answer of its commit may be lost.
Persist(w) ==
  /\ At(w, "persist")
  /\ \/ /\ MayPersist(w)
        /\ advice' = [advice EXCEPT !.status = "READY", !.text = writers[w].text, !.bound = writers[w].text]
        /\ \/ Goto(w, "respond") /\ troubles' = troubles
           \/ Goto(w, "fail") /\ Trouble
     \/ ~MayPersist(w) /\ advice' = advice /\ Goto(w, "fail") /\ troubles' = troubles
  /\ UNCHANGED portfolio

\* The answer is read from the database again, for the state it is in by then.
Respond(w) ==
  /\ At(w, "respond") /\ (IF portfolio = 0 THEN Goto(w, "fail") ELSE Answer(w))
  /\ UNCHANGED <<advice, portfolio, troubles>>

\* Mutant of Fail: whoever's claim is in force is given back.
FailAnyClaim(w) ==
  /\ At(w, "fail")
  /\ advice' = IF advice.status = "GENERATING" THEN [advice EXCEPT !.status = "FAILED"] ELSE advice
  /\ Answer(w)
  /\ UNCHANGED <<portfolio, troubles>>

\* Mutant of Fail: a failure is reported and not recorded.
FailUnrecorded(w) == At(w, "fail") /\ Answer(w) /\ UNCHANGED <<advice, portfolio, troubles>>

\* The claim is given back, unless that fails as well.
Fail(w) ==
  /\ At(w, "fail")
  /\ \/ /\ advice' = IF advice.status = "GENERATING" /\ advice.token = w THEN [advice EXCEPT !.status = "FAILED"] ELSE advice
        /\ troubles' = troubles
     \/ Trouble /\ advice' = advice
  /\ Answer(w)
  /\ UNCHANGED portfolio

Crash(w) == ~At(w, "idle") /\ Trouble /\ Answer(w) /\ UNCHANGED <<advice, portfolio>>

\* The allocation is rebalanced, or the profile or the recommendation replaced.
Change ==
  /\ \/ portfolio \in 1 .. Portfolios - 1 /\ portfolio' = portfolio + 1
     \/ portfolio # 0 /\ portfolio' = 0
  /\ UNCHANGED <<advice, writers, troubles>>

Serve(w) == ReadState(w) \/ Claim(w) \/ ClaimRefused(w) \/ Generate(w) \/ Persist(w) \/ Respond(w) \/ Fail(w)

Next == (\E w \in Worker : Load(w) \/ Serve(w) \/ Crash(w)) \/ Change

\* The server goes on with the requests it has taken.
Fairness == \A w \in Worker : WF_textVars(Serve(w))

-----------------------------------------------------------------------------

\* The model is asked, or its text is about to be stored.
Writes(w) == writers[w].at \in {"generate", "persist"}

\* One request at a time writes the text of a recommendation (ADVISORY_GENERATION_IN_PROGRESS):
\* a request that fails late, after its text was stored and another portfolio's was begun, does
\* not give away the claim of the one that writes now.
OneWrites == \A v, w \in Worker : Writes(v) /\ Writes(w) => v = w

\* What GET /recommend/current shows: the stored text if the metadata is bound to the current state.
Shown == IF portfolio # 0 /\ advice.bound = portfolio THEN advice.text ELSE 0

\* advisoryBinding.js:7: the text that is shown was generated for the exact persisted state.
ShownIsOfItsState == Shown \in {0, portfolio}

\* Each claim ends in a text or in FAILED, which can be claimed again, unless the server died
\* with it or could not record its failure: then nothing gives it back (claimedAt is never read).
ClaimComesToAnEnd ==
  \A w \in Worker : (advice.status = "GENERATING" /\ advice.token = w) ~>
    (advice.status = "GENERATING" => At(w, "idle") /\ troubles > 0)
=============================================================================
