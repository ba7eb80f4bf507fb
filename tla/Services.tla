------------------------------ MODULE Services ------------------------------
(***************************************************************************)
(* The smaller services and the admission of plan reviews by clients, side *)
(* by side: a behaviour is one of a single service, chosen at the start,   *)
(* and the others rest in their initial state.  They share no state in the *)
(* code, and each keeps its own bounds.                                    *)
(***************************************************************************)
EXTENDS Naturals, FiniteSets

CONSTANTS
  Worker, Request, Task, Texts,             \* servers, requests, research tasks, documents of the corpus
  None, Gone,                               \* nobody, and an owner that is gone
  Troubles,                                 \* bound: what may go wrong in one service
  Capacity,                                 \* ResearchTasks
  Users, Claims, Revisions,                 \* PlanHealthScan
  Portfolios,                               \* AdvisoryText
  Sources, Fences, Attempts,                \* GoalEdits
  Cap, UpperBound, Turns,                   \* ChatSession
  Threshold,                                \* ProviderCircuit
  Incomes, Claimed,                         \* TaxEngine
  Generations,                              \* CorpusQueries
  Runs, Mandates, MaxChanges, MaxAttempts, MaxCalls, MaxNotes  \* PlanReviewRun

ASSUME NobodyAssumption ==
  /\ None \notin Worker \cup Request \cup Task /\ Gone \notin Worker /\ Gone # None
  /\ Worker # {} /\ Texts # {} /\ None \notin Nat
ASSUME BoundsAssumption ==
  /\ Troubles \in Nat /\ Capacity \in Nat /\ Users \in Nat /\ Claims \in Nat /\ Revisions \in Nat \ {0}
  /\ Portfolios \in Nat \ {0} /\ Sources \in Nat \ {0} /\ Fences \in Nat /\ Attempts \in Nat \ {0}
  /\ Cap \in Nat /\ UpperBound \in Nat /\ Threshold \in Nat \ {0} /\ Generations \in Nat
ASSUME ReviewAssumption ==
  /\ Runs \in Nat /\ Mandates \in Nat /\ MaxChanges \in Nat /\ MaxAttempts \in Nat \ {0}
  /\ MaxCalls \in Nat /\ MaxNotes \in Nat
ASSUME TaxAssumption == Incomes \subseteq Nat /\ Claimed \subseteq Nat

VARIABLES
  part, troubles,
  tasks, slots, runner, freeing,          \* ResearchTasks
  lease, scans, looks, revision,          \* PlanHealthScan
  advice, writers, portfolio,             \* AdvisoryText
  goal, edits, source,                    \* GoalEdits
  chat, turns, used,                      \* ChatSession
  breaker, calls,                         \* ProviderCircuit
  payer,                                  \* TaxEngine
  revisions, members, pointer, editing, index, queries,  \* CorpusQueries
  runs, events, spent, snapshot, asked, pc, mem, mandates, binding, sweep  \* PlanReviewRun

First(S) == CHOOSE x \in S : TRUE

Research == INSTANCE ResearchTasks
Scan == INSTANCE PlanHealthScan
Text == INSTANCE AdvisoryText
Goals == INSTANCE GoalEdits
Chat == INSTANCE ChatSession
Circuit == INSTANCE ProviderCircuit WITH Worker <- Worker \cup {None}
Tax == INSTANCE TaxEngine
Review == INSTANCE PlanReviewRun WITH source <- snapshot, Client <- Request, Worker <- {First(Worker)}
Corpus == INSTANCE CorpusQueries WITH Document <- Texts, Editor <- Request, Thread <- {First(Worker)}

researchVars == <<tasks, slots, runner, freeing>>
scanVars == <<lease, scans, looks, revision>>
textVars == <<advice, writers, portfolio>>
goalVars == <<goal, edits, source>>
chatVars == <<chat, turns, used>>
circuitVars == <<breaker, calls>>
reviewVars == <<runs, events, spent, snapshot, asked, pc, mem, mandates, binding, sweep>>
corpusVars == <<revisions, members, pointer, editing, index, queries>>
services == <<researchVars, scanVars, textVars, goalVars, chatVars, circuitVars, payer, corpusVars, reviewVars>>

\* Queries meet the changes of one document by one editor; the store alone has more of both.
OneEditor ==
  /\ \A e \in Request : editing[e].kind # "none" => e = First(Request)
  /\ \A r \in revisions : r.document = First(Texts)

Init ==
  /\ part \in {"research", "scan", "text", "goals", "chat", "circuit", "tax", "store", "corpus", "review"}
  /\ Research!Init /\ Scan!Init /\ Text!Init /\ Goals!Init /\ Chat!Init /\ Circuit!Init /\ Tax!Init
  /\ Corpus!QueryInit /\ Review!Init
  /\ part # "goals" => \A r \in Request : edits[r].kind = "target"
  /\ part # "tax" => payer.salaried /\ payer.age = "nonSenior" /\ payer.c80 = First(Claimed) /\ payer.nps = First(Claimed)

Next ==
  \/ part = "research" /\ Research!Next
     /\ UNCHANGED <<part, scanVars, textVars, goalVars, chatVars, circuitVars, payer, corpusVars, reviewVars>>
  \/ part = "scan" /\ Scan!Next
     /\ UNCHANGED <<part, researchVars, textVars, goalVars, chatVars, circuitVars, payer, corpusVars, reviewVars>>
  \/ part = "text" /\ Text!Next
     /\ UNCHANGED <<part, researchVars, scanVars, goalVars, chatVars, circuitVars, payer, corpusVars, reviewVars>>
  \/ part = "goals" /\ Goals!Next
     /\ UNCHANGED <<part, researchVars, scanVars, textVars, chatVars, circuitVars, payer, corpusVars, reviewVars, troubles>>
  \/ part = "chat" /\ Chat!Next
     /\ UNCHANGED <<part, researchVars, scanVars, textVars, goalVars, circuitVars, payer, corpusVars, reviewVars>>
  \/ part = "circuit" /\ Circuit!Next
     /\ UNCHANGED <<part, researchVars, scanVars, textVars, goalVars, chatVars, payer, corpusVars, reviewVars, troubles>>
  \/ part = "tax" /\ Tax!Next
     /\ UNCHANGED <<part, researchVars, scanVars, textVars, goalVars, chatVars, circuitVars, corpusVars, reviewVars, troubles>>
  \/ part = "store" /\ Corpus!Change
     /\ UNCHANGED <<part, researchVars, scanVars, textVars, goalVars, chatVars, circuitVars, payer, index, queries, reviewVars, troubles>>
  \/ part = "corpus" /\ Corpus!Next /\ OneEditor'
     /\ UNCHANGED <<part, researchVars, scanVars, textVars, goalVars, chatVars, circuitVars, payer, reviewVars>>
  \/ part = "review" /\ Review!Next
     /\ UNCHANGED <<part, researchVars, scanVars, textVars, goalVars, chatVars, circuitVars, payer, corpusVars, troubles>>

\* The actions that are fair are not enabled in a service that rests.
Spec == Init /\ [][Next]_<<part, troubles, services>> /\ Text!Fairness

-----------------------------------------------------------------------------

\* The type invariants of the services.
TypeOK ==
  CASE part = "research" -> Research!TypeOK [] part = "scan" -> Scan!TypeOK [] part = "text" -> Text!TypeOK
    [] part = "goals" -> Goals!TypeOK [] part = "chat" -> Chat!TypeOK [] part = "circuit" -> Circuit!TypeOK
    [] part = "review" -> Review!TypeOK [] part = "tax" -> payer \in Tax!Payer
    [] part \in {"store", "corpus"} -> Corpus!TypeOK

CapacityHolds == part = "research" => Research!CapacityHolds
CompletedMeansInspected == part = "scan" => Scan!CompletedMeansInspected
OneWrites == part = "text" => Text!OneWrites
ClaimComesToAnEnd == Text!ClaimComesToAnEnd
NoLostEdit == Goals!NoLostEdit
BudgetHolds == part = "chat" => Chat!BudgetHolds
ProbeIsTheOneCall == part = "circuit" => Circuit!ProbeIsTheOneCall
RemovedStaysRemoved == Corpus!RemovedStaysRemoved
EvidenceIsOfItsGeneration == part = "corpus" => Corpus!EvidenceIsOfItsGeneration
MoreIsKept == Tax!MoreIsKept
CrossoverIsLeast == part = "tax" => Tax!CrossoverIsLeast

\* However admissions, the worker and retirements interleave, a profile has one review that is
\* queued, running or waiting (the admission gate and activeDedupeKey).
OneActiveReview == part = "review" => Review!OneActiveReview

\* Whoever writes to the stream of a review, no number is allocated twice or left out, only
\* authorization events follow the terminal one, and a review without it was ended by its user.
EventsTellTheEnd == part = "review" => Review!EventsTellTheEnd
=============================================================================
