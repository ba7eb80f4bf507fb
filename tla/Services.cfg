SPECIFICATION Spec
CONSTANTS
  Worker = {w1, w2}
  Request = {r1, r2}
  Texts = {d1, d2}
  Task = {t1, t2}
  None = None
  Gone = Gone
  Troubles = 1
  Capacity = 1
  Users = 2
  Claims = 2
  Revisions = 2
  Portfolios = 2
  Sources = 2
  Fences = 3
  Attempts = 2
  Cap = 5
  UpperBound = 2
  Turns = 2
  Threshold = 2
  Incomes <- IncomeSet
  Claimed = {0, 100}
  Generations = 3
  Runs = 2
  Mandates = 0
  MaxChanges = 1
  MaxAttempts = 1
  MaxCalls = 0
  MaxNotes = 1
INVARIANTS
  TypeOK
  CapacityHolds
  CompletedMeansInspected
  OneWrites
  BudgetHolds
  ProbeIsTheOneCall
  CrossoverIsLeast
  OneActiveReview
  EventsTellTheEnd
  EvidenceIsOfItsGeneration
PROPERTIES
  ClaimComesToAnEnd
  NoLostEdit
  RemovedStaysRemoved
  MoreIsKept
CHECK_DEADLOCK FALSE
