SPECIFICATION FairSpec
CONSTANTS
  Client = {c1}
  Worker = {w1, w2}
  Runs = 1
  Mandates = 1
  MaxChanges = 1
  MaxAttempts = 2
  MaxCalls = 1
  MaxNotes = 1
INVARIANT CallsStayInBudget
INVARIANT EventsTellTheEnd
PROPERTY FencedWorkerWritesNothing
PROPERTY ImplementsLifecycle
PROPERTY ReviewComesToAnEnd
ACTION_CONSTRAINT NotedAtFirstAttempt
CHECK_DEADLOCK FALSE
