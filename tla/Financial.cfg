\* Two concurrent requests of any kind, up to four changes, two policies.
SPECIFICATION FairSpec
CONSTANTS
  Worker = {w1, w2}
  Attempts = 2
  MaxChanges = 3
  MaxPolicy = 2
INVARIANTS GraphsAreSound AuditTrail CommittedAnswersVerify CurrentIsBound
PROPERTIES NoStaleCommit ImplementsLedger EveryRequestAnswered
