SPECIFICATION FairSpec
CONSTANTS
  Worker = {w1, w2}
  RetryLimit = 1
  MaxCrashes = 1
INVARIANT FinalMeansExecuted
PROPERTY FencedWritesNothing
PROPERTY ImplementsSingleUse
PROPERTY SettledWhileRecoverable
