SPECIFICATION FairSpec
CONSTANTS
  Worker = {w1, w2}
  RetryLimit = 2
  MaxCrashes = 1
PROPERTY CommittedIsSettled
