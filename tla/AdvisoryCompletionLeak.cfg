\* The same question asked of profile completion.
SPECIFICATION FairSpec
CONSTANTS
  Request = {r1, r2}
  Payload = {p1, p2}
  None = None
  Lease = 2
  Wait = 3
  Skew = 1
  Completing = TRUE
PROPERTY OrphanedLockCanBeTaken
