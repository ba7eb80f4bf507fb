\* The same, with one client that may hang up before its answer.
SPECIFICATION FairSpec
CONSTANTS
  Request = {r1, r2}
  Payload = {p1, p2}
  None = None
  Lease = 2
  Wait = 1
  Skew = 1
  One = r1
  Two = r2
  Impatient = {r1}
PROPERTY OrphanedLockCanBeTaken
