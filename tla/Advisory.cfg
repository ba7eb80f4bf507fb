\* Profile update and generation: three requests, two payloads, fair scheduling, crashes.
SPECIFICATION FairSpec
CONSTANTS
  Request = {r1, r2, r3}
  Payload = {p1, p2}
  None = None
  Lease = 2
  Wait = 1
  Skew = 0
  Completing = FALSE
PROPERTIES RefinesExactlyOnce EveryRequestAnswered OrphanedLockCanBeTaken FencedWorkerNeverCommits
