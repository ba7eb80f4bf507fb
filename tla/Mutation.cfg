\* Two requests on one key, two payloads, clocks one tick apart, one client that may hang
\* up; or three requests, one with another payload.  Fair scheduling, crashes, failed calls.
SPECIFICATION MCSpec
CONSTANTS
  Request = {r1, r2, r3}
  Payload = {p1, p2}
  None = None
  Lease = 2
  Wait = 1
  Skew = 1
  One = r1
  Two = r2
  Impatient = {r3}
INVARIANTS DoneNamesTheResource SuccessNamesTheResource
PROPERTIES RefinesExactlyOnce EveryRequestAnswered PatientLockCanBeTaken FencedWorkerNeverCommits
