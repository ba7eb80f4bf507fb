------------------------- MODULE IdempotencyRecord -------------------------
(***************************************************************************)
(* The IdempotencyKey document of one operation, shared by the mutation    *)
(* middleware and the advisory claim (server/middleware/idempotency.js).   *)
(*                                                                         *)
(* The document is a record with a field per column the code reads: its    *)
(* status, the request hash it is bound to, the token of the worker that   *)
(* owns the lock, what is left of the lease and, once DONE, the resource   *)
(* the operation created.  An owner token is generated per attempt and     *)
(* written at most once, so the request itself stands for it; a payload    *)
(* stands for its SHA-256 hash.                                            *)
(*                                                                         *)
(* leaseExpiresAt is an absolute time written with one server's clock and  *)
(* compared with another's.  It is kept as the ticks that remain on the    *)
(* slowest clock; a server whose clock runs `skew' ticks ahead of it sees  *)
(* the lease expire that much earlier.                                     *)
(***************************************************************************)
EXTENDS Naturals

CONSTANTS
  Request,   \* HTTP requests carrying the same user and Idempotency-Key
  Payload,   \* request hashes
  Lease,     \* MUTATION_LEASE_MS, in ticks
  Skew,      \* bound on the difference between two servers' clocks, in ticks
  None       \* null

ASSUME LeaseAssumption == Lease \in Nat \ {0} /\ Skew \in Nat
ASSUME NoneAssumption  == None \notin Request /\ None \notin Payload

Record ==
  [status   : {"ABSENT", "LOCK", "DONE"},
   hash     : Payload \cup {None},
   owner    : Request \cup {None},
   lease    : 0 .. Lease + Skew,
   resource : Request \cup {None}]

\* What findById returns when there is no document.
Absent ==
  [status |-> "ABSENT", hash |-> None, owner |-> None, lease |-> 0, resource |-> None]

Locked(r, h, skew) ==
  [status |-> "LOCK", hash |-> h, owner |-> r, lease |-> Lease + skew, resource |-> None]

\* The committed document names its resource and drops the owner and the lease.
Done(h, res) ==
  [status |-> "DONE", hash |-> h, owner |-> None, lease |-> 0, resource |-> res]

\* The filter of every write of a worker that believes it owns the claim.
Owns(d, r, h) == d.status = "LOCK" /\ d.hash = h /\ d.owner = r

Expired(d, skew) == d.lease <= skew

\* One tick passes; a lease that ran out stays at zero.
Less(n) == IF n = 0 THEN 0 ELSE n - 1
Aged(d) == [d EXCEPT !.lease = Less(@)]
=============================================================================
