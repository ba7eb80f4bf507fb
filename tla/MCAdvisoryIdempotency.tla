---------------------- MODULE MCAdvisoryIdempotency ----------------------
(* The advisory protocol for model checking; Completing in a configuration *)
(* chooses between profile completion and the other two operations.        *)
EXTENDS AdvisoryIdempotency
=============================================================================
