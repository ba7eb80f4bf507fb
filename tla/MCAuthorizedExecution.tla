----------------------- MODULE MCAuthorizedExecution -----------------------
(* One mandate and its executors for model checking; the bounds on retries *)
(* and crashes are in the configurations.                                  *)
EXTENDS AuthorizedExecution
=============================================================================
