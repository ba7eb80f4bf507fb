---------------------------- MODULE ExactlyOnce ----------------------------
(***************************************************************************)
(* What an Idempotency-Key promises to the requests that carry it: the     *)
(* operation is applied at most once, by a request that has not been       *)
(* answered yet, and a request is told success only when the operation has *)
(* been applied with its own payload, and then it is told which resource   *)
(* that created.  A refusal promises nothing: a request whose commit       *)
(* succeeded may still be answered with an error.                          *)
(***************************************************************************)
CONSTANTS Request, None

VARIABLES
  payload,   \* payload[r]: what request r asks for
  applied,   \* the request whose effect was applied, or None
  answered,  \* the requests that have an answer
  told       \* told[r]: the resource r was told of, or None

avars == <<payload, applied, answered, told>>

AInit ==
  /\ applied = None
  /\ answered = {}
  /\ told = [r \in Request |-> None]

Apply(r) ==
  /\ applied = None /\ r \notin answered
  /\ applied' = r
  /\ UNCHANGED <<payload, answered, told>>

Succeed(r) ==
  /\ applied # None /\ r \notin answered
  /\ payload[r] = payload[applied]
  /\ answered' = answered \cup {r}
  /\ told' = [told EXCEPT ![r] = applied]
  /\ UNCHANGED <<payload, applied>>

Refuse(r) ==
  /\ r \notin answered
  /\ answered' = answered \cup {r}
  /\ UNCHANGED <<payload, applied, told>>

ANext == \E r \in Request : Apply(r) \/ Succeed(r) \/ Refuse(r)

ASpec == AInit /\ [][ANext]_avars
=============================================================================
