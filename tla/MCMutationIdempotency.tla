---------------------- MODULE MCMutationIdempotency ----------------------
(* The mutation protocol for model checking.  A behaviour is of the first  *)
(* and the last request, with any clocks and payloads, the server of the   *)
(* other having died at once; or of three requests whose clocks agree, the *)
(* last with another payload, from when the first is at work.  Payloads    *)
(* are interchangeable: the one of the first is fixed.                     *)
EXTENDS MutationIdempotency

CONSTANTS One, Two   \* the first request and the other

Idle == [r \in Request |-> "idle"]
Start == INSTANCE MutationIdempotency WITH pc <- Idle
Same == CHOOSE p \in Payload : TRUE

\* Both are states of Spec.
Pair ==
  /\ Start!Init
  /\ payload[One] = Same /\ payload[Two] = Same /\ ahead[Two] = 0
  /\ pc = [Idle EXCEPT ![Two] = "crashed"]

Crowd ==
  /\ payload \in [Request -> Payload] /\ \A r \in Request : payload[r] = Same <=> r \in {One, Two}
  /\ ahead = [r \in Request |-> 0]
  /\ rec = Locked(One, Same, 0)
  /\ pc = [Idle EXCEPT ![One] = "work"]
  /\ beating = [r \in Request |-> r = One]
  /\ resources = {}
  /\ seen = [r \in Request |-> Absent] /\ first = [r \in Request |-> None]
  /\ waiting = [r \in Request |-> 0]
  /\ lost = [r \in Request |-> FALSE] /\ gone = [r \in Request |-> FALSE]
  /\ reply = [r \in Request |-> NoReply]

MCSpec == (Pair \/ Crowd) /\ [][Next]_vars /\ Fairness
=============================================================================
