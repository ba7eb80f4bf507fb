-------------------------- MODULE ProviderCircuit --------------------------
(***************************************************************************)
(* The circuit breaker of one language model provider.  Calls last up to   *)
(* half a minute, so their results come back after the circuit has opened, *)
(* been half open, and closed again; a permit of an earlier generation     *)
(* must then change nothing.                                               *)
(***************************************************************************)
EXTENDS Naturals, FiniteSets

CONSTANTS
  Worker,      \* calls that can be under way at a time
  Threshold    \* failureThreshold

VARIABLES
  breaker,     \* the fields of the adapter
  calls        \* calls[c]: its permit

circuitVars == <<breaker, calls>>

\* cooled: recoveryTimeoutMs has passed since the circuit opened.  failures counts to the
\* threshold, since it only matters while the circuit is CLOSED.
\* current: the permit's generation is the adapter's.  overtaken: the circuit has opened or closed
\* since the call began.
TypeOK ==
  /\ breaker \in [state : {"CLOSED", "OPEN", "HALF_OPEN"}, cooled : BOOLEAN, failures : 0 .. Threshold, probing : BOOLEAN]
  /\ calls \in [Worker -> [out : BOOLEAN, current : BOOLEAN, probe : BOOLEAN, overtaken : BOOLEAN]]

Idle == [out |-> FALSE, current |-> FALSE, probe |-> FALSE, overtaken |-> FALSE]
Closed == [state |-> "CLOSED", cooled |-> FALSE, failures |-> 0, probing |-> FALSE]

Init == breaker = Closed /\ calls = [c \in Worker |-> Idle]

-----------------------------------------------------------------------------

\* Mutant of Refreshed: a circuit that is half open lets another probe go.
RefreshedAlways(b) == IF b.state # "CLOSED" /\ b.cooled THEN [b EXCEPT !.state = "HALF_OPEN", !.probing = FALSE] ELSE b

Refreshed(b) == IF b.state = "OPEN" /\ b.cooled THEN [b EXCEPT !.state = "HALF_OPEN", !.probing = FALSE] ELSE b

Admits(b) == b.state = "CLOSED" \/ (b.state = "HALF_OPEN" /\ ~b.probing)

\* acquirePermit: without one the call is refused.
Ask(c) ==
  LET b == Refreshed(breaker) probe == b.state = "HALF_OPEN" IN
  /\ ~calls[c].out
  /\ IF Admits(b)
     THEN /\ breaker' = [b EXCEPT !.probing = probe]
          /\ calls' = [calls EXCEPT ![c] = [out |-> TRUE, current |-> TRUE, probe |-> probe, overtaken |-> FALSE]]
     ELSE breaker' = b /\ calls' = calls

Consumed(c) == [calls EXCEPT ![c] = Idle]

\* The circuit opens or closes: every other permit is of an earlier generation from now on.
Outdated(c) == [d \in Worker |-> IF d = c THEN Idle ELSE [calls[d] EXCEPT !.current = FALSE, !.overtaken = calls[d].out]]

\* recordSuccess and recordRequestFailure: the provider has answered.
Answered(c) ==
  /\ calls[c].out
  /\ IF calls[c].current /\ calls[c].probe THEN breaker' = Closed /\ calls' = Outdated(c)
     ELSE /\ breaker' = IF calls[c].current /\ breaker.state = "CLOSED" THEN [breaker EXCEPT !.failures = 0] ELSE breaker
          /\ calls' = Consumed(c)

\* recordFailure: a timeout, a 5xx or a network error.
Failed(c) ==
  LET failures == IF breaker.failures < Threshold THEN breaker.failures + 1 ELSE Threshold IN
  /\ calls[c].out
  /\ IF ~calls[c].current THEN breaker' = breaker /\ calls' = Consumed(c)
     ELSE IF calls[c].probe \/ (breaker.state = "CLOSED" /\ failures = Threshold)
     THEN breaker' = [state |-> "OPEN", cooled |-> FALSE, failures |-> failures, probing |-> FALSE] /\ calls' = Outdated(c)
     ELSE breaker' = [breaker EXCEPT !.failures = failures] /\ calls' = Consumed(c)

\* releasePermit: the caller has aborted, or the error was not the provider's.
Released(c) ==
  /\ calls[c].out
  /\ breaker' = IF calls[c].current /\ calls[c].probe /\ breaker.state = "HALF_OPEN"
                THEN [breaker EXCEPT !.probing = FALSE] ELSE breaker
  /\ calls' = Consumed(c)

Cools == breaker.state = "OPEN" /\ ~breaker.cooled /\ breaker' = [breaker EXCEPT !.cooled = TRUE] /\ calls' = calls

Next == Cools \/ \E c \in Worker : Ask(c) \/ Answered(c) \/ Failed(c) \/ Released(c)

-----------------------------------------------------------------------------

\* While the circuit is half open, the calls of its generation are the one probe that the
\* adapter thinks is under way: never two, and none that was forgotten (halfOpenProbeInFlight).
\* A call that began before the circuit last opened or closed is of no generation that counts,
\* so that its result, whenever it comes, changes nothing (consumePermit).
ProbeIsTheOneCall ==
  /\ breaker.state = "HALF_OPEN" =>
       Cardinality({c \in Worker : calls[c].out /\ calls[c].current}) = IF breaker.probing THEN 1 ELSE 0
  /\ \A c \in Worker : calls[c].overtaken => ~calls[c].current
=============================================================================
