-------------------------- MODULE MCPlanReviewRun --------------------------
(* One review with its workers for model checking; the admission by two    *)
(* clients is checked in MCServices, with other bounds.                    *)
EXTENDS PlanReviewRun

\* A bound: authorization events are numbered for a review that took one attempt.
NotedAtFirstAttempt ==
  \A r \in RunId : Cardinality(Notes(r)') > Cardinality(Notes(r)) => runs[r].attempt = 1
=============================================================================
