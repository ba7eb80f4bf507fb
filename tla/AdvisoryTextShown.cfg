\* Two servers, a portfolio that changes, a failure that is recorded.
SPECIFICATION Spec
CONSTANTS
  Worker = {w1, w2}
  Portfolios = 2
  Troubles = 1
  None = None
INVARIANT ShownIsOfItsState
CHECK_DEADLOCK FALSE
