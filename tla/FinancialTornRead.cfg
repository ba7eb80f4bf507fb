SPECIFICATION Spec
CONSTANTS
  Worker = {w1, w2}
  Attempts = 2
  MaxChanges = 2
  MaxPolicy = 1
SYMMETRY Symmetric
INVARIANT AccusedIsBroken
