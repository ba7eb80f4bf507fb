\* Two requests of one replica at once, and another replica that ingests.
SPECIFICATION Spec
CONSTANTS
  Document = {d1}
  Editor = {e1}
  Generations = 2
  Thread = {t1, t2}
  Troubles = 0
  None = None
INVARIANT EvidenceIsOfItsGeneration
CHECK_DEADLOCK FALSE
