SPECIFICATION Spec
CONSTANTS
  Jobs = {j1, j2, j3}
  None = None
  Stories = {s1, s2}
  EscalationCap = 1
SYMMETRY Symmetry
INVARIANTS
  MarkerMeansWork
  
  
CHECK_DEADLOCK FALSE
