SPECIFICATION Spec
CONSTANTS
  e1 = e1
  e2 = e2
  None = None
  Entries = {e1, e2}
  Runs = 2
INVARIANTS
  TypeOK
  LossOnlyOnFailure
  
  
PROPERTY
  RunEnds
