SPECIFICATION FairSpec
CONSTANTS
  n1 = n1
  n2 = n2
  n3 = n3
  None = None
  NoFile = NoFile
  Series = 4
  Node <- Trio
  Scenarios <- MCScenarios
INVARIANTS
  Agreed
  Recoverable
PROPERTIES
  
  Settles
CHECK_DEADLOCK FALSE
