SPECIFICATION FairSpec
CONSTANTS
  n1 = n1
  n2 = n2
  n3 = n3
  none = none
  Nodes <- MCThreeNodes
  LocalNode = n1
  NoNode = none
  Graphs <- MCCoreGraphs
  MaxTransitions = 2
  BatchLimit = 0
  MigrationLimit = 0
  JobMax = 4
  Modes = {"low"}
  FencingMaxAttempts = 2
INVARIANTS
  InputsFirst
  QuietWhenComplete
PROPERTIES
  
  ImplementsTransition
  
  
