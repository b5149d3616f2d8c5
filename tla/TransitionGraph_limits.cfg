SPECIFICATION Spec
CONSTANTS
  n1 = n1
  n2 = n2
  n3 = n3
  none = none
  Nodes <- MCThreeNodes
  LocalNode = n1
  NoNode = none
  Graphs <- MCLimitGraphs
  MaxTransitions = 1
  BatchLimit = 3
  MigrationLimit = 1
  JobMax = 2
  Modes = {"none", "high"}
  FencingMaxAttempts = 2
INVARIANTS
  JobsBalanced
  InFlightIsWatched
PROPERTIES
  LimitsRespected
