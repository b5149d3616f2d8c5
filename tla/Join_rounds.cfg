SPECIFICATION FairSpec
CONSTANTS
  n1 = n1
  n2 = n2
  n3 = n3
  None = None
  Node <- Trio
  NameRank <- MCRank
  FeatureSet <- Same
  Ages = {0}
  Rounds = 8
  MaxJoinId = 4
  Scenarios <- MCScenarios
INVARIANTS
  RestIsJoined
  NoAssert
  DcHasBestCib
PROPERTY
  Converges
CHECK_DEADLOCK FALSE
