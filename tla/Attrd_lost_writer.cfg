SPECIFICATION FairSpec
CONSTANTS
  n1 = n1
  n2 = n2
  n3 = n3
  None = None
  Node <- Nodes
  NameRank <- Rank
  FeatureSet <- Upgrading
  Ages = {0, 1}
  Rounds = 4
  Scenarios <- MCLostWriter
PROPERTIES
  WriterElected
CHECK_DEADLOCK FALSE
