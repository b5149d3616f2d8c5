SPECIFICATION LiveSpec
CONSTANTS
  MaxCalls = 4
  Configs <- MCConfigs
INVARIANTS
  OneAgent
  
  Serviced
  StopQuiets
  
PROPERTY AllAnswered
CHECK_DEADLOCK FALSE
