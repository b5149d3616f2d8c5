SPECIFICATION LiveSpec
CONSTANTS
  Device = {d1, d2}
  Req = {r1, r2, r3}
  NoDev = NoDev
  d1 = d1
  d2 = d2
  r1 = r1
  r2 = r2
  r3 = r3
  Configs <- MCConfigs
INVARIANTS
  OnePlace
  AnsweredOnce
  
PROPERTY AllAnswered
CHECK_DEADLOCK FALSE
