SPECIFICATION FairSpec
CONSTANTS
  Scenarios <- MCScenarios
INVARIANTS
  IdleIsCurrent
  TimerMeansPending
  InvokeHasGraph
PROPERTIES
  CatchesUp
