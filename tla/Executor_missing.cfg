SPECIFICATION Spec
CONSTANTS
  MaxCalls = 3
  Configs <- MCMissing
INVARIANT QueuedIsAnswered
CHECK_DEADLOCK FALSE
