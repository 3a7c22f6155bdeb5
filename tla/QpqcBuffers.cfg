CONSTANTS
  Algs = {1, 2}
  MaxBuffers = 3
SPECIFICATION Spec
INVARIANTS TypeOK OnlyFailuresMisleadAFree SecretsAreCleansed LostOnlyAfterFailure
\* A free of what the caller does not own is undefined and ends the behaviour.
CHECK_DEADLOCK FALSE
