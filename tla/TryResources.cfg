\* Two resources and one finallyAsync.
SPECIFICATION TryFairSpec
CONSTANTS
  MaxSubmissions = 1
  Worker = {w1}
  Configurations <- Runnables
  MaxReconfigs = 0
  CallbackErrors = FALSE
  Catchable <- Caught
  Failures <- Thrown
  MaxFinallies = 1
  MaxResources = 2
PROPERTY
  FinallyBlockExecuted
