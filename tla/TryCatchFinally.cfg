\* Every kind of builder, up to two resources and one finallyAsync.
SPECIFICATION TryFairSpec
CONSTANTS
  MaxSubmissions = 1
  Worker = {w1}
  Configurations <- AllBuilders
  MaxReconfigs = 0
  CallbackErrors = TRUE
  Catchable <- Caught
  Failures <- Thrown
  MaxFinallies = 1
  MaxResources = 2
INVARIANTS
  TryInv
  CatchBeforeFinally
  CatchOnce
  FinallyOnce
  CallableCaught
PROPERTIES
  FinallyExecuted
