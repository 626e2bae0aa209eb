\* A callable with a consumer of its result and one finallyAsync.
SPECIFICATION TrySpec
CONSTANTS
  MaxSubmissions = 1
  Worker = {w1}
  Configurations <- Callables
  MaxReconfigs = 0
  CallbackErrors = FALSE
  Catchable <- Caught
  Failures <- Thrown
  MaxFinallies = 1
  MaxResources = 0
INVARIANT
  ResultConsumedFinally
