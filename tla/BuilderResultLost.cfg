\* One start on one pool thread: the task ends before its Future is in the holder.
SPECIFICATION Spec
CONSTANTS
  MaxSubmissions = 1
  Worker = {w1}
  Configurations <- AllConsumers
  MaxReconfigs = 0
  CallbackErrors = FALSE
INVARIANTS
  ResultConsumerExecuted
