\* One pool thread, so that whatever waits in a consumer blocks the pool; both kinds of
\* builder, one setter call after the first start.
SPECIFICATION FairSpec
CONSTANTS
  MaxSubmissions = 2
  Worker = {w1}
  Configurations <- Plain
  MaxReconfigs = 1
  CallbackErrors = TRUE
INVARIANTS
  TypeOK
  FailureReachesConsumer
  AppliesOwnResult
PROPERTIES
  TasksProcessed
