\* Two starts on one pool thread: the consumers of the first come before the second's handler.
SPECIFICATION Spec
CONSTANTS
  MaxSubmissions = 2
  Worker = {w1}
  Configurations <- AllConsumers
  MaxReconfigs = 0
  CallbackErrors = FALSE
INVARIANTS
  ReportBeforeEveryUserConsumer
