\* One start with every time configuration, callbacks that may throw an Error.
SPECIFICATION TimingSpec
CONSTANTS
  MaxSubmissions = 1
  Worker = {w1}
  Configurations <- AllConsumers
  Timings <- Timing
  MaxReconfigs = 0
  CallbackErrors = TRUE
INVARIANTS
  TimingIInv
  NoSilentFailure
  NoSilentResult
  TimerTells
  FailureReachesConsumer
PROPERTIES
  TimedOutcomesAreSettled
