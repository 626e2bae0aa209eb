\* Two pool threads, two starts, callbacks that may throw an Error.
SPECIFICATION Spec
CONSTANTS
  MaxSubmissions = 2
  Worker = {w1, w2}
  Configurations <- AllConsumers
  MaxReconfigs = 0
  CallbackErrors = TRUE
SYMMETRY Threads
INVARIANTS
  IInv
  AnswerIInv
  NoSilentFailure
  NoSilentResult
  LatestResult
  ReportBeforeUserConsumer
PROPERTIES
  SpuriousOnlyMidStart
  ToldOutcomesAreSettled
