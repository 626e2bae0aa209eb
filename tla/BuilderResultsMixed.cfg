\* Two pool threads: a consumer is given what another thread stored meanwhile.
SPECIFICATION Spec
CONSTANTS
  MaxSubmissions = 2
  Worker = {w1, w2}
  Configurations <- AllConsumers
  MaxReconfigs = 0
  CallbackErrors = FALSE
INVARIANTS
  AppliesOwnResult
