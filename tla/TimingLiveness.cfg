\* Two starts on one pool thread, the second delayed, repeated or timed; bodies may never end.
SPECIFICATION TimingFairSpec
CONSTANTS
  MaxSubmissions = 2
  Worker = {w1}
  Configurations <- PlainRunnable
  Timings <- Untimed
  MaxReconfigs = 1
  CallbackErrors = FALSE
PROPERTIES
  TimedAsConfigured
  TimeoutSettles
  IntervalRepeats
