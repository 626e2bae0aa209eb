\* Two starts with a setter call in between, on executors of their own.
SPECIFICATION FairSpec
CONSTANTS
  MaxStarts = 2
  MaxReconfigs = 1
  Configurations <- WithConsumer
  Reconfigurable <- TheConsumer
  DelayOutlastsStart = TRUE
INVARIANTS
  LegacyAnswerInv
  FailureTold
  ReportedOnce
  ReportFirst
PROPERTIES
  LegacyOutcomesAreSettled
  LegacyTimeoutSettles
