\* Every type of field to every other, with hidden, final and synthetic fields.
SPECIFICATION FairSpec
CONSTANTS
  Modulus <- Widths
  Conversions <- Samples
  Strategy = {"HYBRID"}
INVARIANTS
  BeanInv
  TargetFromSource
  EqualWhereRepresentable
  FailsForReason
  ReturnedWhole
PROPERTIES
  ConversionEnds
