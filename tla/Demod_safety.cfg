SPECIFICATION Spec
CONSTANTS
  Rates = {r1, r2}
  InitRate = r1
  NoRate = NoRate
  Commands <- SingleCommands
  MaxBlocks = 2
  Loudness = {TRUE, FALSE}
  Spurious = TRUE
INVARIANTS MetricsDescribeOutput ExposedOnlyDuringCommand ChangesApplied
PROPERTIES BuffersStable PipeSpec
