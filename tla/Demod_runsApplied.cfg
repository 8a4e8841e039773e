SPECIFICATION Spec
CONSTANTS
  Rates = {r1}
  InitRate = r1
  NoRate = NoRate
  Commands <- ModeCommands
  MaxBlocks = 2
  Loudness = {TRUE}
  Spurious = FALSE
INVARIANT RunsAppliedChain
