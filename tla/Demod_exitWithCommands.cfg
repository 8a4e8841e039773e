SPECIFICATION FairSpec
CONSTANTS
  Rates = {r1}
  InitRate = r1
  NoRate = NoRate
  Commands <- ModeCommands
  MaxBlocks = 1
  Loudness = {TRUE}
  Spurious = FALSE
PROPERTY ExitCompletes
