SPECIFICATION FairSpec
CONSTANTS
  Rates = {r1}
  InitRate = r1
  NoRate = NoRate
  Commands <- SwitchToAM
  MaxBlocks = 2
  Loudness = {TRUE}
  Spurious = FALSE
INVARIANTS NoCircularWait NothingFromNothing
PROPERTIES Delivered CommandReturns ExitUndisturbed
