SPECIFICATION Spec
CONSTANTS
  FreqMin <- SmallMin
  FreqMax <- SmallMax
  FreqStep <- SmallStep
  Offset <- SmallOffset
  Sessions <- RestartsOnly
  Tunable <- SmallTunable
  PromptSnr = TRUE
PROPERTY ScanCovers
