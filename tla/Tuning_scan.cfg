SPECIFICATION FairSpec
CONSTANTS
  FreqMin <- SmallMin
  FreqMax <- SmallMax
  FreqStep <- SmallStep
  Offset <- SmallOffset
  Sessions <- AllSessions
  Tunable <- SmallTunable
  PromptSnr = TRUE
INVARIANTS InBand RadioFollows FoundIsStation
PROPERTIES ScanCoversAlone ScanEnds SeekEnds
