SPECIFICATION FairSpec
CONSTANTS
  BufferSize = 3
  MaxMessage = 5
  MaxSamples = 12
INVARIANTS TypeOK QueueInOrder
PROPERTIES PlayedInOrder Played
