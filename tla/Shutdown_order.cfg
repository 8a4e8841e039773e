SPECIFICATION FairSpec
CONSTANTS
  Worlds <- AllWorlds
INVARIANTS OrderlyUse JoinedOnce
PROPERTIES LifeSpec Exits
