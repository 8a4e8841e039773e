SPECIFICATION FairSpec
CONSTANTS
  Users <- AllUsers
  MaxSockets = 3
INVARIANTS NeverStuck ControlsMatch Honest
PROPERTIES ConnectingEnds
