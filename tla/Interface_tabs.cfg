SPECIFICATION FairSpec
CONSTANTS
  BandMin <- FewMin
  BandMax <- FewMax
  Default <- TheDefault
  Offset <- TheOffset
  Worlds <- AllWorlds
INVARIANTS FollowsTab ShownIsTuned ListedIsStation NothingLost ConversionsExact
PROPERTIES ListedInTime StaysPut CatchesUp
