SPECIFICATION FairSpec
CONSTANTS
  Conns = {c1, c2}
  NoConn = NoConn
  Sizes = {1, 2}
  MaxMessages = 3
INVARIANTS TypeOK NothingForgotten
PROPERTIES FeedSpec Served
