SPECIFICATION Spec
CONSTANTS
  Conns = {c1, c2}
  NoConn = NoConn
  Sizes = {1, 2}
  MaxMessages = 4
PROPERTY GivenUpForCause
