SPECIFICATION FairSpec
CONSTANTS
  a = a
  b = b
  s = s
  x = x
  Nodes = {a, b, s}
  Cids = {x}
  Pairs <- Row
  Connected <- Row
  Seeds <- LastHasIt
  Calls <- FirstGets
  MaxFaults = 1
INVARIANTS
  PeersInformed
PROPERTIES
  Delivered
CHECK_DEADLOCK FALSE
