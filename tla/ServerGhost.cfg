\* Reaping: a snapshot in flight revives an evicted mirror entry.
SPECIFICATION Spec
CONSTANTS
  c1 = c1
  c2 = c2
  p1 = p1
  p2 = p2
  Coord = {c1,c2}
  Peer = {p1}
  Val = {va}
  None = None
  Frozen = {}
  SimCmdCap = 1
  SimEventCap = 2
  ClientMax = 2
  MaxLive = 1
  MaxGroup = 1
INVARIANTS NoGhosts
CHECK_DEADLOCK FALSE
