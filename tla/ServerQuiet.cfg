\* Three requests, no reaping: no deadlock, subscriptions arrive, no ghosts.
SPECIFICATION QuietSpec
CONSTANTS
  c1 = c1
  c2 = c2
  p1 = p1
  p2 = p2
  Coord = {c1,c2}
  Peer = {p1}
  Val = {live}
  None = None
  Frozen = {}
  SimCmdCap = 3
  SimEventCap = 1
  ClientMax = 2
  MaxLive = 2
  MaxGroup = 2
  MaxRequests = 3
INVARIANTS NoGhosts
PROPERTIES SubscriptionsArrive
