\* Two peers, two coords, one pattern: the subscription protocol.
SPECIFICATION Spec
CONSTANTS
  c1 = c1
  c2 = c2
  p1 = p1
  p2 = p2
  Coord = {c1,c2}
  Peer = {p1,p2}
  Val = {live}
  None = None
  Frozen = {}
  SimCmdCap = 1
  SimEventCap = 1
  ClientMax = 1
  MaxLive = 1
  MaxGroup = 2
INVARIANTS
  TypeOK
  SubscriptionTablesAgree
  SimLearnsSubscriptions
  SubscribedNeverPaused
SYMMETRY PeerSymmetry
CHECK_DEADLOCK FALSE
