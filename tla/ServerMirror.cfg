\* Two patterns, a frozen chunk, everything else reaped, no groups.
SPECIFICATION Spec
CONSTANTS
  c1 = c1
  c2 = c2
  p1 = p1
  p2 = p2
  Coord = {c1,c2}
  Peer = {p1}
  Val = {va,vb}
  None = None
  Frozen = {c1}
  SimCmdCap = 1
  SimEventCap = 1
  ClientMax = 2
  MaxLive = 0
  MaxGroup = 1
INVARIANTS
  LiveChunksMirrored
  FrozenImmortal
CHECK_DEADLOCK FALSE
