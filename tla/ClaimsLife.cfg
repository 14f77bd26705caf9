\* Two users, one connection after the other; three requests and a restart.
SPECIFICATION FairSpec
CONSTANTS
  u1 = u1
  u2 = u2
  p1 = p1
  User = {u1, u2}
  NoUser = NoUser
  Peer = {p1}
  CHUNK_SIZE = 2
  ClaimW = 2
  ClaimH = 1
  StaticRegions <- Regions_toml
  Site <- Sites
  Editable <- Cells
  MaxRequests = 3
  MaxRestarts = 1
INVARIANTS
  TypeOK
  OwnerRules
  SimIsolates
  EditsLawful
  DiskFollows
PROPERTIES
  ClaimsSettle
\* At the bounds there is nothing left to do.
CHECK_DEADLOCK FALSE
