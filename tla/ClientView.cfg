\* One edit or claim, two changes of the view or connection; the reaper and the sim act when they like.
SPECIFICATION Spec
CONSTANTS
  CHUNK_SIZE = 5
  MAX_PERIOD = 2
  Boards <- AllBoards
  RegionAlive <- Alive
  RegionDead <- Dead
  CACHE_BUFFER = 1
  Views <- AllViews
  EditCells <- Edits
  MaxLive = 1
  Claims <- ClaimSets
  MaxTick = 2
  MaxCommands = 1
  MaxLooks = 2
  MaxInbox = 1
INVARIANTS
  TypeOK
  ViewExact
  NoLeftovers
  InterestAgreed
\* At the bounds there is nothing left to do.
CHECK_DEADLOCK FALSE
