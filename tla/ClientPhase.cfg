\* A chunk with nothing around it, paused when somebody looks at it.
SPECIFICATION Spec
CONSTANTS
  CHUNK_SIZE = 5
  MAX_PERIOD = 2
  Boards <- AllBoards
  RegionAlive <- Dead
  RegionDead <- Dead
  CACHE_BUFFER = 1
  Views <- AllViews
  EditCells <- Edits
  MaxLive = 1
  Claims <- ClaimSets
  MaxTick = 3
  MaxCommands = 1
  MaxLooks = 2
  MaxInbox = 1
INVARIANT IsolatedExact
CHECK_DEADLOCK FALSE
