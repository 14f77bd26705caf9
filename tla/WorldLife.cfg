\* Chunks of 5 x 5, periods to 2, so rings of 6 hashes.
SPECIFICATION Spec
CONSTANTS
  CHUNK_SIZE = 5
  MAX_PERIOD = 2
  Boards <- AllBoards
  RegionAlive <- Alive
  RegionDead <- Dead
  MaxGroup = 2
  MaxTick = 9
  MaxCommands = 2
  EditCells <- Edits
  Watchable <- Watch
  Claims <- ClaimSets
INVARIANTS
  TypeOK
  PausedApart
PROPERTIES
  StepsAsLife
  TickReports
  TicksLeaveNoHusks
CHECK_DEADLOCK FALSE
