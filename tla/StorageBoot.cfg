\* The process is killed between truncating the log and writing its header.
SPECIFICATION Spec
CONSTANTS
  e1 = e1
  e2 = e2
  e3 = e3
  r1 = r1
  EditId = {e1, e2}
  ReapId = {r1}
  Rule = {}
  NoFile = NoFile
  IoCap = 2
  SnapshotInterval = 2
  MaxTick = 2
  PowerLoss = FALSE
INVARIANTS
  Bootable
\* The server may be down for good, or have nothing left to do at the bounds.
CHECK_DEADLOCK FALSE
