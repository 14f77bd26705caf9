\* Two edits and a reaping, snapshots every other tick, the process killed at any
\* point; regions are frozen and owned; the io task and the sim's sends are
\* scheduled fairly.
SPECIFICATION FairSpec
CONSTANTS
  e1 = e1
  e2 = e2
  e3 = e3
  r1 = r1
  EditId = {e1, e2}
  ReapId = {r1}
  Rule = {"frozen", "owned"}
  NoFile = NoFile
  IoCap = 2
  SnapshotInterval = 2
  MaxTick = 4
  PowerLoss = FALSE
INVARIANTS
  TypeOK
  DurableSurvives
  TickOrder
PROPERTIES
  RecoversHistory
  IsDurableLog
  EditsBecomeDurable
\* The server may be down for good, or have nothing left to do at the bounds.
CHECK_DEADLOCK FALSE
