SPECIFICATION Spec
CONSTANTS
  l1 = l1
  Logs = {l1}
  Workers = {w1}
  Cap = 1
  BatchSpan = 1
  Offset = 0
  Limit = 0
  RunModes = {TRUE, FALSE}
  HasDisk = TRUE
  Erroneous <- MCErroneous
  Droppable <- MCDroppable
  Word = 64
  MaxTree = 4
  MaxRuns = 2
  MaySignal = FALSE
  MayCrash = TRUE
  RedisFails = TRUE
  DiskFails = TRUE
  StaleSTH = FALSE
INVARIANTS TypeOK Covered SavedCovered GapBound
PROPERTIES KeepsPromise
