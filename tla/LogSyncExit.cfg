SPECIFICATION Spec
CONSTANTS
  l1 = l1
  Logs = {l1}
  Workers = {w1, w2}
  Cap = 1
  BatchSpan = 1
  Offset = 0
  Limit = 0
  RunModes = {FALSE}
  HasDisk = FALSE
  Erroneous <- MCErroneous
  Droppable <- MCDroppable
  Word = 64
  MaxTree = 2
  MaxRuns = 1
  MaySignal = FALSE
  MayCrash = FALSE
  RedisFails = FALSE
  DiskFails = FALSE
  StaleSTH = FALSE
SYMMETRY Symmetry
INVARIANTS ExitDrained
