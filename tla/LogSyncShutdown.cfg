SPECIFICATION Spec
CONSTANTS
  l1 = l1
  Logs = {l1, l2}
  Workers = {w1, w2}
  Cap = 1
  BatchSpan = 1
  Offset = 0
  Limit = 1
  RunModes = {TRUE}
  HasDisk = FALSE
  Erroneous <- MCErroneous
  Droppable <- MCDroppable
  Word = 64
  MaxTree = 2
  MaxRuns = 2
  MaySignal = TRUE
  MayCrash = FALSE
  RedisFails = FALSE
  DiskFails = FALSE
  StaleSTH = TRUE
SYMMETRY Symmetry
INVARIANTS SavedCovered NoSendAfterClose NoRedo
PROPERTIES DrainedStop PosNeverBack
