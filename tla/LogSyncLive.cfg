SPECIFICATION LiveSpec
CONSTANTS
  l1 = l1
  Logs = {l1, l2}
  Workers = {w1}
  Cap = 1
  BatchSpan = 1
  Offset = 0
  Limit = 0
  RunModes = {TRUE, FALSE}
  HasDisk = FALSE
  Erroneous <- MCFirstErroneous
  Droppable <- MCDroppable
  Word = 64
  MaxTree = 2
  MaxRuns = 1
  MaySignal = TRUE
  MayCrash = FALSE
  RedisFails = FALSE
  DiskFails = FALSE
  StaleSTH = TRUE
PROPERTIES Stops EventuallyHandled
