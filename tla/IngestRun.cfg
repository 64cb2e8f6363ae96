SPECIFICATION IngestSpec
CONSTANTS
  c1 = c1
  Logs = {l1}
  Workers = {w1, w2}
  Cap = 1
  BatchSpan = 1
  Offset = 0
  Limit = 0
  RunModes = {FALSE}
  HasDisk = TRUE
  Erroneous <- None
  Droppable <- None
  Word = 64
  MaxTree = 2
  MaxRuns = 2
  MaySignal = FALSE
  MayCrash = TRUE
  RedisFails = TRUE
  DiskFails = TRUE
  StaleSTH = FALSE
  Certs = {c1}
  CertOf <- MCCertOf
  NoCert = NoCert
  HoursPass = TRUE
SYMMETRY Symmetry
INVARIANTS KnownKept HandledIsKept SavedIsKept
