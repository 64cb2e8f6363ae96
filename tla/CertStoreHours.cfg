SPECIFICATION Spec
CONSTANTS
  i1 = i1
  p1 = p1
  p2 = p2
  c1 = c1
  c2 = c2
  Dn = Dn
  NoCert = NoCert
  Threads = {t1, t2}
  Certs = {c1, c2}
  Hour = 2
  Day = 4
  NotAfter <- MCSameHour
  IssuerOf <- MCIssuerOf
  CrlsOf <- MCNoCrl
  Zones <- MCZones
  MaxCalls = 3
  MayEvict = TRUE
  HoursPass = TRUE
  RedisFails = FALSE
  ReplyLost = TRUE
  DiskFails = FALSE
  MayCrash = TRUE
SYMMETRY Symmetry
INVARIANTS TypeOK  ReportedUntilExpiry OneWriter
PROPERTIES ImplementsStore
