SPECIFICATION FairSpec
CONSTANTS
  i1 = i1
  p1 = p1
  p2 = p2
  c1 = c1
  c2 = c2
  Dn = Dn
  NoCert = NoCert
  Threads = {t1, t2}
  Certs = {c1, c2}
  Hour = 2
  Day = 4
  NotAfter <- MCSameHour
  IssuerOf <- MCIssuerOf
  CrlsOf <- MCTwoCrls
  Zones <- MCZones
  MaxCalls = 2
  MayEvict = FALSE
  HoursPass = FALSE
  RedisFails = TRUE
  ReplyLost = TRUE
  DiskFails = TRUE
  MayCrash = TRUE
INVARIANTS KnownIsStored MetaRecorded DiskListing
PROPERTIES ImplementsStore StoreReturns
