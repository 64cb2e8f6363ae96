SPECIFICATION FairSpec
CONSTANTS
  Unset = Unset
  Malformed = Malformed
  Empty = Empty
  IntSettings <- MCIntSettings
  DurSettings <- MCDurSettings
  DefaultMean = 1
  Periods = {2, 3}
  MaxAge = 6
INVARIANTS TypeOK HealthInv HealthyMeansStoring UnhealthyMeansSilent
PROPERTIES BecomesHealthy
