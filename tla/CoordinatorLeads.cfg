SPECIFICATION FairSpec
CONSTANTS
  None = None
  Nodes = {n1, n2, n3}
  KeyLifeInitial = 4
  KeyLifeRenewal = 3
  RenewalPeriod = 1
  MaxDelay = 1
  MaxFailures = 1
  MayDie = TRUE
INVARIANTS TypeOK KeyOutlives OneLeaderUnlessMissed NoFalseStart
PROPERTIES StartReaches
