SPECIFICATION Spec
CONSTANTS
  None = None
  Nodes = {n1, n2, n3}
  KeyLifeInitial = 10
  KeyLifeRenewal = 4
  RenewalPeriod = 2
  MaxDelay = 0
  MaxFailures = 1
  MayDie = FALSE
SYMMETRY Symmetry
INVARIANTS AtMostOneLeader
