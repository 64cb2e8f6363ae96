SPECIFICATION Spec
CONSTANTS
  c1 = c1
  c2 = c2
  c3 = c3
  d1 = d1
  d2 = d2
  i1 = i1
  i2 = i2
  Certs = {c1, c2, c3}
  ExpDateOf <- MCExpDateOf
  IssuerOf <- MCIssuerOf
  Verbose = TRUE
  MayExpire = TRUE
  RedisFails = TRUE
  MaxRepeats = 1
INVARIANTS TypeOK StayedReported OvercountByRepeats
