SPECIFICATION Spec
CONSTANTS
  c1 = c1
  c2 = c2
  Clients = {c1, c2}
  Windows = {0, 1}
  BucketLen = 1
  Ttl = 1
  Dating = {TRUE}
  HasEtag = TRUE
  HasDate = TRUE
  RelabelsOn304 = FALSE
  DiskMayFail = TRUE
  MaxNow = 3
  MaxRev = 2
  MaxFaults = 1
INVARIANTS TypeOK CooldownHolds
PROPERTY RefinesAgeGate
SYMMETRY Symmetry
CHECK_DEADLOCK FALSE
