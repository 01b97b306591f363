SPECIFICATION FairSpec
CONSTANTS
  Resolvers = {r1}
  Getters = {r1}
  Windows = {0, 1}
  BucketLen = 1
  Ttl = 0
  Publications <- SomePublications
  RestrictDownloads = TRUE
  MaxNow = 3
  MaxRev = 2
  MaxFaults = 1
INVARIANTS TypeOK CooldownHolds DocsStayHidden LatestIsServed GateHolds
PROPERTY LostFileIsTransient
CHECK_DEADLOCK FALSE
