SPECIFICATION Spec
CONSTANTS
  Resolvers = {r1}
  Getters = {r1}
  Windows = {0, 1}
  BucketLen = 1
  Ttl = 0
  NameOf <- SharedNames
  Uploads <- SomeUploads
  RestrictDownloads = TRUE
  MaxNow = 3
  MaxFaults = 1
INVARIANTS TypeOK CooldownHolds KeepsLiveVersions RepresentationFits GateHolds
CHECK_DEADLOCK FALSE
