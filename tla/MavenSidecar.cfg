SPECIFICATION Spec
CONSTANTS
  Resolvers = {r1}
  Getters = {g1}
  Windows = {0, 1}
  BucketLen = 2
  RestrictDownloads = TRUE
  AsksUnpublished = FALSE
  Kinds = {"dated", "missing"}
  MaxNow = 3
  MaxRev = 2
  MaxFaults = 1
INVARIANTS TypeOK ListsOnlyAged ServesOnlyAged HidesOnlyYoung StampsNotEarly
CHECK_DEADLOCK FALSE
