SPECIFICATION Spec
CONSTANTS
  Resolvers = {r1}
  Getters = {g1}
  Windows = {2}
  BucketLen = 1
  RestrictDownloads = TRUE
  AsksUnpublished = TRUE
  Kinds = {"dated"}
  MaxNow = 4
  MaxRev = 1
  MaxFaults = 1
INVARIANT ListsOnlyAged
CHECK_DEADLOCK FALSE
