SPECIFICATION DownloadSpec
CONSTANTS
  Clients = {c1}
  Downloaders = {d1}
  RestrictDownloads = TRUE
  Windows = {0, 1}
  BucketLen = 1
  Ttl = 0
  Dating = {TRUE, FALSE}
  HasEtag = TRUE
  HasDate = TRUE
  RelabelsOn304 = FALSE
  DiskMayFail = TRUE
  MaxNow = 3
  MaxRev = 2
  MaxFaults = 1
INVARIANTS DownloadTypeOK GateHolds CooldownHolds
CHECK_DEADLOCK FALSE
