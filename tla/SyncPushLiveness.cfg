SPECIFICATION FairSpec
CONSTANTS
  l1 = l1
  l2 = l2
  s1 = s1
  s2 = s2
  s3 = s3
  s4 = s4
  None = None
  LocalIds <- TwoLocalIds
  ServerIds <- FourServerIds
  MaxWrites = 3
  MaxClock = 1
  JsInApplyWindow = TRUE
  PushLimit = 2
  HttpAttempts = 2
  MaxDisturbances = 1
  BlobVersions <- NoBlobs
  HasConflictColumn = TRUE
  ApplyMayFail = TRUE
PROPERTY QueueDrains
