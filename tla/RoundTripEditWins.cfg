SPECIFICATION Spec
CONSTANTS
  l1 = l1
  l2 = l2
  s1 = s1
  s2 = s2
  s3 = s3
  s4 = s4
  None = None
  LocalIds <- TwoLocalIds
  ServerIds <- ThreeServerIds
  MaxWrites = 3
  MaxClock = 2
  JsInApplyWindow = FALSE
  PushLimit = 2
  HttpAttempts = 2
  MaxDisturbances = 0
  BlobVersions <- NoBlobs
  HasConflictColumn = TRUE
  ApplyMayFail = FALSE
PROPERTY RoundTripEditWins
